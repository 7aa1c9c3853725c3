--------------------------- MODULE MarketDataProofs ---------------------------
(***************************************************************************)
(* Market data for any callers, ranges, instruments and minutes: proofs    *)
(* about HistoricalRecovery (coalesced GetCandles recoveries) and, below   *)
(* them, about BarStreams (the bars of the client's streams and polls).    *)
(***************************************************************************)
EXTENDS HistoricalRecovery, BarStreams, FiniteSetTheorems, FunctionTheorems,
        SequenceTheorems, NaturalsInduction, WellFoundedInduction, TLAPS

-----------------------------------------------------------------------------
\* Part 1: HistoricalRecovery

\* The flight of an owner is pending, and registered for the owner's range.
OwnersHold ==
    \A c \in Callers : Owns(c) =>
        /\ flight[c] \in Flights /\ state[flight[c]] = "pending"
        /\ flights[key[c]] = flight[c]
        /\ pc[c] = "complete" => outcome[c] \in Completions

OwnersApart ==
    \A c, d \in Callers : Owns(c) /\ Owns(d) /\ flight[c] = flight[d] => c = d

JoinableIsOwned ==
    \A k \in Keys : Joinable(k) =>
        \E c \in Callers : Owns(c) /\ key[c] = k /\ flight[c] = flights[k]

\* A caller that completed its flight goes on with what it reported.
EndedIsSettled ==
    \A c \in Callers : pc[c] \in {"release", "remove"} =>
        /\ flight[c] \in Flights /\ state[flight[c]] # "pending"
        /\ outcome[c] \in Completions
        /\ outcome[c] = "succeeded" => c \in fresh

\* A flight that is followed belongs to an owner of the follower's range, or
\* has been completed since the follower came.
FollowersAreServed ==
    \A d \in Callers : pc[d] = "follow" =>
        /\ flight[d] \in Flights
        /\ state[flight[d]] = "pending" =>
              \E c \in Callers : Owns(c) /\ key[c] = key[d] /\ flight[c] = flight[d]
        /\ state[flight[d]] = "succeeded" => d \in fresh

IInv ==
    /\ TypeOK /\ OwnersHold /\ OwnersApart /\ JoinableIsOwned
    /\ EndedIsSettled /\ FollowersAreServed /\ SuccessIsFresh

\* Nothing is under way at first.
LEMMA InitIInv == Init => IInv
<1> SUFFICES ASSUME Init PROVE IInv OBVIOUS
<1>1. TypeOK BY ParametersOK DEF Init, TypeOK, Pcs, Completions
<1>2. \A c \in Callers : pc[c] = "idle" BY DEF Init
<1>3. \A k \in Keys : ~Joinable(k) BY DEF Init, Joinable
<1> QED
    BY <1>1, <1>2, <1>3 DEF IInv, OwnersHold, OwnersApart, JoinableIsOwned, EndedIsSettled,
        FollowersAreServed, SuccessIsFresh, Owns

\* A caller that is not an owner moves on to where it owns and follows nothing.
LEMMA QuietStep ==
    ASSUME IInv, TypeOK', NEW c \in Callers, ~Owns(c),
           NEW l \in {"look", "permit", "claim", "returned"},
           pc' = [pc EXCEPT ![c] = l],
           key' = key, state' = state, fresh' = fresh,
           \A d \in Callers \ {c} : flight'[d] = flight[d] /\ outcome'[d] = outcome[d],
           \A k \in Keys : flights'[k] = flights[k] \/ (flights'[k] = None /\ ~Joinable(k)),
           l = "returned" /\ outcome'[c] = "succeeded" => c \in fresh
    PROVE  IInv'
<1>1. pc'[c] = l /\ \A d \in Callers \ {c} : pc'[d] = pc[d]
    BY DEF IInv, TypeOK
<1>2. \A d \in Callers : (Owns(d))' = Owns(d) BY <1>1 DEF Owns
<1>3. \A d \in Callers : Owns(d) => d # c OBVIOUS
<1>4. \A d \in Callers : Owns(d) => flights'[key[d]] = flights[key[d]]
    BY DEF IInv, TypeOK, OwnersHold, Joinable
<1>5. \A k \in Keys : (Joinable(k))' => Joinable(k) /\ flights'[k] = flights[k]
    BY DEF Joinable
<1>6. OwnersHold' BY <1>1, <1>2, <1>3, <1>4 DEF IInv, OwnersHold
<1>7. OwnersApart' BY <1>2, <1>3 DEF IInv, OwnersApart
<1>8. JoinableIsOwned' BY <1>2, <1>3, <1>5 DEF IInv, JoinableIsOwned
<1>9. EndedIsSettled' BY <1>1 DEF IInv, EndedIsSettled
<1>10. FollowersAreServed'
  <2> SUFFICES ASSUME NEW d \in Callers, pc'[d] = "follow"
               PROVE  /\ flight'[d] \in Flights
                      /\ state[flight'[d]] = "pending" =>
                            \E e \in Callers : (Owns(e))' /\ key[e] = key[d] /\ flight'[e] = flight'[d]
                      /\ state[flight'[d]] = "succeeded" => d \in fresh
      BY DEF FollowersAreServed
  <2>1. d # c /\ pc[d] = "follow" /\ flight'[d] = flight[d] BY <1>1
  <2> QED BY <2>1, <1>2, <1>3 DEF IInv, FollowersAreServed
<1>11. SuccessIsFresh' BY <1>1 DEF IInv, SuccessIsFresh
<1> QED BY <1>6, <1>7, <1>8, <1>9, <1>10, <1>11 DEF IInv

\* A caller joins the pending flight of its range.
LEMMA JoiningStep ==
    ASSUME IInv, TypeOK', NEW c \in Callers, pc[c] \in {"look", "claim"},
           Joinable(key[c]), Follow(c), UNCHANGED <<key, outcome, fresh>>
    PROVE  IInv'
<1>1. /\ pc'[c] = "follow" /\ \A d \in Callers \ {c} : pc'[d] = pc[d] /\ flight'[d] = flight[d]
      /\ flight'[c] = flights[key[c]] /\ flights' = flights /\ state' = state
    BY DEF IInv, TypeOK, Follow, Goto
<1>2. \A d \in Callers : (Owns(d))' = Owns(d) BY <1>1 DEF Owns
<1>3. ~Owns(c) BY DEF Owns
<1>4. PICK e \in Callers : Owns(e) /\ key[e] = key[c] /\ flight[e] = flights[key[c]]
    BY DEF IInv, JoinableIsOwned, TypeOK
<1>5. flight'[c] \in Flights /\ state[flight'[c]] = "pending"
    BY <1>1, <1>4 DEF IInv, OwnersHold
<1>6. OwnersHold' BY <1>1, <1>2, <1>3 DEF IInv, OwnersHold
<1>7. OwnersApart' BY <1>1, <1>2, <1>3 DEF IInv, OwnersApart
<1>8. JoinableIsOwned' BY <1>1, <1>2, <1>3 DEF IInv, JoinableIsOwned, Joinable
<1>9. EndedIsSettled' BY <1>1 DEF IInv, EndedIsSettled
<1>10. FollowersAreServed'
  <2> SUFFICES ASSUME NEW d \in Callers, pc'[d] = "follow"
               PROVE  /\ flight'[d] \in Flights
                      /\ state[flight'[d]] = "pending" =>
                            \E o \in Callers : (Owns(o))' /\ key[o] = key[d] /\ flight'[o] = flight'[d]
                      /\ state[flight'[d]] = "succeeded" => d \in fresh
      BY <1>1 DEF FollowersAreServed
  <2>1. CASE d = c BY <2>1, <1>1, <1>2, <1>3, <1>4, <1>5
  <2>2. CASE d # c
    <3>1. pc[d] = "follow" /\ flight'[d] = flight[d] BY <2>2, <1>1
    <3> QED BY <3>1, <1>1, <1>2, <1>3 DEF IInv, FollowersAreServed
  <2> QED BY <2>1, <2>2
<1>11. SuccessIsFresh' BY <1>1 DEF IInv, SuccessIsFresh
<1> QED BY <1>6, <1>7, <1>8, <1>9, <1>10, <1>11 DEF IInv

\* A caller registers an unused flight where no pending one is.
LEMMA NewFlightStep ==
    ASSUME IInv, TypeOK', NEW c \in Callers, pc[c] = "claim", ~Joinable(key[c]),
           NewFlight(c), UNCHANGED <<key, outcome, fresh>>
    PROVE  IInv'
<1>1. PICK f \in Flights :
        /\ \A k \in Keys : flights[k] # f
        /\ \A d \in Callers : flight[d] # f
        /\ state' = [state EXCEPT ![f] = "pending"]
        /\ flights' = [flights EXCEPT ![key[c]] = f]
        /\ flight' = [flight EXCEPT ![c] = f]
    BY DEF NewFlight, Unused
<1>2. /\ pc'[c] = "work" /\ flight'[c] = f /\ state'[f] = "pending" /\ flights'[key[c]] = f
      /\ \A d \in Callers \ {c} : pc'[d] = pc[d] /\ flight'[d] = flight[d]
      /\ \A g \in Flights \ {f} : state'[g] = state[g]
      /\ \A k \in Keys \ {key[c]} : flights'[k] = flights[k]
    BY <1>1 DEF IInv, TypeOK, NewFlight, Goto
<1>3. (Owns(c))' /\ ~Owns(c) /\ \A d \in Callers \ {c} : (Owns(d))' = Owns(d)
    BY <1>2 DEF Owns
<1>4. \A d \in Callers : Owns(d) => key[d] # key[c]
  <2> SUFFICES ASSUME NEW d \in Callers, Owns(d), key[d] = key[c] PROVE FALSE OBVIOUS
  <2>1. flights[key[c]] \in Flights /\ state[flights[key[c]]] = "pending"
      BY DEF IInv, OwnersHold
  <2> QED BY <2>1, ParametersOK DEF Joinable
<1>5. OwnersHold'
  <2> SUFFICES ASSUME NEW d \in Callers, (Owns(d))'
               PROVE  /\ flight'[d] \in Flights /\ state'[flight'[d]] = "pending"
                      /\ flights'[key[d]] = flight'[d]
                      /\ pc'[d] = "complete" => outcome[d] \in Completions
      BY DEF OwnersHold
  <2>1. CASE d = c BY <2>1, <1>2
  <2>2. CASE d # c
    <3>1. Owns(d) /\ flight'[d] = flight[d] /\ flight[d] # f /\ key[d] # key[c] /\ key[d] \in Keys
        BY <2>2, <1>1, <1>2, <1>3, <1>4 DEF IInv, TypeOK
    <3> QED BY <3>1, <2>2, <1>2 DEF IInv, OwnersHold
  <2> QED BY <2>1, <2>2
<1>6. OwnersApart' BY <1>1, <1>2, <1>3 DEF IInv, OwnersApart
<1>7. JoinableIsOwned'
  <2> SUFFICES ASSUME NEW k \in Keys, (Joinable(k))'
               PROVE  \E d \in Callers : (Owns(d))' /\ key[d] = k /\ flight'[d] = flights'[k]
      BY DEF JoinableIsOwned
  <2>1. CASE k = key[c] BY <2>1, <1>2, <1>3
  <2>2. CASE k # key[c]
    <3>1. flights'[k] = flights[k] /\ flights[k] # None /\ flights[k] \in Flights \ {f}
        BY <2>2, <1>1, <1>2 DEF Joinable, IInv, TypeOK
    <3>2. Joinable(k) BY <3>1, <1>2 DEF Joinable
    <3> QED BY <3>1, <3>2, <1>2, <1>3 DEF IInv, JoinableIsOwned
  <2> QED BY <2>1, <2>2
<1>8. EndedIsSettled' BY <1>1, <1>2 DEF IInv, EndedIsSettled
<1>9. FollowersAreServed'
  <2> SUFFICES ASSUME NEW d \in Callers, pc'[d] = "follow"
               PROVE  /\ flight'[d] \in Flights
                      /\ state'[flight'[d]] = "pending" =>
                            \E o \in Callers : (Owns(o))' /\ key[o] = key[d] /\ flight'[o] = flight'[d]
                      /\ state'[flight'[d]] = "succeeded" => d \in fresh
      BY DEF FollowersAreServed
  <2>1. d # c /\ pc[d] = "follow" /\ flight'[d] = flight[d] /\ flight[d] # f BY <1>1, <1>2
  <2>2. flight[d] \in Flights /\ state'[flight[d]] = state[flight[d]]
      BY <2>1, <1>2 DEF IInv, FollowersAreServed
  <2> QED BY <2>1, <2>2, <1>2, <1>3 DEF IInv, FollowersAreServed
<1>10. SuccessIsFresh' BY <1>2 DEF IInv, SuccessIsFresh
<1> QED BY <1>5, <1>6, <1>7, <1>8, <1>9, <1>10 DEF IInv

\* The owner has its outcome.
LEMMA DecideStep ==
    ASSUME IInv, TypeOK', NEW c \in Callers, pc[c] = "work",
           NEW completion \in Completions, Decide(c, completion)
    PROVE  IInv'
<1>1. /\ pc'[c] = "complete" /\ outcome'[c] = completion
      /\ \A d \in Callers \ {c} : pc'[d] = pc[d] /\ outcome'[d] = outcome[d]
      /\ UNCHANGED <<key, flight, flights, state, fresh>>
    BY DEF IInv, TypeOK, Decide, Goto
<1>2. \A d \in Callers : (Owns(d))' = Owns(d) BY <1>1 DEF Owns
<1>3. OwnersHold' BY <1>1, <1>2 DEF IInv, OwnersHold
<1>4. OwnersApart' BY <1>1, <1>2 DEF IInv, OwnersApart
<1>5. JoinableIsOwned' BY <1>1, <1>2 DEF IInv, JoinableIsOwned, Joinable
<1>6. EndedIsSettled' BY <1>1 DEF IInv, EndedIsSettled
<1>7. FollowersAreServed'
  <2> SUFFICES ASSUME NEW d \in Callers, pc'[d] = "follow"
               PROVE  /\ flight[d] \in Flights
                      /\ state[flight[d]] = "pending" =>
                            \E o \in Callers : Owns(o) /\ key[o] = key[d] /\ flight[o] = flight[d]
                      /\ state[flight[d]] = "succeeded" => d \in fresh
      BY <1>1, <1>2 DEF FollowersAreServed
  <2> QED BY <1>1 DEF IInv, FollowersAreServed
<1>8. SuccessIsFresh' BY <1>1 DEF IInv, SuccessIsFresh
<1> QED BY <1>3, <1>4, <1>5, <1>6, <1>7, <1>8 DEF IInv

\* The owner completes its flight, and those who wait for the range have been
\* there when it did.
LEMMA CompleteStep == ASSUME IInv, TypeOK', NEW c \in Callers, Complete(c) PROVE IInv'
<1> DEFINE f == flight[c]
<1>1. pc[c] = "complete" /\ Owns(c) BY DEF Complete, CompleteWith, Owns
<1>2. f \in Flights /\ state[f] = "pending" /\ outcome[c] \in Completions
    BY <1>1 DEF IInv, OwnersHold
<1>3. /\ pc'[c] = "release" /\ state'[f] = outcome[c]
      /\ \A d \in Callers \ {c} : pc'[d] = pc[d]
      /\ \A g \in Flights \ {f} : state'[g] = state[g]
      /\ UNCHANGED <<key, flight, flights, outcome>>
    BY <1>2 DEF IInv, TypeOK, Complete, CompleteWith, Goto
<1>4. /\ fresh \subseteq fresh'
      /\ outcome[c] = "succeeded" =>
            \A d \in Callers : key[d] = key[c] /\ pc[d] \notin {"idle", "returned"} => d \in fresh'
    BY DEF Complete, CompleteWith
<1>5. ~(Owns(c))' /\ \A d \in Callers \ {c} : (Owns(d))' = Owns(d) BY <1>3 DEF Owns
<1>6. outcome[c] # "pending" BY <1>2 DEF Completions
<1>7. \A d \in Callers \ {c} : Owns(d) => flight[d] \in Flights \ {f}
    BY <1>1 DEF IInv, OwnersApart, OwnersHold
<1> HIDE DEF f
<1>8. OwnersHold' BY <1>3, <1>5, <1>7 DEF IInv, OwnersHold
<1>9. OwnersApart' BY <1>3, <1>5 DEF IInv, OwnersApart
<1>10. JoinableIsOwned'
  <2> SUFFICES ASSUME NEW k \in Keys, (Joinable(k))'
               PROVE  \E d \in Callers : (Owns(d))' /\ key[d] = k /\ flight[d] = flights[k]
      BY <1>3 DEF JoinableIsOwned
  <2>1. flights[k] \in Flights \ {f} BY <1>3, <1>6 DEF Joinable, IInv, TypeOK
  <2>2. Joinable(k) BY <2>1, <1>3 DEF Joinable
  <2>3. PICK d \in Callers : Owns(d) /\ key[d] = k /\ flight[d] = flights[k]
      BY <2>2 DEF IInv, JoinableIsOwned
  <2> QED BY <2>1, <2>3, <1>5 DEF f
<1>11. EndedIsSettled'
  <2> SUFFICES ASSUME NEW d \in Callers, pc'[d] \in {"release", "remove"}
               PROVE  /\ flight[d] \in Flights /\ state'[flight[d]] # "pending"
                      /\ outcome[d] \in Completions
                      /\ outcome[d] = "succeeded" => d \in fresh'
      BY <1>3 DEF EndedIsSettled
  <2>1. CASE d = c BY <2>1, <1>1, <1>2, <1>3, <1>4, <1>6 DEF f
  <2>2. CASE d # c
    <3>1. pc[d] \in {"release", "remove"} BY <2>2, <1>3
    <3>2. state[flight[d]] # "pending" /\ flight[d] \in Flights BY <3>1 DEF IInv, EndedIsSettled
    <3> QED BY <3>1, <3>2, <1>2, <1>3, <1>4 DEF IInv, EndedIsSettled
  <2> QED BY <2>1, <2>2
<1>12. FollowersAreServed'
  <2> SUFFICES ASSUME NEW d \in Callers, pc'[d] = "follow"
               PROVE  /\ flight[d] \in Flights
                      /\ state'[flight[d]] = "pending" =>
                            \E o \in Callers : (Owns(o))' /\ key[o] = key[d] /\ flight[o] = flight[d]
                      /\ state'[flight[d]] = "succeeded" => d \in fresh'
      BY <1>3 DEF FollowersAreServed
  <2>1. d # c /\ pc[d] = "follow" /\ flight[d] \in Flights
      BY <1>3 DEF IInv, FollowersAreServed
  <2>2. CASE flight[d] = f
    <3>1. PICK o \in Callers : Owns(o) /\ key[o] = key[d] /\ flight[o] = f
        BY <2>1, <2>2, <1>2 DEF IInv, FollowersAreServed
    <3>2. o = c BY <3>1, <1>1 DEF IInv, OwnersApart, f
    <3> QED BY <2>1, <2>2, <3>1, <3>2, <1>3, <1>4, <1>6
  <2>3. CASE flight[d] # f
    <3>1. state'[flight[d]] = state[flight[d]] BY <2>1, <2>3, <1>3
    <3>2. \A o \in Callers : Owns(o) /\ flight[o] = flight[d] => (Owns(o))'
        BY <2>3, <1>5 DEF f
    <3> QED BY <2>1, <3>1, <3>2, <1>4 DEF IInv, FollowersAreServed
  <2> QED BY <2>2, <2>3
<1>13. SuccessIsFresh' BY <1>3, <1>4 DEF IInv, SuccessIsFresh
<1> QED BY <1>8, <1>9, <1>10, <1>11, <1>12, <1>13 DEF IInv

\* The owner that has completed its flight tells the circuit.
LEMMA ReleaseStep == ASSUME IInv, TypeOK', NEW c \in Callers, Release(c) PROVE IInv'
<1>1. /\ pc[c] = "release" /\ pc'[c] = "remove"
      /\ \A d \in Callers \ {c} : pc'[d] = pc[d]
      /\ UNCHANGED <<key, flight, outcome, flights, state, fresh>>
    BY DEF IInv, TypeOK, Release, Goto
<1>2. \A d \in Callers : (Owns(d))' = Owns(d) BY <1>1 DEF Owns
<1>3. OwnersHold' BY <1>1, <1>2 DEF IInv, OwnersHold
<1>4. OwnersApart' BY <1>1, <1>2 DEF IInv, OwnersApart
<1>5. JoinableIsOwned' BY <1>1, <1>2 DEF IInv, JoinableIsOwned, Joinable
<1>6. EndedIsSettled' BY <1>1 DEF IInv, EndedIsSettled
<1>7. FollowersAreServed'
  <2> SUFFICES ASSUME NEW d \in Callers, pc'[d] = "follow"
               PROVE  /\ flight[d] \in Flights
                      /\ state[flight[d]] = "pending" =>
                            \E o \in Callers : Owns(o) /\ key[o] = key[d] /\ flight[o] = flight[d]
                      /\ state[flight[d]] = "succeeded" => d \in fresh
      BY <1>1, <1>2 DEF FollowersAreServed
  <2> QED BY <1>1 DEF IInv, FollowersAreServed
<1>8. SuccessIsFresh' BY <1>1 DEF IInv, SuccessIsFresh
<1> QED BY <1>3, <1>4, <1>5, <1>6, <1>7, <1>8 DEF IInv

\* A caller asks for a range.
LEMMA EnterStep == ASSUME IInv, TypeOK', NEW c \in Callers, Enter(c) PROVE IInv'
<1>1. /\ pc[c] \in {"idle", "returned"} /\ pc'[c] = "look"
      /\ \A d \in Callers \ {c} :
            /\ pc'[d] = pc[d] /\ key'[d] = key[d] /\ outcome'[d] = outcome[d]
            /\ d \in fresh' <=> d \in fresh
      /\ UNCHANGED <<flight, flights, state>>
    BY DEF IInv, TypeOK, Enter, Goto
<1>2. ~Owns(c) /\ \A d \in Callers : (Owns(d))' = Owns(d) BY <1>1 DEF Owns
<1>3. OwnersHold'
  <2> SUFFICES ASSUME NEW d \in Callers, Owns(d)
               PROVE  /\ flight[d] \in Flights /\ state[flight[d]] = "pending"
                      /\ flights[key'[d]] = flight[d]
                      /\ pc'[d] = "complete" => outcome'[d] \in Completions
      BY <1>1, <1>2 DEF OwnersHold
  <2> QED BY <1>1, <1>2 DEF IInv, OwnersHold
<1>4. OwnersApart' BY <1>1, <1>2 DEF IInv, OwnersApart
<1>5. JoinableIsOwned' BY <1>1, <1>2 DEF IInv, JoinableIsOwned, Joinable
<1>6. EndedIsSettled' BY <1>1 DEF IInv, EndedIsSettled
<1>7. FollowersAreServed'
  <2> SUFFICES ASSUME NEW d \in Callers, pc'[d] = "follow"
               PROVE  /\ flight[d] \in Flights
                      /\ state[flight[d]] = "pending" =>
                            \E o \in Callers : Owns(o) /\ key'[o] = key'[d] /\ flight[o] = flight[d]
                      /\ state[flight[d]] = "succeeded" => d \in fresh'
      BY <1>1, <1>2 DEF FollowersAreServed
  <2>1. d # c /\ pc[d] = "follow" BY <1>1
  <2> QED BY <2>1, <1>1, <1>2 DEF IInv, FollowersAreServed
<1>8. SuccessIsFresh' BY <1>1 DEF IInv, SuccessIsFresh
<1> QED BY <1>3, <1>4, <1>5, <1>6, <1>7, <1>8 DEF IInv

-----------------------------------------------------------------------------

\* Every step keeps the shape of callers, flights and circuit.
LEMMA TypeStep == ASSUME IInv, [Next]_vars PROVE TypeOK'
<1> USE DEF TypeOK, Pcs, Completions
<1>1. TypeOK BY DEF IInv
<1>2. ASSUME NEW c \in Callers, Enter(c) PROVE TypeOK' BY <1>1, <1>2 DEF Enter, Goto
<1>3. ASSUME NEW c \in Callers, CallerStep(c) PROVE TypeOK'
  <2>1. CASE Look(c) BY <1>1, <2>1 DEF Look, Follow, Goto, Joinable
  <2>2. CASE Permit(c) BY <1>1, <2>2 DEF Permit, Goto
  <2>3. CASE Refuse(c) BY <1>1, <2>3 DEF Refuse, Return, Goto
  <2>4. CASE Claim(c) BY <1>1, <2>4 DEF Claim, Follow, NewFlight, Goto, Joinable
  <2>5. CASE Publish(c) \/ Fail(c) BY <1>1, <2>5 DEF Publish, Fail, Decide, Goto
  <2>6. CASE Cancel(c) BY <1>1, <2>6 DEF Cancel, Decide, Goto
  <2>7. CASE Complete(c)
    <3>1. outcome[c] \in {"succeeded", "failed", "cancelled"}
        BY <2>7 DEF IInv, OwnersHold, Owns, Complete, CompleteWith
    <3> QED BY <1>1, <2>7, <3>1 DEF Complete, CompleteWith, Goto
  <2>8. CASE Release(c)
    <3>1. pc' \in [Callers -> Pcs] BY <1>1, <2>8 DEF Release, Goto
    <3>2. circuit' \in {"closed", "open", "cooled"} /\ failures' \in 0 .. Threshold
        BY <1>1, <2>8, ParametersOK DEF Release, CircuitAfterSuccess, CircuitAfterFailure,
            CircuitAfterCancel
    <3> QED BY <1>1, <2>8, <3>1, <3>2 DEF Release
  <2>9. CASE FinishRecovery(c)
    <3>1. outcome[c] \in Completions BY <2>9 DEF IInv, EndedIsSettled, FinishRecovery
    <3> QED BY <1>1, <2>9, <3>1 DEF FinishRecovery, Return, Goto
  <2>10. CASE FollowResult(c)
    <3>1. PICK result \in Completions : Return(c, result)
        BY <2>10 DEF FollowResult, Completions
    <3> QED BY <1>1, <2>10, <3>1 DEF FollowResult, Return, Goto
  <2>11. CASE FollowCancelled(c) BY <1>1, <2>11 DEF FollowCancelled, Goto
  <2> QED BY <1>3, <2>1, <2>2, <2>3, <2>4, <2>5, <2>6, <2>7, <2>8, <2>9, <2>10, <2>11
      DEF CallerStep
<1>4. ASSUME NEW c \in Callers, AbandonFollow(c) PROVE TypeOK'
    BY <1>1, <1>4 DEF AbandonFollow, Return, Goto
<1>5. CASE CoolDown BY <1>1, <1>5 DEF CoolDown
<1>6. CASE UNCHANGED vars BY <1>1, <1>6 DEF vars
<1> QED BY <1>2, <1>3, <1>4, <1>5, <1>6 DEF Next

\* Each step of a caller keeps the account of owners and followers.
LEMMA CallerKeepsIInv == ASSUME IInv, TypeOK', NEW c \in Callers, CallerStep(c) PROVE IInv'
<1> USE DEF Goto, Owns
<1>1. CASE Look(c)
  <2>1. CASE Joinable(key[c]) BY <1>1, <2>1, JoiningStep DEF Look
  <2>2. CASE ~Joinable(key[c])
    <3>1. \A k \in Keys : flights'[k] = flights[k] \/ (flights'[k] = None /\ ~Joinable(k))
        BY <1>1, <2>2 DEF Look, IInv, TypeOK
    <3> QED BY <1>1, <2>2, <3>1, QuietStep DEF Look
  <2> QED BY <2>1, <2>2
<1>2. CASE Permit(c) BY <1>2, QuietStep DEF Permit
<1>3. CASE Refuse(c)
  <2>1. outcome'[c] = "refused" /\ \A d \in Callers \ {c} : flight'[d] = flight[d] /\ outcome'[d] = outcome[d]
      BY <1>3 DEF Refuse, Return, IInv, TypeOK
  <2> QED BY <1>3, <2>1, QuietStep DEF Refuse, Return
<1>4. CASE Claim(c) BY <1>4, JoiningStep, NewFlightStep DEF Claim
<1>5. CASE Publish(c) \/ Fail(c) \/ Cancel(c)
    BY <1>5, DecideStep DEF Publish, Fail, Cancel, Completions
<1>6. CASE FinishRecovery(c)
  <2>1. /\ outcome'[c] = outcome[c]
        /\ \A d \in Callers \ {c} : flight'[d] = flight[d] /\ outcome'[d] = outcome[d]
      BY <1>6 DEF FinishRecovery, Return, IInv, TypeOK
  <2>2. flight[c] \in Flights /\ state[flight[c]] # "pending" /\ (outcome[c] = "succeeded" => c \in fresh)
      BY <1>6 DEF FinishRecovery, IInv, EndedIsSettled
  <2>3. \A k \in Keys : flights'[k] = flights[k] \/ (flights'[k] = None /\ ~Joinable(k))
      BY <1>6, <2>2 DEF FinishRecovery, Joinable, IInv, TypeOK
  <2> QED BY <1>6, <2>1, <2>2, <2>3, QuietStep DEF FinishRecovery, Return
<1>7. CASE FollowResult(c)
  <2>1. /\ outcome'[c] = "succeeded" => state[flight[c]] = "succeeded"
        /\ \A d \in Callers \ {c} : flight'[d] = flight[d] /\ outcome'[d] = outcome[d]
      BY <1>7 DEF FollowResult, Return, IInv, TypeOK
  <2>2. state[flight[c]] = "succeeded" => c \in fresh
      BY <1>7 DEF FollowResult, IInv, FollowersAreServed
  <2> QED BY <1>7, <2>1, <2>2, QuietStep DEF FollowResult, Return
<1>8. CASE FollowCancelled(c)
  <2>1. \A d \in Callers \ {c} : flight'[d] = flight[d] /\ outcome'[d] = outcome[d]
      BY <1>8 DEF FollowCancelled, IInv, TypeOK
  <2> QED BY <1>8, <2>1, QuietStep DEF FollowCancelled
<1> QED BY <1>1, <1>2, <1>3, <1>4, <1>5, <1>6, <1>7, <1>8, CompleteStep, ReleaseStep DEF CallerStep

\* So does every step.
LEMMA NextIInv == IInv /\ [Next]_vars => IInv'
<1> SUFFICES ASSUME IInv, [Next]_vars PROVE IInv' OBVIOUS
<1>1. TypeOK' BY TypeStep
<1>2. ASSUME NEW c \in Callers, AbandonFollow(c) PROVE IInv'
  <2>1. outcome'[c] = "cancelled" /\ \A d \in Callers \ {c} : flight'[d] = flight[d] /\ outcome'[d] = outcome[d]
      BY <1>2 DEF AbandonFollow, Return, IInv, TypeOK
  <2> QED BY <1>1, <1>2, <2>1, QuietStep DEF AbandonFollow, Return, Goto, Owns
<1>3. CASE UNCHANGED <<pc, key, flight, outcome, flights, state, fresh>>
  <2>1. OwnersHold' /\ OwnersApart' BY <1>3 DEF IInv, OwnersHold, OwnersApart, Owns
  <2>2. JoinableIsOwned' BY <1>3 DEF IInv, JoinableIsOwned, Joinable, Owns
  <2>3. EndedIsSettled' /\ SuccessIsFresh' BY <1>3 DEF IInv, EndedIsSettled, SuccessIsFresh
  <2>4. FollowersAreServed' BY <1>3 DEF IInv, FollowersAreServed, Owns
  <2> QED BY <1>1, <2>1, <2>2, <2>3, <2>4 DEF IInv
<1>4. CASE CoolDown BY <1>3, <1>4 DEF CoolDown
<1>5. CASE UNCHANGED vars BY <1>3, <1>5 DEF vars
<1> QED BY <1>1, <1>2, <1>4, <1>5, EnterStep, CallerKeepsIInv DEF Next

-----------------------------------------------------------------------------

\* Every variable of the recoveries has its type.
THEOREM TypeCorrect == Spec => []TypeOK
<1>1. IInv => TypeOK BY DEF IInv
<1> QED BY InitIInv, NextIInv, <1>1, PTL DEF Spec

\* For any number of callers, ranges and flights: every flight that is joined or
\* followed has an owner, and a range never has two.
THEOREM EveryFlightIsOwned == Spec => []FlightsAreOwned
<1>1. IInv => SingleFlight BY DEF IInv, OwnersHold, OwnersApart, SingleFlight
<1>2. IInv => PendingHasOwner
    BY DEF IInv, JoinableIsOwned, FollowersAreServed, PendingHasOwner
<1>3. IInv => FlightsAreOwned BY <1>1, <1>2 DEF FlightsAreOwned
<1> QED BY InitIInv, NextIInv, <1>3, PTL DEF Spec

\* A continuity cursor is committed only on a publication that happened while
\* its task was waiting for it.
THEOREM SuccessIsOfThisCall == Spec => []SuccessIsFresh
<1>1. IInv => SuccessIsFresh BY DEF IInv
<1> QED BY InitIInv, NextIInv, <1>1, PTL DEF Spec

-----------------------------------------------------------------------------
\* Part 2: BarStreams

\* A set of numbers that is not empty has a least one.
LEMMA LeastElement ==
    ASSUME NEW T \in SUBSET Nat, T # {}
    PROVE  \E x \in T : \A y \in T : x <= y
<1>1. \E x \in T : \A y \in T : ~ (<<y, x>> \in OpToRel(<, Nat))
    BY NatLessThanWellFounded, WFMin
<1>2. \E x \in T : \A y \in T : ~ (y < x) BY <1>1 DEF OpToRel
<1> QED BY <1>2

\* A bounded set of minutes that is not empty has a latest one.
LEMMA LatestElement ==
    ASSUME NEW n \in Nat, NEW T \in SUBSET (1..n), T # {}
    PROVE  \E x \in T : \A y \in T : y <= x
<1> DEFINE Bounds == {b \in Nat : \A y \in T : y <= b}
<1>1. n \in Bounds OBVIOUS
<1>2. PICK b \in Bounds : \A c \in Bounds : b <= c BY <1>1, LeastElement
<1>3. b \in T
  <2>1. SUFFICES ASSUME b \notin T PROVE FALSE OBVIOUS
  <2>2. \A y \in T : y <= b - 1 BY <2>1, <1>2
  <2>3. PICK y \in T : TRUE OBVIOUS
  <2>5. y \in 1..n /\ y <= b - 1 BY <2>2
  <2>4. b - 1 \in Nat BY <2>5, <1>2
  <2> QED BY <2>2, <2>4, <1>2
<1> QED BY <1>2, <1>3

\* Sets of bounded minutes are finite.
LEMMA MinutesAreFinite ==
    ASSUME NEW N \in Nat, NEW S \in SUBSET (1..N)
    PROVE  IsFiniteSet(S) /\ Cardinality(S) \in Nat
<1> DEFINE All == 1..N
<1>1. IsFiniteSet(All) BY FS_Interval
<1> HIDE DEF All
<1>2. S \in SUBSET All BY DEF All
<1>3. IsFiniteSet(S) BY <1>1, <1>2, FS_Subset
<1> QED BY <1>3, FS_CardinalityType

\* Any finite set of minutes can be put in order.
LEMMA AscendingExists ==
    ASSUME NEW N \in Nat, NEW S \in SUBSET (1..N)
    PROVE  \E q \in [1..Cardinality(S) -> S] :
              \A x, y \in 1..Cardinality(S) : x < y => q[x] < q[y]
<1> DEFINE Sorts(T) == \E q \in [1..Cardinality(T) -> T] :
                          \A x, y \in 1..Cardinality(T) : x < y => q[x] < q[y]
           Bad == {n \in Nat : \E T \in SUBSET (1..N) : Cardinality(T) = n /\ ~Sorts(T)}
<1>0. \A T \in SUBSET (1..N) : IsFiniteSet(T) /\ Cardinality(T) \in Nat BY MinutesAreFinite
<1>1. SUFFICES ASSUME Bad # {} PROVE FALSE
  <2>1. Sorts(S) BY <1>0, <1>1
  <2> QED BY <2>1
<1>2. PICK n \in Bad : \A m \in Bad : n <= m BY <1>1, LeastElement
<1>3. PICK T \in SUBSET (1..N) : Cardinality(T) = n /\ ~Sorts(T) BY <1>2
<1>4. T # {}
  <2>1. SUFFICES ASSUME T = {} PROVE FALSE OBVIOUS
  <2>2. n = 0 BY <2>1, <1>3, FS_EmptySet
  <2>3. PICK q : q = [x \in 1..0 |-> x] OBVIOUS
  <2>4. q \in [1..Cardinality(T) -> T] BY <2>2, <2>3, <1>3
  <2>5. \A x, y \in 1..Cardinality(T) : x < y => q[x] < q[y] BY <2>2, <1>3
  <2> QED BY <2>4, <2>5, <1>3
<1>5. PICK t \in T : \A y \in T : y <= t BY <1>4, LatestElement
<1> DEFINE R == T \ {t}
<1>6. R \in SUBSET (1..N) /\ Cardinality(R) = n - 1 /\ n - 1 \in Nat
  <2>1. R \in SUBSET (1..N) /\ n \in Nat OBVIOUS
  <2>2. Cardinality(R) = n - 1 BY <1>0, <1>3, <1>5, FS_RemoveElement
  <2> QED BY <2>1, <2>2, <1>0
<1>7. Sorts(R)
  <2>1. n - 1 \notin Bad BY <1>2, <1>6
  <2> QED BY <2>1, <1>6
<1>8. PICK q \in [1..(n - 1) -> R] : \A x, y \in 1..(n - 1) : x < y => q[x] < q[y]
    BY <1>6, <1>7
<1> DEFINE p == [x \in 1..n |-> IF x = n THEN t ELSE q[x]]
<1>9. p \in [1..n -> T] BY <1>5, <1>6, <1>8
<1>10. \A x, y \in 1..n : x < y => p[x] < p[y]
  <2>1. ASSUME NEW x \in 1..(n - 1) PROVE q[x] \in T /\ q[x] \in Nat /\ t \in Nat /\ q[x] < t
    <3>1. q[x] \in T /\ q[x] # t BY <1>8
    <3>2. q[x] \in 1..N /\ t \in 1..N BY <3>1
    <3>3. q[x] <= t BY <3>1, <1>5
    <3> QED BY <3>1, <3>2, <3>3
  <2> QED BY <2>1, <1>8, <1>6
<1> QED BY <1>3, <1>9, <1>10

\* A list as long as the set it is drawn from, without repetition, has all of it.
LEMMA OntoByCounting ==
    ASSUME NEW S, IsFiniteSet(S), NEW q \in [1..Cardinality(S) -> S],
           \A x, y \in 1..Cardinality(S) : q[x] = q[y] => x = y
    PROVE  /\ q \in Seq(S) /\ Len(q) = Cardinality(S)
           /\ \A s \in S : \E x \in 1..Len(q) : q[x] = s
<1>1. Cardinality(S) \in Nat BY FS_CardinalityType
<1>2. q \in Injection(1..Cardinality(S), S) BY Fun_IsInj
<1>3. IsFiniteSet(1..Cardinality(S)) /\ Cardinality(1..Cardinality(S)) = Cardinality(S)
    BY <1>1, FS_Interval
<1>4. q \in Surjection(1..Cardinality(S), S) BY <1>2, <1>3, FS_Injection
<1> DEFINE I == 1..Cardinality(S)
<1> HIDE DEF I
<1>5. \A s \in S : \E x \in I : q[x] = s
  <2>1. q \in Surjection(I, S) BY <1>4 DEF I
  <2> QED BY ONLY <2>1, Fun_SurjectionProperties, Zenon
<1> QED BY <1>1, <1>5 DEF I

\* The bars of a recovered range: each one once, in the order of their minutes.
LEMMA AscendingSorts ==
    ASSUME NEW N \in Nat, NEW S \in SUBSET (1..N)
    PROVE  /\ Ascending(S) \in Seq(S)
           /\ \A x, y \in 1..Len(Ascending(S)) : x < y => Ascending(S)[x] < Ascending(S)[y]
           /\ \A s \in S : \E x \in 1..Len(Ascending(S)) : Ascending(S)[x] = s
<1> DEFINE q == Ascending(S)
<1>1. q \in [1..Cardinality(S) -> S] /\ \A x, y \in 1..Cardinality(S) : x < y => q[x] < q[y]
    BY AscendingExists DEF Ascending
<1>2. IsFiniteSet(S) /\ Cardinality(S) \in Nat BY MinutesAreFinite
<1>3. \A x \in 1..Cardinality(S) : q[x] \in 1..N BY <1>1
<1> HIDE DEF q
<1>4. \A x, y \in 1..Cardinality(S) : q[x] = q[y] => x = y BY <1>1, <1>2, <1>3
<1>5. /\ q \in Seq(S) /\ Len(q) = Cardinality(S)
      /\ \A s \in S : \E x \in 1..Len(q) : q[x] = s
    BY <1>1, <1>2, <1>4, OntoByCounting
<1> QED BY <1>1, <1>5 DEF q

\* SetToSeq lists each element of a finite set once.
LEMMA SetToSeqLists ==
    ASSUME NEW S, IsFiniteSet(S)
    PROVE  /\ SetToSeq(S) \in Seq(S)
           /\ \A x, y \in 1..Len(SetToSeq(S)) : SetToSeq(S)[x] = SetToSeq(S)[y] => x = y
           /\ \A s \in S : \E x \in 1..Len(SetToSeq(S)) : SetToSeq(S)[x] = s
<1> DEFINE q == SetToSeq(S)
<1>1. PICK f \in Bijection(1..Cardinality(S), S) : TRUE
    BY FS_CardinalityType DEF ExistsBijection
<1> DEFINE I == 1..Cardinality(S)
<1> HIDE DEF I
<1>2. f \in [I -> S] /\ IsInjective(f)
  <2>1. f \in Bijection(I, S) BY DEF I
  <2>2. f \in [I -> S] /\ \A a, b \in I : f[a] = f[b] => a = b
    BY ONLY <2>1, Fun_BijectionProperties, Zenon
  <2> QED BY <2>2 DEF IsInjective
<1>3. q \in [1..Cardinality(S) -> S] /\ IsInjective(q) BY <1>2 DEF SetToSeq, I
<1> HIDE DEF q
<1>4. \A x, y \in 1..Cardinality(S) : q[x] = q[y] => x = y BY <1>3 DEF IsInjective
<1>5. /\ q \in Seq(S) /\ Len(q) = Cardinality(S)
      /\ \A s \in S : \E x \in 1..Len(q) : q[x] = s
    BY <1>3, <1>4, OntoByCounting
<1> QED BY <1>4, <1>5 DEF q

Minutes    == 1..MaxMinute
Candles    == [instrument : Instruments, minute : Minutes]
Answers    == [retry : SUBSET Instruments, never : SUBSET Instruments]
Ranges     == [instrument : Instruments, bars : SUBSET Minutes, late : SUBSET Minutes]
Messages   == Candles \cup Answers

\* A stream carries candles and one kind of answer; a fetched range is neither.
LEMMA KindsOfMessages ==
    /\ \A c \in Candles : IsCandle(c) /\ c.instrument \in Instruments /\ c.minute \in Minutes
    /\ \A a \in Answers : ~IsCandle(a) /\ a.retry \subseteq Instruments /\ a.never \subseteq Instruments
    /\ \A a \in Ranges : /\ ~IsCandle(a) /\ a.instrument \in Instruments
                         /\ a.bars \subseteq Minutes /\ a.late \subseteq Minutes
BY DEF IsCandle, Candles, Answers, Ranges

-----------------------------------------------------------------------------
\* What is said of a queue of messages

Holds(q, i, m)  == \E x \in 1..Len(q) : IsCandle(q[x]) /\ q[x].instrument = i /\ q[x].minute = m
Before(c, d)    == IsCandle(c) /\ IsCandle(d) /\ c.instrument = d.instrument => c.minute < d.minute
InLine(q)       == \A x, y \in 1..Len(q) : x < y => Before(q[x], q[y])
Ahead(q, r)     == \A x \in 1..Len(q), y \in 1..Len(r) : Before(q[x], r[y])
Until(q, n)     == \A x \in 1..Len(q) : IsCandle(q[x]) => q[x].minute <= n
Silent(q)       == \A x \in 1..Len(q) : IsCandle(q[x])
SingleAnswer(q) == \A x, y \in 1..Len(q) : ~IsCandle(q[x]) /\ ~IsCandle(q[y]) => x = y
Fits(q, K, F)   == \A x \in 1..Len(q) : ~IsCandle(q[x]) =>
                      /\ F = K \ (q[x].retry \cup q[x].never)
                      /\ q[x].retry \cup q[x].never \subseteq K

\* Of no message everything is true.
LEMMA OfEmpty ==
    ASSUME NEW q, q = <<>>
    PROVE  /\ \A i, m : ~Holds(q, i, m)
           /\ InLine(q) /\ Silent(q) /\ SingleAnswer(q)
           /\ \A n : Until(q, n)
           /\ \A r : Ahead(q, r) /\ Ahead(r, q)
           /\ \A K, F : Fits(q, K, F)
BY DEF Holds, InLine, Silent, SingleAnswer, Until, Ahead, Fits

\* A queue of one message.
LEMMA OfOne ==
    ASSUME NEW c, NEW q, q = <<c>>
    PROVE  /\ \A i, m : Holds(q, i, m) <=> IsCandle(c) /\ c.instrument = i /\ c.minute = m
           /\ InLine(q) /\ SingleAnswer(q) /\ (Silent(q) <=> IsCandle(c))
           /\ \A n : Until(q, n) <=> (IsCandle(c) => c.minute <= n)
           /\ ~IsCandle(c) => \A r : Ahead(q, r) /\ Ahead(r, q)
           /\ IsCandle(c) => \A K, F : Fits(q, K, F)
           /\ \A K, F : F = K \ (c.retry \cup c.never) /\ c.retry \cup c.never \subseteq K => Fits(q, K, F)
<1>1. Len(q) = 1 /\ q[1] = c /\ 1..1 = {1} OBVIOUS
<1> QED BY <1>1 DEF Holds, InLine, Silent, SingleAnswer, Until, Ahead, Fits, Before

\* Taking the first message of a queue.
Taken(q, h, t) ==
    /\ Len(t) = Len(q) - 1
    /\ \A i, m : Holds(q, i, m) <=> Holds(h, i, m) \/ Holds(t, i, m)
    /\ InLine(q) => InLine(t) /\ Ahead(h, t)
    /\ Silent(q) => Silent(t) /\ IsCandle(Head(q))
    /\ SingleAnswer(q) => SingleAnswer(t) /\ (IsCandle(Head(q)) \/ Silent(t))
    /\ \A n : Until(q, n) => Until(t, n) /\ Until(h, n)
    /\ \A r : Ahead(q, r) => Ahead(t, r) /\ Ahead(h, r)
    /\ \A r : Ahead(r, q) => Ahead(r, t) /\ Ahead(r, h)
    /\ \A K, F : Fits(q, K, F) => Fits(t, K, F) /\ Fits(h, K, F)

\* The head of a queue taken off its rest.
LEMMA OfTail ==
    ASSUME NEW S, NEW q \in Seq(S), q # <<>>
    PROVE  Head(q) \in S /\ Tail(q) \in Seq(S) /\ Taken(q, <<Head(q)>>, Tail(q))
<1>0. PICK h, t : h = <<Head(q)>> /\ t = Tail(q) OBVIOUS
<1>1. /\ Len(q) \in Nat /\ Len(q) >= 1 /\ Len(t) = Len(q) - 1 /\ Len(h) = 1
      /\ h[1] = q[1] /\ Head(q) = q[1] /\ \A x \in 1..Len(t) : t[x] = q[x + 1] BY <1>0
<1>2. /\ 1..1 = {1} /\ 1 \in 1..Len(q) /\ \A x \in 1..Len(t) : x + 1 \in 1..Len(q) /\ x + 1 > 1
      /\ \A x \in 1..Len(q) : x = 1 \/ (x - 1 \in 1..Len(t) /\ q[x] = t[x - 1])
  <2>1. \A x \in 1..Len(q) : x = 1 \/ (x - 1 \in 1..Len(t) /\ (x - 1) + 1 = x) BY <1>1
  <2> QED BY <1>1, <2>1
<1>3. ASSUME NEW i, NEW m PROVE Holds(q, i, m) <=> Holds(h, i, m) \/ Holds(t, i, m)
    BY <1>1, <1>2 DEF Holds
<1>4. InLine(q) => InLine(t) /\ Ahead(h, t)
  <2>1. ASSUME InLine(q), NEW x \in 1..Len(t), NEW y \in 1..Len(t), x < y PROVE Before(t[x], t[y])
    <3>1. x + 1 < y + 1 BY <2>1, <1>1
    <3> QED BY <2>1, <1>1, <1>2, <3>1 DEF InLine
  <2>2. ASSUME InLine(q), NEW y \in 1..Len(t) PROVE Before(h[1], t[y])
    <3>1. 1 < y + 1 BY <1>1
    <3> QED BY <2>2, <1>1, <1>2, <3>1 DEF InLine
  <2> QED BY <2>1, <2>2, <1>1, <1>2 DEF InLine, Ahead
<1>5. Silent(q) => Silent(t) /\ IsCandle(Head(q)) BY <1>1, <1>2 DEF Silent
<1>6. SingleAnswer(q) => SingleAnswer(t) /\ (IsCandle(Head(q)) \/ Silent(t))
  <2>1. ASSUME SingleAnswer(q), NEW x \in 1..Len(t), ~IsCandle(t[x])
        PROVE  IsCandle(Head(q)) /\ \A y \in 1..Len(t) : ~IsCandle(t[y]) => x = y
    <3>1. x + 1 # 1 BY <1>1
    <3>2. IsCandle(q[1]) BY <2>1, <1>1, <1>2, <3>1 DEF SingleAnswer
    <3>3. ASSUME NEW y \in 1..Len(t), ~IsCandle(t[y]) PROVE x + 1 = y + 1
        BY <2>1, <3>3, <1>1, <1>2 DEF SingleAnswer
    <3> QED BY <3>2, <3>3, <1>1
  <2> QED BY <2>1 DEF SingleAnswer, Silent
<1>7. ASSUME NEW n, Until(q, n) PROVE Until(t, n) /\ Until(h, n) BY <1>1, <1>2, <1>7 DEF Until
<1>8. ASSUME NEW r, Ahead(q, r) PROVE Ahead(t, r) /\ Ahead(h, r) BY <1>1, <1>2, <1>8 DEF Ahead
<1>9. ASSUME NEW r, Ahead(r, q) PROVE Ahead(r, t) /\ Ahead(r, h) BY <1>1, <1>2, <1>9 DEF Ahead
<1>10. ASSUME NEW K, NEW F, Fits(q, K, F) PROVE Fits(t, K, F) /\ Fits(h, K, F)
    BY <1>1, <1>2, <1>10 DEF Fits
<1>11. Taken(q, h, t) BY <1>1, <1>3, <1>4, <1>5, <1>6, <1>7, <1>8, <1>9, <1>10 DEF Taken
<1> QED BY <1>0, <1>11

\* Adding messages behind a queue.
Joined(q, r, b) ==
    /\ Len(b) = Len(q) + Len(r)
    /\ \A i, m : Holds(b, i, m) <=> Holds(q, i, m) \/ Holds(r, i, m)
    /\ InLine(q) /\ InLine(r) /\ Ahead(q, r) => InLine(b)
    /\ Silent(q) /\ Silent(r) => Silent(b)
    /\ SingleAnswer(q) /\ Silent(r) => SingleAnswer(b)
    /\ Silent(q) /\ SingleAnswer(r) => SingleAnswer(b)
    /\ \A n : Until(q, n) /\ Until(r, n) => Until(b, n)
    /\ \A p : Ahead(q, p) /\ Ahead(r, p) => Ahead(b, p)
    /\ \A p : Ahead(p, q) /\ Ahead(p, r) => Ahead(p, b)
    /\ \A K, F : Fits(q, K, F) /\ Fits(r, K, F) => Fits(b, K, F)

\* Two queues one after the other.
LEMMA OfBoth ==
    ASSUME NEW S, NEW q \in Seq(S), NEW r \in Seq(S)
    PROVE  q \o r \in Seq(S) /\ Joined(q, r, q \o r)
<1>0. PICK b : b = q \o r OBVIOUS
<1> DEFINE n == Len(q)
<1>1. /\ n \in Nat /\ Len(r) \in Nat /\ b \in Seq(S) /\ Len(b) = n + Len(r)
      /\ \A x \in 1..n : b[x] = q[x]
      /\ \A x \in 1..Len(r) : b[n + x] = r[x]
  <2>1. n \in Nat /\ Len(r) \in Nat /\ b \in Seq(S) /\ Len(b) = n + Len(r) BY <1>0
  <2>2. \A x \in 1..n : b[x] = q[x] BY <2>1, <1>0
  <2>3. ASSUME NEW x \in 1..Len(r) PROVE b[n + x] = r[x]
    <3>1. n + x \in 1..Len(b) /\ n + x > n /\ (n + x) - n = x BY <2>1
    <3> QED BY <3>1, <1>0
  <2> QED BY <2>1, <2>2, <2>3
<1>2. \A x \in 1..Len(b) : \/ x \in 1..n /\ b[x] = q[x]
                           \/ \E y \in 1..Len(r) : x = n + y /\ b[x] = r[y]
  <2>1. ASSUME NEW x \in 1..Len(b), x \notin 1..n PROVE x - n \in 1..Len(r) /\ x = n + (x - n)
      BY <1>1, <2>1
  <2> QED BY <2>1, <1>1
<1>3. /\ \A x \in 1..n : x \in 1..Len(b)
      /\ \A y \in 1..Len(r) : n + y \in 1..Len(b) BY <1>1
<1> HIDE DEF n
<1>4. ASSUME NEW i, NEW m PROVE Holds(b, i, m) <=> Holds(q, i, m) \/ Holds(r, i, m)
  <2>1. ASSUME Holds(b, i, m) PROVE Holds(q, i, m) \/ Holds(r, i, m)
    <3>1. PICK x \in 1..Len(b) : IsCandle(b[x]) /\ b[x].instrument = i /\ b[x].minute = m
        BY <2>1 DEF Holds
    <3> QED BY <3>1, <1>2 DEF Holds, n
  <2>2. ASSUME Holds(q, i, m) PROVE Holds(b, i, m) BY <2>2, <1>1, <1>3 DEF Holds, n
  <2>3. ASSUME Holds(r, i, m) PROVE Holds(b, i, m) BY <2>3, <1>1, <1>3 DEF Holds
  <2> QED BY <2>1, <2>2, <2>3
<1>5. ASSUME InLine(q), InLine(r), Ahead(q, r) PROVE InLine(b)
  <2>1. SUFFICES ASSUME NEW x \in 1..Len(b), NEW y \in 1..Len(b), x < y PROVE Before(b[x], b[y])
      BY DEF InLine
  <2>2. CASE x \in 1..n /\ y \in 1..n BY <2>1, <2>2, <1>1, <1>5 DEF InLine, n
  <2>3. CASE x \in 1..n /\ y \notin 1..n BY <2>3, <1>1, <1>2, <1>5 DEF Ahead, n
  <2>4. CASE x \notin 1..n
    <3>1. PICK u \in 1..Len(r) : x = n + u /\ b[x] = r[u] BY <2>4, <1>2
    <3>2. y \notin 1..n BY <2>1, <3>1, <1>1
    <3>3. PICK v \in 1..Len(r) : y = n + v /\ b[y] = r[v] BY <3>2, <1>2
    <3>4. u < v BY <2>1, <3>1, <3>3, <1>1
    <3> QED BY <3>1, <3>3, <3>4, <1>5 DEF InLine
  <2> QED BY <2>2, <2>3, <2>4
<1>6. ASSUME Silent(q), Silent(r) PROVE Silent(b) BY <1>1, <1>2, <1>6 DEF Silent, n
<1>7. ASSUME SingleAnswer(q), Silent(r) PROVE SingleAnswer(b)
  <2>1. \A x \in 1..Len(b) : ~IsCandle(b[x]) => x \in 1..n /\ b[x] = q[x] BY <1>2, <1>7 DEF Silent
  <2> QED BY <2>1, <1>7 DEF SingleAnswer, n
<1>8. ASSUME Silent(q), SingleAnswer(r) PROVE SingleAnswer(b)
  <2>1. \A x \in 1..Len(b) : ~IsCandle(b[x]) => \E y \in 1..Len(r) : x = n + y /\ b[x] = r[y]
      BY <1>2, <1>8 DEF Silent, n
  <2>2. SUFFICES ASSUME NEW x \in 1..Len(b), NEW y \in 1..Len(b), ~IsCandle(b[x]), ~IsCandle(b[y])
                 PROVE  x = y
      BY DEF SingleAnswer
  <2>3. PICK u \in 1..Len(r) : x = n + u /\ b[x] = r[u] BY <2>1, <2>2
  <2>4. PICK v \in 1..Len(r) : y = n + v /\ b[y] = r[v] BY <2>1, <2>2
  <2>5. u = v BY <2>2, <2>3, <2>4, <1>8 DEF SingleAnswer
  <2> QED BY <2>3, <2>4, <2>5
<1>9. ASSUME NEW l, Until(q, l), Until(r, l) PROVE Until(b, l) BY <1>1, <1>2, <1>9 DEF Until, n
<1>10. ASSUME NEW p, Ahead(q, p), Ahead(r, p) PROVE Ahead(b, p) BY <1>1, <1>2, <1>10 DEF Ahead, n
<1>11. ASSUME NEW p, Ahead(p, q), Ahead(p, r) PROVE Ahead(p, b) BY <1>1, <1>2, <1>11 DEF Ahead, n
<1>12. ASSUME NEW K, NEW F, Fits(q, K, F), Fits(r, K, F) PROVE Fits(b, K, F)
  <2>1. SUFFICES ASSUME NEW x \in 1..Len(b), ~IsCandle(b[x])
                 PROVE  /\ F = K \ (b[x].retry \cup b[x].never)
                        /\ b[x].retry \cup b[x].never \subseteq K
      BY DEF Fits
  <2>2. CASE x \in 1..n /\ b[x] = q[x] BY <2>1, <2>2, <1>12 DEF Fits, n
  <2>3. ASSUME NEW y \in 1..Len(r), b[x] = r[y]
        PROVE  /\ F = K \ (b[x].retry \cup b[x].never)
               /\ b[x].retry \cup b[x].never \subseteq K
      BY <2>1, <2>3, <1>12 DEF Fits
  <2> QED BY <2>2, <2>3, <1>2
<1>13. Joined(q, r, b)
    BY <1>1, <1>4, <1>5, <1>6, <1>7, <1>8, <1>9, <1>10, <1>11, <1>12 DEF Joined, n
<1> QED BY <1>0, <1>1, <1>13

-----------------------------------------------------------------------------
\* What holds of one worker, whatever the others do

WorkerPcs == {"off", "starting", "restarting", "crashed", "opening", "listening", "holding",
              "judging", "recovering", "fetched", "backoff", "done", "polling"}

Fields == {"pc", "asked", "kind", "cursor", "pending", "ready", "refused", "feed", "answer",
           "wire", "buffer", "hand", "jobs", "upto", "failed", "probe"}

Labelled(W) ==
    /\ DOMAIN W = Fields /\ W.pc \in WorkerPcs
    /\ W.pending \in BOOLEAN /\ W.ready \in BOOLEAN /\ W.refused \in BOOLEAN
    /\ W.failed \in BOOLEAN /\ W.probe \in BOOLEAN
Asking(W) ==
    /\ W.asked \subseteq Instruments /\ W.kind \subseteq W.asked
    /\ W.jobs \subseteq W.kind /\ W.feed \subseteq Instruments
    /\ W.cursor \in [Instruments -> 0..MaxMinute] /\ W.upto \in 0..MaxMinute
    /\ \A i \in W.jobs : W.cursor[i] # 0
Queued(W) ==
    /\ W.answer \in Seq(Answers) /\ W.wire \in Seq(Messages) /\ W.buffer \in Seq(Candles)
    /\ W.hand \in Seq(Messages \cup Ranges)
    /\ Len(W.buffer) <= MaxBuffer /\ Len(W.hand) <= 1 /\ Len(W.answer) <= 1
Shaped(W) == Labelled(W) /\ Asking(W) /\ Queued(W)

\* What a worker has in hand while it is between two awaits.
Handles(W) ==
    /\ W.pc \notin MidStep => W.hand = <<>>
    /\ W.pc \in MidStep => W.hand # <<>>
    /\ W.pc = "holding" => W.hand[1] \in Candles
    /\ W.pc = "judging" => W.hand[1] \in Answers
    /\ W.pc = "fetched" => W.hand[1] \in Ranges

Seated(k, W, po) ==
    /\ k.role \in po => W.pc \in {"off", "polling", "fetched"} /\ W.kind = {}
    /\ k.role \notin po => W.pc # "polling"
    /\ k.role = Group => W.asked \cap po = {}
    /\ k.role # Group => W.asked \subseteq {k.role}

\* The subscription is sent and not yet judged; or it was accepted.
Waiting(W)  == W.pc = "judging" \/ (W.pc \in {"listening", "holding"} /\ ~W.ready)
Accepted(W) == \/ W.pc \in {"listening", "holding"} /\ W.ready
               \/ W.pc \in {"recovering", "fetched"} /\ ~W.probe

Phased(k, W, po) ==
    /\ (~Waiting(W) /\ ~Accepted(W)) \/ k.role \in po =>
          W.wire = <<>> /\ W.buffer = <<>> /\ W.answer = <<>> /\ W.feed = {} /\ ~W.ready
    /\ W.ready => W.pc \in {"listening", "holding"} /\ W.jobs = {} /\ ~W.failed
    /\ W.pc \in {"opening", "backoff"} \/ Waiting(W) => W.pending
    /\ Waiting(W) => /\ W.feed \subseteq W.kind
                     /\ Fits(W.answer, W.kind, W.feed)
                     /\ Fits(W.wire, W.kind, W.feed)
                     /\ Fits(W.hand, W.kind, W.feed)
    /\ W.answer # <<>> => Silent(W.wire)
    /\ SingleAnswer(W.wire)
    /\ W.pc = "judging" \/ Accepted(W) => W.answer = <<>> /\ Silent(W.wire)
    /\ Accepted(W) => W.kind \subseteq W.feed

\* A worker holds the candles of an instrument in the order of their minutes.
Ordered(W, sl) ==
    /\ InLine(W.wire) /\ InLine(W.buffer)
    /\ Ahead(W.buffer, W.wire) /\ Ahead(W.hand, W.wire)
    /\ IF W.ready THEN Ahead(W.hand, W.buffer) ELSE Ahead(W.buffer, W.hand)
    /\ Until(W.wire, sl) /\ Until(W.buffer, sl) /\ Until(W.hand, sl)

Has(W, i, m) == Holds(W.wire, i, m) \/ Holds(W.buffer, i, m) \/ Holds(W.hand, i, m)

\* What follows a candle that a worker holds, it holds as well.
Upward(W, tr) ==
    \A i \in W.kind \cap W.feed : \A m \in Minutes : Has(W, i, m) =>
        \A x \in Minutes : <<i, x>> \in tr /\ m < x => Has(W, i, x)

\* An accepted stream holds what is traded after its cursor and will not be recovered.
Covering(W, tr) ==
    Accepted(W) /\ ~W.failed =>
        \A i \in W.kind : W.cursor[i] # 0 =>
            \A m \in Minutes : <<i, m>> \in tr /\ m > W.cursor[i] /\ (i \in W.jobs => m > W.upto)
                                  => Has(W, i, m)

\* A fetched range has all there was to get after the cursor, and notes what was not complete.
RangeOf(k, W, po) ==
    IF k.role \in po THEN W.hand[1].instrument = k.role /\ W.cursor[k.role] < W.upto
                     ELSE W.hand[1].instrument \in W.jobs
RangeIs(W, i, R, sl, tr) ==
    /\ \A m \in R.bars : W.cursor[i] < m /\ m <= W.upto
    /\ \A m \in 1..W.upto : /\ <<i, m>> \in tr /\ m > W.cursor[i] => m \in R.bars \cup R.late
                            /\ sl < m => m \in R.late
Fetched(k, W, sl, tr, po) ==
    W.pc = "fetched" => /\ RangeOf(k, W, po)
                        /\ RangeIs(W, W.hand[1].instrument, W.hand[1], sl, tr)

Sound(k, W, sl, tr, po) ==
    /\ Shaped(W) /\ Handles(W) /\ Seated(k, W, po) /\ Phased(k, W, po)
    /\ Ordered(W, sl) /\ Upward(W, tr) /\ Covering(W, tr) /\ Fetched(k, W, sl, tr, po)

\* The exchange has completed the minutes up to sl.
Traded(sl, tr) == sl \in Minutes /\ tr \subseteq Instruments \X (1..sl)

-----------------------------------------------------------------------------
\* What the steps make of a worker

Assigned(p, A) == [Idle EXCEPT !.pc = p, !.asked = A]
Relabelled(W, p) == [W EXCEPT !.pc = p]
Begun(A, c) ==
    [Idle EXCEPT !.pc = "opening", !.asked = A, !.kind = A, !.pending = TRUE, !.cursor = c]
Probing(W, n, J) ==
    [W EXCEPT !.pc = "recovering", !.probe = TRUE, !.upto = n, !.jobs = J]
Probed(W) ==
    [Closed(W) EXCEPT !.pc = "opening", !.pending = TRUE, !.probe = FALSE]
Opened(W, no, never) ==
    [W EXCEPT !.pc = "listening", !.answer = <<Answer(no, never)>>,
              !.feed = W.kind \ (no \cup never)]
Answered(W) == [W EXCEPT !.wire = @ \o W.answer, !.answer = <<>>]
Fed(W, q) == [W EXCEPT !.wire = @ \o q]
Unbuffered(W) ==
    [W EXCEPT !.pc = "holding", !.buffer = Tail(@), !.hand = <<Head(W.buffer)>>]
Received(W) ==
    [W EXCEPT !.wire = Tail(@), !.hand = <<Head(W.wire)>>,
              !.pc = IF IsCandle(Head(W.wire)) THEN "holding" ELSE "judging"]
Buffered(W) == [W EXCEPT !.pc = "listening", !.hand = <<>>, !.buffer = @ \o W.hand]
Dropped(W) == [W EXCEPT !.pc = "listening", !.hand = <<>>]
Passed(W, j, n) == [W EXCEPT !.cursor[j] = n]
Refusing(W, r) == [W EXCEPT !.refused = r]
CaughtUp(W, is, J, mn) ==
    [W EXCEPT !.pc = "recovering", !.kind = is, !.hand = <<>>, !.probe = FALSE,
              !.upto = mn, !.jobs = J, !.pending = FALSE]
Returned(W, R) == [W EXCEPT !.pc = "fetched", !.hand = <<R>>]
FailedOn(W, i) == [W EXCEPT !.jobs = @ \ {i}, !.failed = TRUE]
Batched(W, j) ==
    [W EXCEPT !.pc = "recovering", !.jobs = @ \ {j}, !.hand = <<>>,
              !.cursor[j] = Larger(@, W.upto)]
Readied(W) == [W EXCEPT !.pc = "listening", !.ready = TRUE, !.upto = 0]
PollBegun(k, n) ==
    [Idle EXCEPT !.pc = "polling", !.asked = {k.role}, !.cursor[k.role] = n]
PolledFrom(k, W, n) == [W EXCEPT !.cursor[k.role] = n]
PolledRange(W, R, n) == [W EXCEPT !.pc = "fetched", !.upto = n, !.hand = <<R>>]
PollPassed(k, W) ==
    [W EXCEPT !.pc = "polling", !.hand = <<>>, !.upto = 0, !.cursor[k.role] = W.upto]

\* A worker without a stream.
Quiet(W) ==
    /\ W.pc \notin MidStep \cup {"listening"} /\ (W.pc = "recovering" => W.probe)
    /\ W.pc \in {"opening", "backoff"} => W.pending
    /\ ~W.ready /\ W.feed = {} /\ W.answer = <<>> /\ W.wire = <<>> /\ W.buffer = <<>> /\ W.hand = <<>>

\* A worker with nothing in flight need only be of the right shape.
LEMMA QuietIsSound ==
    ASSUME NEW k, NEW W, NEW sl, NEW tr, NEW po, Shaped(W), Seated(k, W, po), Quiet(W)
    PROVE  Sound(k, W, sl, tr, po)
<1>1. ~Waiting(W) /\ ~Accepted(W) BY DEF Quiet, Waiting, Accepted, MidStep
<1>2. Handles(W) BY DEF Quiet, Handles, MidStep
<1>3. SingleAnswer(W.wire) /\ Silent(W.wire) BY OfEmpty DEF Quiet
<1>4. Phased(k, W, po) BY <1>1, <1>3 DEF Phased, Quiet
<1>5. Ordered(W, sl) BY OfEmpty DEF Ordered, Quiet
<1>6. Upward(W, tr) BY DEF Upward, Quiet
<1>7. Covering(W, tr) BY <1>1 DEF Covering
<1>8. Fetched(k, W, sl, tr, po) BY DEF Fetched, Quiet, MidStep
<1> QED BY <1>2, <1>4, <1>5, <1>6, <1>7, <1>8 DEF Sound

\* What an idle worker looks like.
LEMMA IdleShape ==
    /\ Shaped(Idle) /\ Quiet(Idle) /\ DOMAIN Idle = Fields
    /\ Idle.pc = "off" /\ Idle.asked = {} /\ Idle.kind = {} /\ Idle.jobs = {}
    /\ Idle.cursor = [i \in Instruments |-> 0] /\ Idle.upto = 0
    /\ ~Idle.failed /\ ~Idle.refused /\ ~Idle.probe
<1>1. Labelled(Idle) BY DEF Labelled, Idle, Fields, WorkerPcs
<1>2. Asking(Idle) BY BarsAssumption DEF Asking, Idle
<1>3. Queued(Idle) BY BarsAssumption DEF Queued, Idle
<1>4. Quiet(Idle) BY DEF Quiet, Idle, MidStep
<1> QED BY <1>1, <1>2, <1>3, <1>4 DEF Shaped, Idle, Fields

\* The instruments a stream worker may be asked for.
MayAsk(k, A, po) ==
    /\ k.role \notin po /\ A \subseteq Instruments
    /\ k.role = Group => A \cap po = {}
    /\ k.role # Group => A \subseteq {k.role}

\* A worker that has been given its instruments and nothing else.
LEMMA AssignedIsSound ==
    ASSUME NEW k, NEW sl, NEW tr, NEW po, NEW A, MayAsk(k, A, po),
           NEW p \in {"starting", "crashed", "done"}, NEW V, V = Assigned(p, A)
    PROVE  /\ Sound(k, V, sl, tr, po)
           /\ V.pc = p /\ V.asked = A /\ V.kind = {} /\ ~V.ready /\ ~V.refused
<1>1. /\ DOMAIN V = Fields /\ V.pc = p /\ V.asked = A /\ V.kind = Idle.kind
      /\ V.cursor = Idle.cursor /\ V.pending = Idle.pending /\ V.ready = Idle.ready
      /\ V.feed = Idle.feed /\ V.answer = Idle.answer /\ V.wire = Idle.wire
      /\ V.buffer = Idle.buffer /\ V.hand = Idle.hand /\ V.jobs = Idle.jobs
      /\ V.upto = Idle.upto /\ V.failed = Idle.failed /\ V.refused = Idle.refused
      /\ V.probe = Idle.probe
    BY IdleShape DEF Fields, Assigned
<1>2. Shaped(V)
  <2>1. Labelled(V) BY <1>1, IdleShape DEF Shaped, Labelled, WorkerPcs
  <2>2. Asking(V) BY <1>1, IdleShape DEF Shaped, Asking, MayAsk
  <2>3. Queued(V) BY <1>1, IdleShape DEF Shaped, Queued
  <2> QED BY <2>1, <2>2, <2>3 DEF Shaped
<1>3. Quiet(V) BY <1>1, IdleShape DEF Quiet, MidStep
<1>4. Seated(k, V, po) BY <1>1, IdleShape DEF Seated, MayAsk
<1>5. Sound(k, V, sl, tr, po) BY <1>2, <1>3, <1>4, QuietIsSound
<1> QED BY <1>1, <1>5, IdleShape DEF Quiet

\* An idle worker is sound, whatever was traded.
LEMMA IdleIsSound ==
    ASSUME NEW k, NEW sl, NEW tr, NEW po PROVE Sound(k, Idle, sl, tr, po)
<1>1. Seated(k, Idle, po) BY IdleShape DEF Seated
<1> QED BY <1>1, IdleShape, QuietIsSound

\* So is one that was cancelled, in the middle of a step or not.
LEMMA CancelledIsSound ==
    ASSUME NEW k, NEW W, NEW sl, NEW tr, NEW po, Sound(k, W, sl, tr, po)
    PROVE  Sound(k, Cancelled(W), sl, tr, po)
BY IdleIsSound DEF Cancelled

-----------------------------------------------------------------------------
\* One step of a worker keeps it sound

\* The steps that leave the queues alone and need no more than a changed label.
LEMMA QuietMove ==
    ASSUME NEW k, NEW W, NEW sl, NEW tr, NEW po, Sound(k, W, sl, tr, po), k.role \notin po,
           W.pc \in {"crashed", "backoff"},
           NEW p \in {"restarting", "opening"}, p = "opening" => W.pc = "backoff",
           NEW V, V = Relabelled(W, p)
    PROVE  /\ Sound(k, V, sl, tr, po) /\ V.pc = p
           /\ V.kind = W.kind /\ V.asked = W.asked /\ V.cursor = W.cursor
           /\ ~V.ready /\ ~W.ready /\ V.refused = W.refused
<1>1. /\ DOMAIN V = Fields /\ V.pc = p /\ V.asked = W.asked /\ V.kind = W.kind
      /\ V.cursor = W.cursor /\ V.pending = W.pending /\ V.ready = W.ready
      /\ V.refused = W.refused /\ V.feed = W.feed /\ V.answer = W.answer /\ V.wire = W.wire
      /\ V.buffer = W.buffer /\ V.hand = W.hand /\ V.jobs = W.jobs /\ V.upto = W.upto
      /\ V.failed = W.failed /\ V.probe = W.probe
    BY DEF Sound, Shaped, Labelled, Fields, Relabelled
<1>2. ~Waiting(W) /\ ~Accepted(W) BY DEF Waiting, Accepted
<1>3. Quiet(V) BY <1>1, <1>2 DEF Sound, Phased, Handles, Quiet, MidStep
<1>4. Shaped(V)
  <2>1. Labelled(V) BY <1>1 DEF Sound, Shaped, Labelled, WorkerPcs
  <2>2. Asking(V) BY <1>1 DEF Sound, Shaped, Asking
  <2>3. Queued(V) BY <1>1 DEF Sound, Shaped, Queued
  <2> QED BY <2>1, <2>2, <2>3 DEF Shaped
<1>5. Seated(k, V, po) BY <1>1 DEF Sound, Seated
<1>6. Sound(k, V, sl, tr, po) BY <1>3, <1>4, <1>5, QuietIsSound
<1> QED BY <1>1, <1>2, <1>6 DEF Sound, Phased

\* A worker begins with its assignment and the watermarks.
LEMMA BegunIsSound ==
    ASSUME NEW k, NEW sl, NEW tr, NEW po, k.role \notin po, NEW A, A \subseteq Instruments,
           k.role = Group => A \cap po = {}, k.role # Group => A \subseteq {k.role},
           NEW c \in [Instruments -> 0..MaxMinute],
           NEW V, V = Begun(A, c)
    PROVE  /\ Sound(k, V, sl, tr, po)
           /\ V.pc = "opening" /\ V.asked = A /\ V.kind = A /\ V.cursor = c
           /\ ~V.ready /\ ~V.refused
<1>1. /\ DOMAIN V = Fields /\ V.pc = "opening" /\ V.asked = A /\ V.kind = A /\ V.cursor = c
      /\ V.pending = TRUE /\ V.ready = Idle.ready /\ V.refused = Idle.refused
      /\ V.feed = Idle.feed /\ V.answer = Idle.answer /\ V.wire = Idle.wire
      /\ V.buffer = Idle.buffer /\ V.hand = Idle.hand /\ V.jobs = Idle.jobs
      /\ V.upto = Idle.upto /\ V.failed = Idle.failed /\ V.probe = Idle.probe
    BY IdleShape DEF Fields, Begun
<1>2. Shaped(V)
  <2>1. Labelled(V) BY <1>1, IdleShape DEF Shaped, Labelled, WorkerPcs
  <2>2. Asking(V) BY <1>1, IdleShape DEF Shaped, Asking
  <2>3. Queued(V) BY <1>1, IdleShape DEF Shaped, Queued
  <2> QED BY <2>1, <2>2, <2>3 DEF Shaped
<1>3. Quiet(V) BY <1>1, IdleShape DEF Quiet, MidStep
<1>4. Seated(k, V, po) BY <1>1 DEF Seated
<1>5. Sound(k, V, sl, tr, po) BY <1>2, <1>3, <1>4, QuietIsSound
<1> QED BY <1>1, <1>3, <1>5, IdleShape DEF Quiet

\* A poll is given its instrument and the watermark.
LEMMA PollingIsSound ==
    ASSUME NEW k, NEW sl, NEW tr, NEW po, k.role \in po, k.role \in Instruments, Group \notin po,
           NEW n \in 0..MaxMinute,
           NEW V, V = PollBegun(k, n)
    PROVE  /\ Sound(k, V, sl, tr, po)
           /\ V.pc = "polling" /\ V.asked = {k.role} /\ V.kind = {} /\ V.cursor[k.role] = n
<1>1. /\ DOMAIN V = Fields /\ V.pc = "polling" /\ V.asked = {k.role} /\ V.kind = Idle.kind
      /\ V.cursor = [Idle.cursor EXCEPT ![k.role] = n] /\ V.pending = Idle.pending
      /\ V.ready = Idle.ready /\ V.refused = Idle.refused /\ V.feed = Idle.feed
      /\ V.answer = Idle.answer /\ V.wire = Idle.wire /\ V.buffer = Idle.buffer
      /\ V.hand = Idle.hand /\ V.jobs = Idle.jobs /\ V.upto = Idle.upto
      /\ V.failed = Idle.failed /\ V.probe = Idle.probe
    BY IdleShape DEF Fields, PollBegun
<1>2. Shaped(V)
  <2>1. Labelled(V) BY <1>1, IdleShape DEF Shaped, Labelled, WorkerPcs
  <2>2. Asking(V) BY <1>1, IdleShape DEF Shaped, Asking
  <2>3. Queued(V) BY <1>1, IdleShape DEF Shaped, Queued
  <2> QED BY <2>1, <2>2, <2>3 DEF Shaped
<1>3. Quiet(V) BY <1>1, IdleShape DEF Quiet, MidStep
<1>4. Seated(k, V, po) BY <1>1, IdleShape DEF Seated
<1>5. Sound(k, V, sl, tr, po) BY <1>2, <1>3, <1>4, QuietIsSound
<1>6. V.cursor[k.role] = n BY <1>1, IdleShape
<1> QED BY <1>1, <1>5, <1>6, IdleShape

\* Everything in flight is dropped, and the worker waits to try again.
LEMMA BackoffIsSound ==
    ASSUME NEW k, NEW W, NEW sl, NEW tr, NEW po, Labelled(W), k.role \notin po,
           W.asked \subseteq Instruments, W.kind \subseteq W.asked,
           W.cursor \in [Instruments -> 0..MaxMinute],
           k.role = Group => W.asked \cap po = {}, k.role # Group => W.asked \subseteq {k.role},
           NEW V, V = Backoff(W)
    PROVE  /\ Sound(k, V, sl, tr, po)
           /\ V.pc = "backoff" /\ V.asked = W.asked /\ V.kind = W.kind /\ V.cursor = W.cursor
           /\ ~V.ready /\ V.refused = W.refused
<1> DEFINE U == Closed(W)
<1>1. /\ DOMAIN U = Fields /\ U.pc = W.pc /\ U.asked = W.asked /\ U.kind = W.kind
      /\ U.cursor = W.cursor /\ U.pending = W.pending /\ U.ready = FALSE
      /\ U.refused = W.refused /\ U.feed = {} /\ U.answer = <<>> /\ U.wire = <<>>
      /\ U.buffer = <<>> /\ U.hand = <<>> /\ U.jobs = {} /\ U.upto = 0 /\ U.failed = FALSE
      /\ U.probe = W.probe
    BY DEF Closed, Labelled, Fields
<1>2. V = [U EXCEPT !.pc = "backoff", !.pending = TRUE] BY DEF Backoff
<1> HIDE DEF U
<1>3. /\ DOMAIN V = Fields /\ V.pc = "backoff" /\ V.asked = U.asked /\ V.kind = U.kind
      /\ V.cursor = U.cursor /\ V.pending = TRUE /\ V.ready = U.ready /\ V.refused = U.refused
      /\ V.feed = U.feed /\ V.answer = U.answer /\ V.wire = U.wire /\ V.buffer = U.buffer
      /\ V.hand = U.hand /\ V.jobs = U.jobs /\ V.upto = U.upto /\ V.failed = U.failed
      /\ V.probe = U.probe
    BY <1>1, <1>2 DEF Fields
<1>4. Shaped(V)
  <2>1. Labelled(V) BY <1>1, <1>3 DEF Labelled, WorkerPcs
  <2>2. Asking(V) BY <1>1, <1>3, BarsAssumption DEF Asking
  <2>3. Queued(V) BY <1>1, <1>3, BarsAssumption DEF Queued
  <2> QED BY <2>1, <2>2, <2>3 DEF Shaped
<1>5. Quiet(V) BY <1>1, <1>3 DEF Quiet, MidStep
<1>6. Seated(k, V, po) BY <1>1, <1>3 DEF Seated
<1>7. Sound(k, V, sl, tr, po) BY <1>4, <1>5, <1>6, QuietIsSound
<1> QED BY <1>1, <1>3, <1>7

\* A probe recovers on the closed stream, and then opens it again.
LEMMA ProbeIsSound ==
    ASSUME NEW k, NEW W, NEW sl, NEW tr, NEW po, Sound(k, W, sl, tr, po), k.role \notin po,
           W.pc = "backoff", NEW J, J \subseteq {i \in W.kind : W.cursor[i] # 0}, NEW n \in 0..MaxMinute,
           NEW V, V = Probing(W, n, J)
    PROVE  /\ Sound(k, V, sl, tr, po) /\ V.pc = "recovering"
           /\ V.kind = W.kind /\ V.asked = W.asked /\ V.cursor = W.cursor
           /\ ~V.ready /\ ~W.ready /\ V.refused = W.refused
<1>1. /\ DOMAIN V = Fields /\ V.pc = "recovering" /\ V.asked = W.asked /\ V.kind = W.kind
      /\ V.cursor = W.cursor /\ V.pending = W.pending /\ V.ready = W.ready
      /\ V.refused = W.refused /\ V.feed = W.feed /\ V.answer = W.answer /\ V.wire = W.wire
      /\ V.buffer = W.buffer /\ V.hand = W.hand /\ V.jobs = J /\ V.upto = n
      /\ V.failed = W.failed /\ V.probe = TRUE
    BY DEF Sound, Shaped, Labelled, Fields, Probing
<1>2. ~Waiting(W) /\ ~Accepted(W) BY DEF Waiting, Accepted
<1>3. Quiet(V) BY <1>1, <1>2 DEF Sound, Phased, Handles, Quiet, MidStep
<1>4. Shaped(V)
  <2>1. Labelled(V) BY <1>1 DEF Sound, Shaped, Labelled, WorkerPcs
  <2>2. Asking(V) BY <1>1 DEF Sound, Shaped, Asking
  <2>3. Queued(V) BY <1>1 DEF Sound, Shaped, Queued
  <2> QED BY <2>1, <2>2, <2>3 DEF Shaped
<1>5. Seated(k, V, po) BY <1>1 DEF Sound, Seated
<1>6. Sound(k, V, sl, tr, po) BY <1>3, <1>4, <1>5, QuietIsSound
<1> QED BY <1>1, <1>2, <1>6 DEF Sound, Phased

\* A probe has recovered what it could and opens the stream anew.
LEMMA ProbedIsSound ==
    ASSUME NEW k, NEW W, NEW sl, NEW tr, NEW po, Sound(k, W, sl, tr, po), k.role \notin po,
           NEW V, V = Probed(W)
    PROVE  /\ Sound(k, V, sl, tr, po)
           /\ V.pc = "opening" /\ V.asked = W.asked /\ V.kind = W.kind /\ V.cursor = W.cursor
           /\ ~V.ready /\ V.refused = W.refused
<1> DEFINE U == Closed(W)
<1>1. /\ DOMAIN U = Fields /\ U.pc = W.pc /\ U.asked = W.asked /\ U.kind = W.kind
      /\ U.cursor = W.cursor /\ U.pending = W.pending /\ U.ready = FALSE
      /\ U.refused = W.refused /\ U.feed = {} /\ U.answer = <<>> /\ U.wire = <<>>
      /\ U.buffer = <<>> /\ U.hand = <<>> /\ U.jobs = {} /\ U.upto = 0 /\ U.failed = FALSE
      /\ U.probe = W.probe
    BY DEF Closed, Sound, Shaped, Labelled, Fields
<1>2. V = [U EXCEPT !.pc = "opening", !.pending = TRUE, !.probe = FALSE] BY DEF Probed
<1> HIDE DEF U
<1>3. /\ DOMAIN V = Fields /\ V.pc = "opening" /\ V.asked = U.asked /\ V.kind = U.kind
      /\ V.cursor = U.cursor /\ V.pending = TRUE /\ V.ready = U.ready /\ V.refused = U.refused
      /\ V.feed = U.feed /\ V.answer = U.answer /\ V.wire = U.wire /\ V.buffer = U.buffer
      /\ V.hand = U.hand /\ V.jobs = U.jobs /\ V.upto = U.upto /\ V.failed = U.failed
      /\ V.probe = FALSE
    BY <1>1, <1>2 DEF Fields
<1>4. Shaped(V)
  <2>1. Labelled(V) BY <1>1, <1>3 DEF Sound, Shaped, Labelled, WorkerPcs
  <2>2. Asking(V) BY <1>1, <1>3, BarsAssumption DEF Sound, Shaped, Asking
  <2>3. Queued(V) BY ONLY <1>1, <1>3, BarsAssumption DEF Queued
  <2> QED BY <2>1, <2>2, <2>3 DEF Shaped
<1>5. Quiet(V) BY <1>1, <1>3 DEF Quiet, MidStep
<1>6. Seated(k, V, po) BY <1>1, <1>3 DEF Sound, Seated
<1>7. Sound(k, V, sl, tr, po) BY <1>4, <1>5, <1>6, QuietIsSound
<1> QED BY <1>1, <1>3, <1>7

\* The broker takes the request and will answer it.
LEMMA OpenedIsSound ==
    ASSUME NEW k, NEW W, NEW sl, NEW tr, NEW po, Sound(k, W, sl, tr, po), k.role \notin po,
           W.pc = "opening", NEW no \in SUBSET W.kind, NEW never \in SUBSET W.kind,
           NEW V, V = Opened(W, no, never)
    PROVE  /\ Sound(k, V, sl, tr, po) /\ V.pc = "listening"
           /\ V.asked = W.asked /\ V.kind = W.kind /\ V.cursor = W.cursor
           /\ ~V.ready /\ ~W.ready /\ V.refused = W.refused
<1> DEFINE a == Answer(no, never)
<1>1. /\ DOMAIN V = Fields /\ V.pc = "listening" /\ V.asked = W.asked /\ V.kind = W.kind
      /\ V.cursor = W.cursor /\ V.pending = W.pending /\ V.ready = W.ready
      /\ V.refused = W.refused /\ V.feed = W.kind \ (no \cup never) /\ V.answer = <<a>>
      /\ V.wire = W.wire /\ V.buffer = W.buffer /\ V.hand = W.hand /\ V.jobs = W.jobs
      /\ V.upto = W.upto /\ V.failed = W.failed /\ V.probe = W.probe
    BY DEF Sound, Shaped, Labelled, Fields, Opened
<1>2. ~Waiting(W) /\ ~Accepted(W) BY DEF Waiting, Accepted
<1>3. /\ W.wire = <<>> /\ W.buffer = <<>> /\ W.hand = <<>> /\ ~W.ready /\ W.pending
    BY <1>2 DEF Sound, Phased, Handles, MidStep
<1>4. W.kind \subseteq Instruments BY DEF Sound, Shaped, Asking
<1>5. a \in Answers /\ a.retry = no /\ a.never = never BY <1>4 DEF Answers, Answer
<1> HIDE DEF a
<1>6. Shaped(V)
  <2>1. Labelled(V) BY <1>1 DEF Sound, Shaped, Labelled, WorkerPcs
  <2>2. Asking(V) BY <1>1, <1>4 DEF Sound, Shaped, Asking
  <2>3. <<a>> \in Seq(Answers) /\ Len(<<a>>) = 1 BY <1>5
  <2>4. Queued(V) BY <1>1, <2>3 DEF Sound, Shaped, Queued
  <2> QED BY <2>1, <2>2, <2>4 DEF Shaped
<1>7. Handles(V) BY <1>1, <1>3 DEF Handles, MidStep
<1>8. Seated(k, V, po) BY <1>1 DEF Sound, Seated
<1>9. Waiting(V) /\ ~Accepted(V) BY <1>1, <1>3 DEF Waiting, Accepted
<1>10. Phased(k, V, po)
  <2>1. Fits(V.answer, V.kind, V.feed)
    <3>1. V.feed = V.kind \ (a.retry \cup a.never) /\ a.retry \cup a.never \subseteq V.kind
        BY <1>1, <1>5
    <3> QED BY <1>1, <3>1, OfOne
  <2>2. Fits(V.wire, V.kind, V.feed) /\ Fits(V.hand, V.kind, V.feed)
        /\ Silent(V.wire) /\ SingleAnswer(V.wire) BY <1>1, <1>3, OfEmpty
  <2> QED BY <1>1, <1>3, <1>9, <2>1, <2>2 DEF Phased
<1>11. Ordered(V, sl) BY <1>1, <1>3, OfEmpty DEF Ordered
<1>12. Upward(V, tr)
  <2>1. \A i, m : ~Has(V, i, m) BY <1>1, <1>3, OfEmpty DEF Has
  <2> QED BY <2>1 DEF Upward
<1>13. Covering(V, tr) BY <1>9 DEF Covering
<1>14. Fetched(k, V, sl, tr, po) BY <1>1 DEF Fetched
<1>15. Sound(k, V, sl, tr, po) BY <1>6, <1>7, <1>8, <1>10, <1>11, <1>12, <1>13, <1>14 DEF Sound
<1> QED BY <1>1, <1>3, <1>15

\* A candle that waited is taken from the buffer.
LEMMA UnbufferedIsSound ==
    ASSUME NEW k, NEW W, NEW sl, NEW tr, NEW po, Sound(k, W, sl, tr, po), k.role \notin po,
           W.pc = "listening", W.ready, W.buffer # <<>>,
           NEW V, V = Unbuffered(W)
    PROVE  /\ Sound(k, V, sl, tr, po) /\ V.pc = "holding"
           /\ V.asked = W.asked /\ V.kind = W.kind /\ V.cursor = W.cursor
           /\ V.ready /\ V.refused = W.refused
<1> DEFINE h == <<Head(W.buffer)>>
           t == Tail(W.buffer)
<1>0. h = <<Head(W.buffer)>> /\ t = Tail(W.buffer) OBVIOUS
<1>1. /\ DOMAIN V = Fields /\ V.pc = "holding" /\ V.asked = W.asked /\ V.kind = W.kind
      /\ V.cursor = W.cursor /\ V.pending = W.pending /\ V.ready = W.ready
      /\ V.refused = W.refused /\ V.feed = W.feed /\ V.answer = W.answer /\ V.wire = W.wire
      /\ V.buffer = t /\ V.hand = h /\ V.jobs = W.jobs /\ V.upto = W.upto
      /\ V.failed = W.failed /\ V.probe = W.probe
    BY DEF Sound, Shaped, Labelled, Fields, Unbuffered
<1>2. W.buffer \in Seq(Candles) BY DEF Sound, Shaped, Queued
<1>3. Head(W.buffer) \in Candles /\ t \in Seq(Candles) /\ Taken(W.buffer, h, t)
    BY <1>2, OfTail
<1> HIDE DEF h, t
<1>4. IsCandle(Head(W.buffer)) BY <1>3, KindsOfMessages
<1>5. h # <<>> /\ h[1] = Head(W.buffer) /\ Len(h) = 1 /\ h \in Seq(Messages \cup Ranges)
    BY <1>0, <1>3 DEF Messages
<1>6. W.hand = <<>> BY DEF Sound, Handles, MidStep
<1>7. \A i, m : Has(V, i, m) <=> Has(W, i, m)
  <2>1. \A i, m : Holds(W.buffer, i, m) <=> Holds(h, i, m) \/ Holds(t, i, m)
      BY <1>3 DEF Taken
  <2>2. \A i, m : ~Holds(W.hand, i, m) BY <1>6, OfEmpty
  <2> QED BY <1>1, <2>1, <2>2 DEF Has
<1>8. /\ InLine(W.buffer) => InLine(t) /\ Ahead(h, t)
      /\ Until(W.buffer, sl) => Until(t, sl) /\ Until(h, sl)
      /\ Ahead(W.buffer, W.wire) => Ahead(t, W.wire) /\ Ahead(h, W.wire)
    BY <1>3 DEF Taken
<1>9. Shaped(V)
  <2>1. Labelled(V) BY <1>1 DEF Sound, Shaped, Labelled, WorkerPcs
  <2>2. Asking(V) BY <1>1 DEF Sound, Shaped, Asking
  <2>3. Len(t) <= MaxBuffer
    <3>1. Len(W.buffer) <= MaxBuffer /\ Len(W.buffer) \in Nat /\ MaxBuffer \in Nat
        BY <1>2, BarsAssumption DEF Sound, Shaped, Queued
    <3> QED BY <3>1, <1>3 DEF Taken
  <2>4. Queued(V) BY <1>1, <1>3, <1>5, <2>3 DEF Sound, Shaped, Queued
  <2> QED BY <2>1, <2>2, <2>4 DEF Shaped
<1>10. Handles(V) BY <1>1, <1>3, <1>5 DEF Handles, MidStep
<1>11. Seated(k, V, po) BY <1>1 DEF Sound, Seated
<1>12. Accepted(V) /\ ~Waiting(V) /\ Accepted(W) BY <1>1 DEF Waiting, Accepted
<1>13. Phased(k, V, po) BY <1>1, <1>12 DEF Sound, Phased
<1>14. Ordered(V, sl) BY <1>1, <1>8 DEF Sound, Ordered
<1>15. Upward(V, tr) BY <1>1, <1>7 DEF Sound, Upward
<1>16. Covering(V, tr) BY <1>1, <1>7, <1>12 DEF Sound, Covering
<1>17. Fetched(k, V, sl, tr, po) BY <1>1 DEF Fetched
<1>18. Sound(k, V, sl, tr, po) BY <1>9, <1>10, <1>11, <1>13, <1>14, <1>15, <1>16, <1>17 DEF Sound
<1> QED BY <1>1, <1>18

\* A message is taken from the wire.
LEMMA ReceivedIsSound ==
    ASSUME NEW k, NEW W, NEW sl, NEW tr, NEW po, Sound(k, W, sl, tr, po), k.role \notin po,
           W.pc = "listening", W.ready => W.buffer = <<>>, W.wire # <<>>,
           NEW V, V = Received(W)
    PROVE  /\ Sound(k, V, sl, tr, po) /\ V.pc \in {"holding", "judging"}
           /\ V.asked = W.asked /\ V.kind = W.kind /\ V.cursor = W.cursor
           /\ V.ready = W.ready /\ V.refused = W.refused
<1> DEFINE h == <<Head(W.wire)>>
           t == Tail(W.wire)
           p == IF IsCandle(Head(W.wire)) THEN "holding" ELSE "judging"
<1>0. h = <<Head(W.wire)>> /\ t = Tail(W.wire) OBVIOUS
<1>1. /\ DOMAIN V = Fields /\ V.pc = p /\ V.asked = W.asked /\ V.kind = W.kind
      /\ V.cursor = W.cursor /\ V.pending = W.pending /\ V.ready = W.ready
      /\ V.refused = W.refused /\ V.feed = W.feed /\ V.answer = W.answer /\ V.wire = t
      /\ V.buffer = W.buffer /\ V.hand = h /\ V.jobs = W.jobs /\ V.upto = W.upto
      /\ V.failed = W.failed /\ V.probe = W.probe
    BY DEF Sound, Shaped, Labelled, Fields, Received
<1>2. W.wire \in Seq(Messages) BY DEF Sound, Shaped, Queued
<1>3. Head(W.wire) \in Messages /\ t \in Seq(Messages) /\ Taken(W.wire, h, t) BY <1>2, OfTail
<1> HIDE DEF h, t
<1>4. /\ p = "holding" => IsCandle(Head(W.wire)) /\ Head(W.wire) \in Candles
      /\ p = "judging" => ~IsCandle(Head(W.wire)) /\ Head(W.wire) \in Answers
      /\ p \in {"holding", "judging"}
    BY <1>3, KindsOfMessages DEF Messages
<1>5. h # <<>> /\ h[1] = Head(W.wire) /\ Len(h) = 1 /\ h \in Seq(Messages \cup Ranges)
    BY <1>0, <1>3
<1>6. W.hand = <<>> BY DEF Sound, Handles, MidStep
<1>7. \A i, m : Has(V, i, m) <=> Has(W, i, m)
  <2>1. \A i, m : Holds(W.wire, i, m) <=> Holds(h, i, m) \/ Holds(t, i, m)
      BY <1>3 DEF Taken
  <2>2. \A i, m : ~Holds(W.hand, i, m) BY <1>6, OfEmpty
  <2> QED BY <1>1, <2>1, <2>2 DEF Has
<1>8. /\ InLine(W.wire) => InLine(t) /\ Ahead(h, t)
      /\ Until(W.wire, sl) => Until(t, sl) /\ Until(h, sl)
      /\ Ahead(W.buffer, W.wire) => Ahead(W.buffer, t) /\ Ahead(W.buffer, h)
      /\ Silent(W.wire) => Silent(t) /\ IsCandle(Head(W.wire))
      /\ SingleAnswer(W.wire) => SingleAnswer(t) /\ (IsCandle(Head(W.wire)) \/ Silent(t))
      /\ Fits(W.wire, W.kind, W.feed) => Fits(t, W.kind, W.feed) /\ Fits(h, W.kind, W.feed)
    BY <1>3 DEF Taken
<1>9. W.buffer = <<>> => Ahead(h, W.buffer) /\ Ahead(W.buffer, t) BY OfEmpty
<1> HIDE DEF p
<1>10. Shaped(V)
  <2>1. Labelled(V) BY <1>1, <1>4 DEF Sound, Shaped, Labelled, WorkerPcs
  <2>2. Asking(V) BY <1>1 DEF Sound, Shaped, Asking
  <2>4. Queued(V) BY <1>1, <1>3, <1>5 DEF Sound, Shaped, Queued
  <2> QED BY <2>1, <2>2, <2>4 DEF Shaped
<1>11. Handles(V) BY <1>1, <1>4, <1>5 DEF Handles, MidStep
<1>12. Seated(k, V, po) BY <1>1, <1>4 DEF Sound, Seated
<1>13. Accepted(W) <=> W.ready BY DEF Accepted
<1>14. Waiting(W) <=> ~W.ready BY DEF Waiting
<1>15. W.ready => p = "holding" BY <1>4, <1>8, <1>13 DEF Sound, Phased
<1>16. (Accepted(V) <=> W.ready) /\ (Waiting(V) <=> ~W.ready)
    BY <1>1, <1>4, <1>15 DEF Accepted, Waiting
<1>17. Phased(k, V, po)
  <2>1. W.answer # <<>> => Silent(t) BY <1>8 DEF Sound, Phased
  <2>2. SingleAnswer(t) BY <1>8 DEF Sound, Phased
  <2>3. p = "judging" => W.answer = <<>> /\ Silent(t)
      BY <1>4, <1>8 DEF Sound, Phased
  <2>4. W.ready => W.answer = <<>> /\ Silent(t) /\ W.kind \subseteq W.feed
      BY <1>8, <1>13 DEF Sound, Phased
  <2>5. ~W.ready => /\ W.pending /\ W.feed \subseteq W.kind /\ Fits(W.answer, W.kind, W.feed)
                    /\ Fits(t, W.kind, W.feed) /\ Fits(h, W.kind, W.feed)
      BY <1>8, <1>14 DEF Sound, Phased
  <2>6. W.ready => p = "holding" /\ W.jobs = {} /\ ~W.failed BY <1>15 DEF Sound, Phased
  <2> QED BY <1>1, <1>4, <1>16, <2>1, <2>2, <2>3, <2>4, <2>5, <2>6 DEF Phased
<1>18. Ordered(V, sl) BY <1>1, <1>8, <1>9 DEF Sound, Ordered
<1>19. Upward(V, tr) BY <1>1, <1>7 DEF Sound, Upward
<1>20. Covering(V, tr) BY <1>1, <1>7, <1>13, <1>16 DEF Sound, Covering
<1>21. Fetched(k, V, sl, tr, po) BY <1>1, <1>4 DEF Fetched
<1>22. Sound(k, V, sl, tr, po)
    BY <1>10, <1>11, <1>12, <1>17, <1>18, <1>19, <1>20, <1>21 DEF Sound
<1> QED BY <1>1, <1>4, <1>22

\* The one message in hand.
LEMMA OneMessage ==
    ASSUME NEW S, NEW h \in Seq(S), h # <<>>, Len(h) <= 1
    PROVE  h = <<h[1]>> /\ Len(h) = 1 /\ h[1] \in S
<1> DEFINE n == Len(h)
<1>1. n \in Nat /\ n # 0 /\ n <= 1 OBVIOUS
<1> HIDE DEF n
<1>2. n = 1 BY <1>1
<1>3. Len(h) = 1 BY <1>2 DEF n
<1> QED BY <1>3

\* A worker holds one message at most.
LEMMA InHand ==
    ASSUME NEW W, Queued(W), W.hand # <<>>
    PROVE  W.hand = <<W.hand[1]>> /\ Len(W.hand) = 1 /\ W.hand[1] \in Messages \cup Ranges
<1>1. W.hand \in Seq(Messages \cup Ranges) /\ Len(W.hand) <= 1 BY DEF Queued
<1> QED BY <1>1, OneMessage

\* What waits behind a candle in hand is later than it.
LEMMA AheadOfHeld ==
    ASSUME NEW c, NEW h, h = <<c>>, IsCandle(c), NEW q, Ahead(h, q), NEW m, Holds(q, c.instrument, m)
    PROVE  c.minute < m
<1>1. Len(h) = 1 /\ h[1] = c /\ 1 \in 1..1 OBVIOUS
<1>2. PICK x \in 1..Len(q) : IsCandle(q[x]) /\ q[x].instrument = c.instrument /\ q[x].minute = m
    BY DEF Holds
<1>3. Before(c, q[x]) BY <1>1 DEF Ahead
<1> QED BY <1>2, <1>3 DEF Before

\* Before the acknowledgement a usable candle is kept.
LEMMA BufferedIsSound ==
    ASSUME NEW k, NEW W, NEW sl, NEW tr, NEW po, Sound(k, W, sl, tr, po),
           W.pc = "holding", ~W.ready, Len(W.buffer) < MaxBuffer,
           NEW V, V = Buffered(W)
    PROVE  /\ Sound(k, V, sl, tr, po) /\ V.pc = "listening"
           /\ V.asked = W.asked /\ V.kind = W.kind /\ V.cursor = W.cursor
           /\ ~V.ready /\ ~W.ready /\ V.refused = W.refused
<1> DEFINE b == W.buffer \o W.hand
<1>1. /\ DOMAIN V = Fields /\ V.pc = "listening" /\ V.asked = W.asked /\ V.kind = W.kind
      /\ V.cursor = W.cursor /\ V.pending = W.pending /\ V.ready = W.ready
      /\ V.refused = W.refused /\ V.feed = W.feed /\ V.answer = W.answer /\ V.wire = W.wire
      /\ V.buffer = b /\ V.hand = <<>> /\ V.jobs = W.jobs /\ V.upto = W.upto
      /\ V.failed = W.failed /\ V.probe = W.probe
    BY DEF Sound, Shaped, Labelled, Fields, Buffered
<1>2. W.hand # <<>> /\ W.hand[1] \in Candles BY DEF Sound, Handles, MidStep
<1>3. W.hand = <<W.hand[1]>> /\ Len(W.hand) = 1 BY <1>2, InHand DEF Sound, Shaped
<1>4. W.buffer \in Seq(Candles) /\ W.hand \in Seq(Candles)
  <2>1. W.buffer \in Seq(Candles) BY DEF Sound, Shaped, Queued
  <2>2. <<W.hand[1]>> \in Seq(Candles) BY <1>2
  <2> QED BY <1>3, <2>1, <2>2, Zenon
<1>5. b \in Seq(Candles) /\ Joined(W.buffer, W.hand, b) BY <1>4, OfBoth
<1>6. IsCandle(W.hand[1]) BY <1>2, KindsOfMessages
<1>7. InLine(W.hand) BY <1>3, OfOne
<1> HIDE DEF b
<1>8. \A i, m : Has(V, i, m) <=> Has(W, i, m)
  <2>1. \A i, m : ~Holds(V.hand, i, m) BY <1>1, OfEmpty
  <2> QED BY <1>1, <1>5, <2>1 DEF Has, Joined
<1>9. Shaped(V)
  <2>1. Labelled(V) BY <1>1 DEF Sound, Shaped, Labelled, WorkerPcs
  <2>2. Asking(V) BY <1>1 DEF Sound, Shaped, Asking
  <2>3. Len(b) <= MaxBuffer
    <3>1. Len(b) = Len(W.buffer) + 1 BY <1>3, <1>5 DEF Joined
    <3>2. Len(W.buffer) \in Nat /\ MaxBuffer \in Nat BY <1>4, BarsAssumption
    <3> QED BY <3>1, <3>2
  <2>4. Queued(W) BY DEF Sound, Shaped
  <2>5. Queued(V) BY ONLY <1>1, <1>5, <2>3, <2>4 DEF Queued
  <2> QED BY <2>1, <2>2, <2>5 DEF Shaped
<1>10. Handles(V) BY <1>1 DEF Handles, MidStep
<1>11. Seated(k, V, po) BY <1>1 DEF Sound, Seated
<1>12. Waiting(V) /\ ~Accepted(V) /\ Waiting(W) /\ ~Accepted(W) BY <1>1 DEF Waiting, Accepted
<1>13. Phased(k, V, po)
  <2>1. k.role \notin po BY DEF Sound, Seated
  <2>2. Fits(V.hand, V.kind, V.feed) BY <1>1, OfEmpty
  <2> QED BY <1>1, <1>12, <2>1, <2>2 DEF Sound, Phased
<1>14. Ordered(V, sl)
  <2>1. Ahead(V.hand, V.wire) /\ Ahead(V.buffer, V.hand) /\ Until(V.hand, sl) BY <1>1, OfEmpty
  <2> QED BY <1>1, <1>5, <1>7, <2>1 DEF Sound, Ordered, Joined
<1>15. Upward(V, tr) BY <1>1, <1>8 DEF Sound, Upward
<1>16. Covering(V, tr) BY <1>12 DEF Covering
<1>17. Fetched(k, V, sl, tr, po) BY <1>1 DEF Fetched
<1>18. Sound(k, V, sl, tr, po) BY <1>9, <1>10, <1>11, <1>13, <1>14, <1>15, <1>16, <1>17 DEF Sound
<1> QED BY <1>1, <1>18

\* What a worker is like once it has let go of the candle in hand.
LetsGo(k, W, V, j, n, sl, tr, po) ==
    /\ Shaped(V) /\ Handles(V) /\ Seated(k, V, po) /\ Phased(k, V, po)
    /\ Ordered(V, sl) /\ Fetched(k, V, sl, tr, po)
    /\ /\ DOMAIN V = Fields /\ V.pc = "listening" /\ V.asked = W.asked /\ V.kind = W.kind
       /\ V.cursor = W.cursor /\ V.pending = W.pending /\ V.ready = W.ready
       /\ V.refused = W.refused /\ V.feed = W.feed /\ V.answer = W.answer /\ V.wire = W.wire
       /\ V.buffer = W.buffer /\ V.hand = <<>> /\ V.jobs = W.jobs /\ V.upto = W.upto
       /\ V.failed = W.failed /\ V.probe = W.probe
    /\ (Accepted(V) <=> W.ready) /\ (Accepted(W) <=> W.ready)
    /\ \A i, m : Has(W, i, m) <=> Has(V, i, m) \/ (i = j /\ m = n)
    /\ j \in Instruments /\ n \in Minutes
    /\ W.ready => \A m : Has(V, j, m) => n < m

\* A candle in hand is let go: its bar is the only one the worker no longer carries.
LEMMA LetGo ==
    ASSUME NEW k, NEW W, NEW sl, NEW tr, NEW po, Sound(k, W, sl, tr, po), W.pc = "holding",
           NEW V, V = Dropped(W)
    PROVE  LetsGo(k, W, V, W.hand[1].instrument, W.hand[1].minute, sl, tr, po)
<1>1. /\ DOMAIN V = Fields /\ V.pc = "listening" /\ V.asked = W.asked /\ V.kind = W.kind
      /\ V.cursor = W.cursor /\ V.pending = W.pending /\ V.ready = W.ready
      /\ V.refused = W.refused /\ V.feed = W.feed /\ V.answer = W.answer /\ V.wire = W.wire
      /\ V.buffer = W.buffer /\ V.hand = <<>> /\ V.jobs = W.jobs /\ V.upto = W.upto
      /\ V.failed = W.failed /\ V.probe = W.probe
    BY DEF Sound, Shaped, Labelled, Fields, Dropped
<1>2. W.hand # <<>> /\ W.hand[1] \in Candles BY DEF Sound, Handles, MidStep
<1>3. W.hand = <<W.hand[1]>> /\ Len(W.hand) = 1 BY <1>2, InHand DEF Sound, Shaped
<1>4. /\ IsCandle(W.hand[1]) /\ W.hand[1].instrument \in Instruments
      /\ W.hand[1].minute \in Minutes BY <1>2, KindsOfMessages
<1>5. Shaped(V)
  <2>1. Labelled(V) BY <1>1 DEF Sound, Shaped, Labelled, WorkerPcs
  <2>2. Asking(V) BY <1>1 DEF Sound, Shaped, Asking
  <2>3. Queued(V) BY <1>1 DEF Sound, Shaped, Queued
  <2> QED BY <2>1, <2>2, <2>3 DEF Shaped
<1>6. Handles(V) BY <1>1 DEF Handles, MidStep
<1>7. Seated(k, V, po) BY <1>1 DEF Sound, Seated
<1>8. /\ (Accepted(V) <=> W.ready) /\ (Accepted(W) <=> W.ready)
      /\ (Waiting(V) <=> ~W.ready) /\ (Waiting(W) <=> ~W.ready)
    BY <1>1 DEF Waiting, Accepted
<1>9. Phased(k, V, po)
  <2>1. k.role \notin po BY DEF Sound, Seated
  <2>2. Fits(V.hand, V.kind, V.feed) BY <1>1, OfEmpty
  <2> QED BY <1>1, <1>8, <2>1, <2>2 DEF Sound, Phased
<1>10. Ordered(V, sl)
  <2>1. /\ Ahead(V.hand, V.wire) /\ Ahead(V.buffer, V.hand) /\ Ahead(V.hand, V.buffer)
        /\ Until(V.hand, sl) BY <1>1, OfEmpty
  <2> QED BY <1>1, <2>1 DEF Sound, Ordered
<1>11. Fetched(k, V, sl, tr, po) BY <1>1 DEF Fetched
<1>12. ASSUME NEW i, NEW m
       PROVE  Has(W, i, m) <=> Has(V, i, m) \/ (i = W.hand[1].instrument /\ m = W.hand[1].minute)
  <2>1. ~Holds(V.hand, i, m) BY <1>1, OfEmpty
  <2>2. Holds(W.hand, i, m) <=> i = W.hand[1].instrument /\ m = W.hand[1].minute
      BY <1>3, <1>4, OfOne
  <2> QED BY <1>1, <2>1, <2>2 DEF Has
<1>13. ASSUME W.ready, NEW m, Has(V, W.hand[1].instrument, m) PROVE W.hand[1].minute < m
  <2>1. Ahead(W.hand, W.wire) /\ Ahead(W.hand, W.buffer) BY <1>13 DEF Sound, Ordered
  <2>2. ~Holds(V.hand, W.hand[1].instrument, m) BY <1>1, OfEmpty
  <2>3. \/ Holds(W.wire, W.hand[1].instrument, m)
        \/ Holds(W.buffer, W.hand[1].instrument, m)
      BY <1>1, <1>13, <2>2 DEF Has
  <2> QED BY <1>3, <1>4, <2>1, <2>3, AheadOfHeld
<1> QED BY <1>1, <1>4, <1>5, <1>6, <1>7, <1>8, <1>9, <1>10, <1>11, <1>12, <1>13 DEF LetsGo

\* A candle that is of no use is dropped.
LEMMA DroppedIsSound ==
    ASSUME NEW k, NEW W, NEW sl, NEW tr, NEW po, Sound(k, W, sl, tr, po), W.pc = "holding",
           \/ W.hand[1].instrument \notin W.kind
           \/ W.ready /\ W.hand[1].minute <= W.cursor[W.hand[1].instrument],
           NEW V, V = Dropped(W)
    PROVE  /\ Sound(k, V, sl, tr, po) /\ V.pc = "listening"
           /\ V.asked = W.asked /\ V.kind = W.kind /\ V.cursor = W.cursor
           /\ V.ready = W.ready /\ V.refused = W.refused
<1> DEFINE j == W.hand[1].instrument
           n == W.hand[1].minute
<1>0. LetsGo(k, W, V, j, n, sl, tr, po) BY LetGo
<1>1. /\ Shaped(V) /\ Handles(V) /\ Seated(k, V, po) /\ Phased(k, V, po)
      /\ Ordered(V, sl) /\ Fetched(k, V, sl, tr, po)
      /\ /\ DOMAIN V = Fields /\ V.pc = "listening" /\ V.asked = W.asked /\ V.kind = W.kind
         /\ V.cursor = W.cursor /\ V.pending = W.pending /\ V.ready = W.ready
         /\ V.refused = W.refused /\ V.feed = W.feed /\ V.answer = W.answer /\ V.wire = W.wire
         /\ V.buffer = W.buffer /\ V.hand = <<>> /\ V.jobs = W.jobs /\ V.upto = W.upto
         /\ V.failed = W.failed /\ V.probe = W.probe
      /\ (Accepted(V) <=> W.ready) /\ (Accepted(W) <=> W.ready)
      /\ \A i, m : Has(W, i, m) <=> Has(V, i, m) \/ (i = j /\ m = n)
      /\ j \in Instruments /\ n \in Minutes
      /\ W.ready => \A m : Has(V, j, m) => n < m
    BY <1>0 DEF LetsGo
<1>2. W.cursor[j] \in Nat /\ \A i \in Instruments : W.cursor[i] \in Nat
    BY <1>1 DEF Sound, Shaped, Asking
<1>3. W.kind \subseteq Instruments BY DEF Sound, Shaped, Asking
<1> HIDE DEF j, n
<1>4. Upward(V, tr)
  <2>1. SUFFICES ASSUME NEW i \in W.kind, i \in W.feed, NEW m \in Minutes, Has(V, i, m),
                        NEW x \in Minutes, <<i, x>> \in tr, m < x
                 PROVE  Has(V, i, x)
      BY <1>1 DEF Upward
  <2>2. Has(W, i, x) BY <1>1, <2>1 DEF Sound, Upward
  <2>3. ~(i = j /\ x = n)
    <3>1. ASSUME i = j, x = n PROVE FALSE
      <4>1. W.ready BY <3>1, <2>1 DEF j
      <4>2. n < m BY <4>1, <3>1, <1>1, <2>1
      <4> QED BY <4>2, <3>1, <2>1 DEF Minutes
    <3> QED BY <3>1
  <2> QED BY <1>1, <2>2, <2>3
<1>5. Covering(V, tr)
  <2>1. SUFFICES ASSUME W.ready, ~W.failed, NEW i \in W.kind, W.cursor[i] # 0,
                        NEW m \in Minutes, <<i, m>> \in tr, m > W.cursor[i],
                        i \in W.jobs => m > W.upto
                 PROVE  Has(V, i, m)
      BY <1>1 DEF Covering
  <2>2. Has(W, i, m) BY <1>1, <2>1 DEF Sound, Covering
  <2>3. ~(i = j /\ m = n) BY <2>1, <1>1, <1>2 DEF Minutes, j, n
  <2> QED BY <1>1, <2>2, <2>3
<1>6. Sound(k, V, sl, tr, po) BY <1>1, <1>4, <1>5 DEF Sound
<1> QED BY <1>1, <1>6

\* A live candle is published and the cursor follows it.
LEMMA TakenIsSound ==
    ASSUME NEW k, NEW W, NEW sl, NEW tr, NEW po, Sound(k, W, sl, tr, po), W.pc = "holding", W.ready,
           NEW j, j = W.hand[1].instrument, NEW n, n = W.hand[1].minute, j \in W.kind,
           NEW U, U = Dropped(W),
           NEW V, V = Passed(U, j, n)
    PROVE  /\ Sound(k, V, sl, tr, po) /\ V.pc = "listening"
           /\ V.asked = W.asked /\ V.kind = W.kind /\ V.cursor = [W.cursor EXCEPT ![j] = n]
           /\ V.ready /\ V.refused = W.refused
<1>0. LetsGo(k, W, U, j, n, sl, tr, po) BY LetGo
<1>1. /\ Shaped(U) /\ Handles(U) /\ Seated(k, U, po) /\ Phased(k, U, po)
      /\ Ordered(U, sl) /\ Fetched(k, U, sl, tr, po)
      /\ /\ DOMAIN U = Fields /\ U.pc = "listening" /\ U.asked = W.asked /\ U.kind = W.kind
         /\ U.cursor = W.cursor /\ U.pending = W.pending /\ U.ready = W.ready
         /\ U.refused = W.refused /\ U.feed = W.feed /\ U.answer = W.answer /\ U.wire = W.wire
         /\ U.buffer = W.buffer /\ U.hand = <<>> /\ U.jobs = W.jobs /\ U.upto = W.upto
         /\ U.failed = W.failed /\ U.probe = W.probe
      /\ (Accepted(U) <=> W.ready) /\ (Accepted(W) <=> W.ready)
      /\ \A i, m : Has(W, i, m) <=> Has(U, i, m) \/ (i = j /\ m = n)
      /\ j \in Instruments /\ n \in Minutes
      /\ W.ready => \A m : Has(U, j, m) => n < m
    BY <1>0 DEF LetsGo
<1>2. /\ DOMAIN V = Fields /\ V.pc = U.pc /\ V.asked = U.asked /\ V.kind = U.kind
      /\ V.cursor = [U.cursor EXCEPT ![j] = n] /\ V.pending = U.pending /\ V.ready = U.ready
      /\ V.refused = U.refused /\ V.feed = U.feed /\ V.answer = U.answer /\ V.wire = U.wire
      /\ V.buffer = U.buffer /\ V.hand = U.hand /\ V.jobs = U.jobs /\ V.upto = U.upto
      /\ V.failed = U.failed /\ V.probe = U.probe
    BY <1>1 DEF Fields, Passed
<1>3. Shaped(V)
  <2>1. Labelled(V) BY <1>1, <1>2 DEF Shaped, Labelled
  <2>2. V.cursor \in [Instruments -> 0..MaxMinute]
      BY <1>1, <1>2, BarsAssumption DEF Shaped, Asking, Minutes
  <2>5. W.jobs = {} BY DEF Sound, Phased
  <2>3. Asking(V) BY <1>1, <1>2, <2>2, <2>5 DEF Shaped, Asking
  <2>4. Queued(V) BY <1>1, <1>2 DEF Shaped, Queued
  <2> QED BY <2>1, <2>3, <2>4 DEF Shaped
<1>4. Handles(V) BY <1>1, <1>2 DEF Handles
<1>5. Seated(k, V, po) BY <1>1, <1>2 DEF Seated
<1>6. (Accepted(V) <=> Accepted(U)) /\ (Waiting(V) <=> Waiting(U))
    BY <1>2 DEF Accepted, Waiting
<1>7. Phased(k, V, po) BY <1>1, <1>2, <1>6 DEF Phased
<1>8. Ordered(V, sl) BY <1>1, <1>2 DEF Ordered
<1>9. Fetched(k, V, sl, tr, po) BY <1>1, <1>2 DEF Fetched
<1>10. W.kind \subseteq Instruments /\ W.kind \subseteq W.feed
    BY <1>1 DEF Sound, Shaped, Asking, Phased
<1>11. \A i, m : Has(V, i, m) <=> Has(U, i, m) BY <1>2 DEF Has
<1>12. Upward(V, tr)
  <2>1. SUFFICES ASSUME NEW i \in W.kind, i \in W.feed, NEW m \in Minutes, Has(U, i, m),
                        NEW x \in Minutes, <<i, x>> \in tr, m < x
                 PROVE  Has(U, i, x)
      BY <1>1, <1>2, <1>11 DEF Upward
  <2>2. Has(W, i, x) BY <1>1, <2>1 DEF Sound, Upward
  <2>3. ~(i = j /\ x = n) BY <1>1, <2>1 DEF Minutes
  <2> QED BY <1>1, <2>2, <2>3
<1>13. Covering(V, tr)
  <2>1. SUFFICES ASSUME ~W.failed, NEW i \in W.kind, V.cursor[i] # 0,
                        NEW m \in Minutes, <<i, m>> \in tr, m > V.cursor[i],
                        i \in W.jobs => m > W.upto
                 PROVE  Has(U, i, m)
      BY <1>1, <1>2, <1>11 DEF Covering
  <2>2. CASE i = j
    <3>1. V.cursor[i] = n BY <1>1, <1>2, <2>2 DEF Shaped, Asking
    <3>2. Has(W, j, n) BY <1>1
    <3>3. n < m BY <3>1, <2>1
    <3>4. Has(W, j, m) BY <1>1, <1>10, <2>1, <2>2, <3>2, <3>3 DEF Sound, Upward
    <3>5. m # n BY <3>3, <1>1 DEF Minutes
    <3> QED BY <1>1, <2>2, <3>4, <3>5
  <2>3. CASE i # j
    <3>1. V.cursor[i] = W.cursor[i] BY <1>1, <1>2, <1>10, <2>3 DEF Shaped, Asking
    <3>2. Has(W, i, m) BY <1>1, <2>1, <3>1 DEF Sound, Covering
    <3> QED BY <1>1, <2>3, <3>2
  <2> QED BY <2>2, <2>3
<1>14. Sound(k, V, sl, tr, po)
    BY <1>3, <1>4, <1>5, <1>7, <1>8, <1>9, <1>12, <1>13 DEF Sound
<1> QED BY <1>1, <1>2, <1>14

\* The mark of an instrument refused for good touches nothing else.
LEMMA RefusedIsSound ==
    ASSUME NEW k, NEW W, NEW sl, NEW tr, NEW po, Sound(k, W, sl, tr, po),
           NEW r \in BOOLEAN, NEW V, V = Refusing(W, r)
    PROVE  /\ Sound(k, V, sl, tr, po)
           /\ /\ DOMAIN V = Fields /\ V.pc = W.pc /\ V.asked = W.asked /\ V.kind = W.kind
              /\ V.cursor = W.cursor /\ V.pending = W.pending /\ V.ready = W.ready /\ V.refused = r
              /\ V.feed = W.feed /\ V.answer = W.answer /\ V.wire = W.wire /\ V.buffer = W.buffer
              /\ V.hand = W.hand /\ V.jobs = W.jobs /\ V.upto = W.upto /\ V.failed = W.failed
              /\ V.probe = W.probe
<1>1. /\ DOMAIN V = Fields /\ V.pc = W.pc /\ V.asked = W.asked /\ V.kind = W.kind
      /\ V.cursor = W.cursor /\ V.pending = W.pending /\ V.ready = W.ready /\ V.refused = r
      /\ V.feed = W.feed /\ V.answer = W.answer /\ V.wire = W.wire /\ V.buffer = W.buffer
      /\ V.hand = W.hand /\ V.jobs = W.jobs /\ V.upto = W.upto /\ V.failed = W.failed
      /\ V.probe = W.probe
    BY DEF Sound, Shaped, Labelled, Fields, Refusing
<1>2. Shaped(V)
  <2>1. Labelled(V) BY <1>1 DEF Sound, Shaped, Labelled
  <2>2. Asking(V) BY <1>1 DEF Sound, Shaped, Asking
  <2>3. Queued(V) BY <1>1 DEF Sound, Shaped, Queued
  <2> QED BY <2>1, <2>2, <2>3 DEF Shaped
<1>3. Handles(V) BY <1>1 DEF Sound, Handles
<1>4. Seated(k, V, po) BY <1>1 DEF Sound, Seated
<1>5. (Accepted(V) <=> Accepted(W)) /\ (Waiting(V) <=> Waiting(W)) BY <1>1 DEF Accepted, Waiting
<1>6. Phased(k, V, po) BY <1>1, <1>5 DEF Sound, Phased
<1>7. Ordered(V, sl) BY <1>1 DEF Sound, Ordered
<1>8. \A i, m : Has(V, i, m) <=> Has(W, i, m) BY <1>1 DEF Has
<1>9. Upward(V, tr) BY <1>1, <1>8 DEF Sound, Upward
<1>10. Covering(V, tr) BY <1>1, <1>5, <1>8 DEF Sound, Covering
<1>11. Fetched(k, V, sl, tr, po) BY <1>1 DEF Sound, Fetched, RangeOf, RangeIs
<1>12. Sound(k, V, sl, tr, po)
    BY <1>2, <1>3, <1>4, <1>6, <1>7, <1>9, <1>10, <1>11 DEF Sound
<1> QED BY <1>1, <1>12

\* The acknowledged instruments catch up to the clock, which no candle is ahead of.
LEMMA CaughtUpIsSound ==
    ASSUME NEW k, NEW W, NEW sl, NEW tr, NEW po, Sound(k, W, sl, tr, po), k.role \notin po,
           Traded(sl, tr), W.pc = "judging", NEW mn \in 0..MaxMinute, sl <= mn,
           NEW is, is = W.kind \ (W.hand[1].retry \cup W.hand[1].never),
           NEW J, J = {i \in is : W.pending /\ W.cursor[i] # 0 /\ W.cursor[i] < mn},
           NEW V, V = CaughtUp(W, is, J, mn)
    PROVE  /\ Sound(k, V, sl, tr, po) /\ V.pc = "recovering"
           /\ V.asked = W.asked /\ V.kind = is /\ V.cursor = W.cursor
           /\ ~V.ready /\ ~W.ready /\ V.refused = W.refused /\ W.pending
<1>0. /\ Labelled(W) /\ Asking(W) /\ Seated(k, W, po) /\ Phased(k, W, po) /\ Ordered(W, sl)
      /\ Upward(W, tr) /\ k.role \notin po /\ W.pc = "judging" /\ mn \in 0..MaxMinute
      /\ is \subseteq W.kind /\ J \subseteq is /\ \A x \in J : W.cursor[x] # 0
    BY DEF Sound, Shaped
<1>1. /\ DOMAIN V = Fields /\ V.pc = "recovering" /\ V.asked = W.asked /\ V.kind = is
      /\ V.cursor = W.cursor /\ V.pending = FALSE /\ V.ready = W.ready
      /\ V.refused = W.refused /\ V.feed = W.feed /\ V.answer = W.answer /\ V.wire = W.wire
      /\ V.buffer = W.buffer /\ V.hand = <<>> /\ V.jobs = J /\ V.upto = mn
      /\ V.failed = W.failed /\ V.probe = FALSE
    BY DEF Sound, Shaped, Labelled, Fields, CaughtUp
<1>2. Waiting(W) /\ W.pending /\ ~W.ready BY DEF Waiting, Sound, Phased
<1>3. W.hand # <<>> /\ W.hand[1] \in Answers BY DEF Sound, Handles, MidStep
<1>4. W.hand = <<W.hand[1]>> /\ Len(W.hand) = 1 BY <1>3, InHand DEF Sound, Shaped
<1>5. ~IsCandle(W.hand[1]) BY <1>3, KindsOfMessages
<1>6. W.feed = is
  <2>1. Fits(W.hand, W.kind, W.feed) BY <1>2 DEF Sound, Phased
  <2>2. 1 \in 1..Len(W.hand) BY <1>4
  <2> QED BY <1>5, <2>1, <2>2 DEF Fits
<1>7. \A i, m : Has(V, i, m) <=> Has(W, i, m)
  <2>1. \A i, m : ~Holds(V.hand, i, m) BY ONLY <1>1, OfEmpty
  <2>2. \A i, m : ~Holds(W.hand, i, m) BY <1>4, <1>5, OfOne
  <2> QED BY ONLY <1>1, <2>1, <2>2 DEF Has
<1>8. Shaped(V)
  <2>1. Labelled(V) BY ONLY <1>0, <1>1 DEF Labelled, WorkerPcs, Fields
  <2>2. Asking(V) BY ONLY <1>0, <1>1, BarsAssumption DEF Asking
  <2>3. Queued(W) BY DEF Sound, Shaped
  <2>4. Queued(V) BY ONLY <1>1, <2>3 DEF Queued
  <2> QED BY <2>1, <2>2, <2>4 DEF Shaped
<1>9. Handles(V) BY ONLY <1>1 DEF Handles, MidStep
<1>10. Seated(k, V, po) BY ONLY <1>0, <1>1 DEF Seated
<1>11. Accepted(V) /\ ~Waiting(V) BY ONLY <1>1, <1>2 DEF Accepted, Waiting
<1>12. Phased(k, V, po) BY ONLY <1>0, <1>1, <1>2, <1>6, <1>11 DEF Phased
<1>13. Ordered(V, sl)
  <2>1. Ahead(V.hand, V.wire) /\ Ahead(V.buffer, V.hand) /\ Until(V.hand, sl) BY ONLY <1>1, OfEmpty
  <2> QED BY ONLY <1>0, <1>1, <1>2, <2>1 DEF Ordered
<1>14. Upward(V, tr)
  <2>1. is \subseteq W.kind OBVIOUS
  <2> QED BY ONLY <1>0, <1>1, <1>7, <2>1 DEF Upward
<1>15. Covering(V, tr)
  <2>1. SUFFICES ASSUME NEW i \in V.kind, V.cursor[i] # 0, NEW m \in Minutes, <<i, m>> \in tr,
                        m > V.cursor[i], i \in V.jobs => m > V.upto
                 PROVE  FALSE
      BY Zenon DEF Covering
  <2>6. i \in is /\ W.cursor[i] # 0 /\ m > W.cursor[i] /\ (i \in J => m > mn) BY ONLY <1>1, <2>1
  <2>2. m \in 1..sl BY <2>1 DEF Traded
  <2>3. W.cursor[i] \in Nat BY <2>6 DEF Sound, Shaped, Asking
  <2>4. sl \in Nat /\ mn \in Nat BY DEF Traded, Minutes
  <2>5. i \in J BY <1>2, <2>6, <2>2, <2>3, <2>4
  <2> QED BY <2>6, <2>2, <2>4, <2>5
<1>16. Fetched(k, V, sl, tr, po) BY ONLY <1>1 DEF Fetched
<1>17. Sound(k, V, sl, tr, po)
    BY <1>8, <1>9, <1>10, <1>12, <1>13, <1>14, <1>15, <1>16 DEF Sound
<1> QED BY ONLY <1>1, <1>2, <1>17

\* A range comes back while the worker recovers.
LEMMA FetchedIsSound ==
    ASSUME NEW k, NEW W, NEW sl, NEW tr, NEW po, Sound(k, W, sl, tr, po), k.role \notin po,
           W.pc = "recovering", NEW R \in Ranges, R.instrument \in W.jobs,
           RangeIs(W, R.instrument, R, sl, tr),
           NEW V, V = Returned(W, R)
    PROVE  /\ Sound(k, V, sl, tr, po) /\ V.pc = "fetched"
           /\ V.asked = W.asked /\ V.kind = W.kind /\ V.cursor = W.cursor
           /\ ~V.ready /\ ~W.ready /\ V.refused = W.refused
<1>1. /\ DOMAIN V = Fields /\ V.pc = "fetched" /\ V.asked = W.asked /\ V.kind = W.kind
      /\ V.cursor = W.cursor /\ V.pending = W.pending /\ V.ready = W.ready
      /\ V.refused = W.refused /\ V.feed = W.feed /\ V.answer = W.answer /\ V.wire = W.wire
      /\ V.buffer = W.buffer /\ V.hand = <<R>> /\ V.jobs = W.jobs /\ V.upto = W.upto
      /\ V.failed = W.failed /\ V.probe = W.probe
    BY DEF Sound, Shaped, Labelled, Fields, Returned
<1>2. ~W.ready BY DEF Sound, Phased
<1>3. (Accepted(V) <=> Accepted(W)) /\ ~Waiting(V) /\ ~Waiting(W) BY <1>1 DEF Accepted, Waiting
<1>4. ~IsCandle(R) BY KindsOfMessages
<1>5. <<R>> \in Seq(Messages \cup Ranges) /\ Len(<<R>>) = 1 /\ <<R>> # <<>> /\ <<R>>[1] = R OBVIOUS
<1>6. W.hand = <<>> BY DEF Sound, Handles, MidStep
<1>7. \A i, m : Has(V, i, m) <=> Has(W, i, m)
  <2>1. \A i, m : ~Holds(V.hand, i, m) BY <1>1, <1>4, OfOne
  <2>2. \A i, m : ~Holds(W.hand, i, m) BY <1>6, OfEmpty
  <2> QED BY <1>1, <2>1, <2>2 DEF Has
<1>8. Shaped(V)
  <2>1. Labelled(V) BY <1>1 DEF Sound, Shaped, Labelled, WorkerPcs
  <2>2. Asking(V) BY <1>1 DEF Sound, Shaped, Asking
  <2>3. Queued(V) BY <1>1, <1>5 DEF Sound, Shaped, Queued
  <2> QED BY <2>1, <2>2, <2>3 DEF Shaped
<1>9. Handles(V) BY <1>1, <1>5 DEF Handles, MidStep
<1>10. Seated(k, V, po) BY <1>1 DEF Sound, Seated
<1>11. Phased(k, V, po) BY <1>1, <1>2, <1>3 DEF Sound, Phased
<1>12. Ordered(V, sl)
  <2>1. Ahead(V.hand, V.wire) /\ Ahead(V.buffer, V.hand) /\ Until(V.hand, sl)
      BY <1>1, <1>4, OfOne
  <2> QED BY <1>1, <1>2, <2>1 DEF Sound, Ordered
<1>13. Upward(V, tr) BY <1>1, <1>7 DEF Sound, Upward
<1>14. Covering(V, tr) BY <1>1, <1>3, <1>7 DEF Sound, Covering
<1>15. Fetched(k, V, sl, tr, po) BY <1>1, <1>5 DEF Fetched, RangeOf, RangeIs
<1>16. Sound(k, V, sl, tr, po)
    BY <1>8, <1>9, <1>10, <1>11, <1>12, <1>13, <1>14, <1>15 DEF Sound
<1> QED BY <1>1, <1>2, <1>16

\* A range that could not be fetched marks the recovery as failed.
LEMMA FailedIsSound ==
    ASSUME NEW k, NEW W, NEW sl, NEW tr, NEW po, Sound(k, W, sl, tr, po), k.role \notin po,
           W.pc = "recovering", NEW i \in W.jobs,
           NEW V, V = FailedOn(W, i)
    PROVE  /\ Sound(k, V, sl, tr, po) /\ V.pc = "recovering"
           /\ V.asked = W.asked /\ V.kind = W.kind /\ V.cursor = W.cursor
           /\ ~V.ready /\ ~W.ready /\ V.refused = W.refused
<1>1. /\ DOMAIN V = Fields /\ V.pc = W.pc /\ V.asked = W.asked /\ V.kind = W.kind
      /\ V.cursor = W.cursor /\ V.pending = W.pending /\ V.ready = W.ready
      /\ V.refused = W.refused /\ V.feed = W.feed /\ V.answer = W.answer /\ V.wire = W.wire
      /\ V.buffer = W.buffer /\ V.hand = W.hand /\ V.jobs = W.jobs \ {i} /\ V.upto = W.upto
      /\ V.failed = TRUE /\ V.probe = W.probe
    BY DEF Sound, Shaped, Labelled, Fields, FailedOn
<1>2. ~W.ready BY DEF Sound, Phased
<1>3. (Accepted(V) <=> Accepted(W)) /\ ~Waiting(V) /\ ~Waiting(W) BY <1>1 DEF Accepted, Waiting
<1>4. Shaped(V)
  <2>1. Labelled(V) BY <1>1 DEF Sound, Shaped, Labelled
  <2>2. Asking(V) BY <1>1 DEF Sound, Shaped, Asking
  <2>3. Queued(V) BY <1>1 DEF Sound, Shaped, Queued
  <2> QED BY <2>1, <2>2, <2>3 DEF Shaped
<1>5. Handles(V) BY <1>1 DEF Sound, Handles
<1>6. Seated(k, V, po) BY <1>1 DEF Sound, Seated
<1>7. Phased(k, V, po) BY <1>1, <1>2, <1>3 DEF Sound, Phased
<1>8. Ordered(V, sl) BY <1>1 DEF Sound, Ordered
<1>9. Upward(V, tr) BY <1>1 DEF Sound, Upward, Has
<1>10. Covering(V, tr) BY <1>1 DEF Covering
<1>11. Fetched(k, V, sl, tr, po) BY <1>1 DEF Fetched
<1>12. Sound(k, V, sl, tr, po)
    BY <1>4, <1>5, <1>6, <1>7, <1>8, <1>9, <1>10, <1>11 DEF Sound
<1> QED BY <1>1, <1>2, <1>12

\* A range is published, and the cursor passes all of it.
LEMMA BatchIsSound ==
    ASSUME NEW k, NEW W, NEW sl, NEW tr, NEW po, Sound(k, W, sl, tr, po), k.role \notin po,
           W.pc = "fetched", NEW j, j = W.hand[1].instrument,
           NEW V, V = Batched(W, j)
    PROVE  /\ Sound(k, V, sl, tr, po) /\ V.pc = "recovering"
           /\ V.asked = W.asked /\ V.kind = W.kind
           /\ V.cursor = [W.cursor EXCEPT ![j] = Larger(W.cursor[j], W.upto)]
           /\ ~V.ready /\ ~W.ready /\ V.refused = W.refused
<1> DEFINE c == [W.cursor EXCEPT ![j] = Larger(W.cursor[j], W.upto)]
<1>1. /\ DOMAIN V = Fields /\ V.pc = "recovering" /\ V.asked = W.asked /\ V.kind = W.kind
      /\ V.cursor = c /\ V.pending = W.pending /\ V.ready = W.ready /\ V.refused = W.refused
      /\ V.feed = W.feed /\ V.answer = W.answer /\ V.wire = W.wire /\ V.buffer = W.buffer
      /\ V.hand = <<>> /\ V.jobs = W.jobs \ {j} /\ V.upto = W.upto /\ V.failed = W.failed
      /\ V.probe = W.probe
    BY DEF Sound, Shaped, Labelled, Fields, Batched
<1>2. ~W.ready BY DEF Sound, Phased
<1>3. (Accepted(V) <=> Accepted(W)) /\ ~Waiting(V) /\ ~Waiting(W) BY <1>1 DEF Accepted, Waiting
<1>4. W.hand # <<>> /\ W.hand[1] \in Ranges BY DEF Sound, Handles, MidStep
<1>5. W.hand = <<W.hand[1]>> /\ Len(W.hand) = 1 BY <1>4, InHand DEF Sound, Shaped
<1>6. ~IsCandle(W.hand[1]) /\ j \in Instruments BY <1>4, KindsOfMessages
<1>7. \A i, m : Has(V, i, m) <=> Has(W, i, m)
  <2>1. \A i, m : ~Holds(V.hand, i, m) BY <1>1, OfEmpty
  <2>2. \A i, m : ~Holds(W.hand, i, m) BY <1>5, <1>6, OfOne
  <2> QED BY <1>1, <2>1, <2>2 DEF Has
<1>8. /\ W.cursor \in [Instruments -> 0..MaxMinute] /\ W.upto \in 0..MaxMinute
      /\ W.kind \subseteq Instruments BY DEF Sound, Shaped, Asking
<1>9. c \in [Instruments -> 0..MaxMinute] BY <1>6, <1>8 DEF Larger
<1>10. \A i \in Instruments : i # j => c[i] = W.cursor[i] BY <1>8
<1>11. c[j] >= W.upto BY <1>6, <1>8 DEF Larger
<1> HIDE DEF c
<1>12. Shaped(V)
  <2>1. Labelled(V) BY <1>1 DEF Sound, Shaped, Labelled, WorkerPcs
  <2>2. Asking(V)
    <3>1. \A i \in W.jobs \ {j} : c[i] # 0 BY <1>8, <1>10 DEF Sound, Shaped, Asking
    <3> QED BY <1>1, <1>9, <3>1 DEF Sound, Shaped, Asking
  <2>3. Queued(V) BY <1>1 DEF Sound, Shaped, Queued
  <2> QED BY <2>1, <2>2, <2>3 DEF Shaped
<1>13. Handles(V) BY <1>1 DEF Handles, MidStep
<1>14. Seated(k, V, po) BY <1>1 DEF Sound, Seated
<1>15. Phased(k, V, po) BY <1>1, <1>2, <1>3 DEF Sound, Phased
<1>16. Ordered(V, sl)
  <2>1. Ahead(V.hand, V.wire) /\ Ahead(V.buffer, V.hand) /\ Until(V.hand, sl) BY <1>1, OfEmpty
  <2> QED BY <1>1, <1>2, <2>1 DEF Sound, Ordered
<1>17. Upward(V, tr) BY <1>1, <1>7 DEF Sound, Upward
<1>18. Covering(V, tr)
  <2>1. SUFFICES ASSUME Accepted(W), ~W.failed, NEW i \in W.kind, c[i] # 0,
                        NEW m \in Minutes, <<i, m>> \in tr, m > c[i],
                        i \in W.jobs \ {j} => m > W.upto
                 PROVE  Has(W, i, m)
      BY <1>1, <1>3, <1>7 DEF Covering
  <2>2. CASE i # j
    <3>1. c[i] = W.cursor[i] BY <1>8, <1>10, <2>2
    <3> QED BY <2>1, <2>2, <3>1 DEF Sound, Covering
  <2>3. CASE i = j
    <3>1. j \in W.jobs BY DEF Sound, Fetched, RangeOf
    <3>2. m > W.upto /\ m > W.cursor[j] /\ c[j] \in Nat /\ m \in Nat
      <4>1. c[j] \in Nat /\ W.upto \in Nat /\ m \in Nat /\ W.cursor[j] \in Nat
          BY <1>6, <1>8, <1>9 DEF Minutes
      <4>2. c[j] >= W.cursor[j] BY <1>6, <1>8, <4>1 DEF c, Larger
      <4> QED BY <4>1, <4>2, <1>11, <2>1, <2>3
    <3>3. W.cursor[j] # 0 BY <3>1 DEF Sound, Shaped, Asking
    <3> QED BY <2>1, <2>3, <3>1, <3>2, <3>3 DEF Sound, Covering
  <2> QED BY <2>2, <2>3
<1>19. Fetched(k, V, sl, tr, po) BY <1>1 DEF Fetched
<1>20. Sound(k, V, sl, tr, po)
    BY <1>12, <1>13, <1>14, <1>15, <1>16, <1>17, <1>18, <1>19 DEF Sound
<1> QED BY <1>1, <1>2, <1>20 DEF c

\* Recovery is over and the stream is ready.
LEMMA ReadyIsSound ==
    ASSUME NEW k, NEW W, NEW sl, NEW tr, NEW po, Sound(k, W, sl, tr, po), k.role \notin po,
           W.pc = "recovering", W.jobs = {}, ~W.probe, ~W.failed,
           NEW V, V = Readied(W)
    PROVE  /\ Sound(k, V, sl, tr, po) /\ V.pc = "listening"
           /\ V.asked = W.asked /\ V.kind = W.kind /\ V.cursor = W.cursor
           /\ V.ready /\ ~W.ready /\ V.refused = W.refused
<1>1. /\ DOMAIN V = Fields /\ V.pc = "listening" /\ V.asked = W.asked /\ V.kind = W.kind
      /\ V.cursor = W.cursor /\ V.pending = W.pending /\ V.ready = TRUE
      /\ V.refused = W.refused /\ V.feed = W.feed /\ V.answer = W.answer /\ V.wire = W.wire
      /\ V.buffer = W.buffer /\ V.hand = W.hand /\ V.jobs = W.jobs /\ V.upto = 0
      /\ V.failed = W.failed /\ V.probe = W.probe
    BY DEF Sound, Shaped, Labelled, Fields, Readied
<1>2. ~W.ready BY DEF Sound, Phased
<1>3. Accepted(V) /\ Accepted(W) /\ ~Waiting(V) /\ ~Waiting(W) BY <1>1 DEF Accepted, Waiting
<1>4. W.hand = <<>> BY DEF Sound, Handles, MidStep
<1>5. Shaped(V)
  <2>1. Labelled(V) BY <1>1 DEF Sound, Shaped, Labelled, WorkerPcs
  <2>2. Asking(V) BY <1>1, BarsAssumption DEF Sound, Shaped, Asking
  <2>3. Queued(V) BY <1>1 DEF Sound, Shaped, Queued
  <2> QED BY <2>1, <2>2, <2>3 DEF Shaped
<1>6. Handles(V) BY <1>1, <1>4 DEF Handles, MidStep
<1>7. Seated(k, V, po) BY <1>1 DEF Sound, Seated
<1>8. Phased(k, V, po) BY <1>1, <1>2, <1>3 DEF Sound, Phased
<1>9. Ordered(V, sl)
  <2>1. Ahead(V.hand, V.buffer) BY <1>1, <1>4, OfEmpty
  <2> QED BY <1>1, <2>1 DEF Sound, Ordered
<1>10. \A i, m : Has(V, i, m) <=> Has(W, i, m) BY <1>1 DEF Has
<1>11. Upward(V, tr) BY <1>1, <1>10 DEF Sound, Upward
<1>12. Covering(V, tr) BY <1>1, <1>3, <1>10 DEF Sound, Covering
<1>13. Fetched(k, V, sl, tr, po) BY <1>1 DEF Fetched
<1>14. Sound(k, V, sl, tr, po)
    BY <1>5, <1>6, <1>7, <1>8, <1>9, <1>11, <1>12, <1>13 DEF Sound
<1> QED BY <1>1, <1>2, <1>14

\* The broker's answer comes on the wire.
LEMMA AnsweredIsSound ==
    ASSUME NEW k, NEW W, NEW sl, NEW tr, NEW po, Sound(k, W, sl, tr, po), W.answer # <<>>,
           NEW V, V = Answered(W)
    PROVE  /\ Sound(k, V, sl, tr, po) /\ V.pc = W.pc
           /\ V.asked = W.asked /\ V.kind = W.kind /\ V.cursor = W.cursor
           /\ V.ready = W.ready /\ V.refused = W.refused
<1> DEFINE b == W.wire \o W.answer
<1>1. /\ DOMAIN V = Fields /\ V.pc = W.pc /\ V.asked = W.asked /\ V.kind = W.kind
      /\ V.cursor = W.cursor /\ V.pending = W.pending /\ V.ready = W.ready
      /\ V.refused = W.refused /\ V.feed = W.feed /\ V.answer = <<>> /\ V.wire = b
      /\ V.buffer = W.buffer /\ V.hand = W.hand /\ V.jobs = W.jobs /\ V.upto = W.upto
      /\ V.failed = W.failed /\ V.probe = W.probe
    BY DEF Sound, Shaped, Labelled, Fields, Answered
<1>2. W.wire \in Seq(Messages) /\ W.answer \in Seq(Answers) /\ Len(W.answer) <= 1
    BY DEF Sound, Shaped, Queued
<1>3. W.answer = <<W.answer[1]>> /\ W.answer[1] \in Answers BY <1>2, OneMessage
<1>4. ~IsCandle(W.answer[1]) BY <1>3, KindsOfMessages
<1>5. W.answer \in Seq(Messages)
  <2>1. <<W.answer[1]>> \in Seq(Messages) BY <1>3 DEF Messages
  <2> QED BY <1>3, <2>1, Zenon
<1>6. b \in Seq(Messages) /\ Joined(W.wire, W.answer, b) BY <1>2, <1>5, OfBoth
<1> HIDE DEF b
<1>7. /\ \A i, m : ~Holds(W.answer, i, m)
      /\ InLine(W.answer) /\ SingleAnswer(W.answer) /\ Until(W.answer, sl)
      /\ \A r : Ahead(W.answer, r) /\ Ahead(r, W.answer)
  <2>1. PICK a : W.answer = <<a>> /\ ~IsCandle(a) BY <1>3, <1>4
  <2> QED BY ONLY <2>1, OfOne
<1>8. Waiting(W) /\ W.pc # "judging" /\ ~Accepted(W) /\ k.role \notin po BY DEF Sound, Phased
<1>9. Waiting(V) /\ ~Accepted(V) BY <1>1, <1>8 DEF Accepted, Waiting
<1>10. \A i, m : Has(V, i, m) <=> Has(W, i, m) BY <1>1, <1>6, <1>7 DEF Has, Joined
<1>11. Shaped(V)
  <2>1. Labelled(V) BY <1>1 DEF Sound, Shaped, Labelled
  <2>2. Asking(V) BY <1>1 DEF Sound, Shaped, Asking
  <2>3. Queued(W) BY DEF Sound, Shaped
  <2>4. Queued(V) BY ONLY <1>1, <1>6, <2>3 DEF Queued
  <2> QED BY <2>1, <2>2, <2>4 DEF Shaped
<1>12. Handles(V) BY <1>1 DEF Sound, Handles
<1>13. Seated(k, V, po) BY <1>1 DEF Sound, Seated
<1>14. Phased(k, V, po)
  <2>1. Fits(W.wire, W.kind, W.feed) /\ Fits(W.answer, W.kind, W.feed) /\ Silent(W.wire)
      BY <1>8 DEF Sound, Phased
  <2>2. Fits(b, W.kind, W.feed) /\ SingleAnswer(b) BY <2>1, <1>6, <1>7 DEF Joined
  <2>3. Fits(V.answer, V.kind, V.feed) BY <1>1, OfEmpty
  <2> QED BY <1>1, <1>8, <1>9, <2>2, <2>3 DEF Sound, Phased
<1>15. Ordered(V, sl) BY <1>1, <1>6, <1>7 DEF Sound, Ordered, Joined
<1>16. Upward(V, tr) BY <1>1, <1>10 DEF Sound, Upward
<1>17. Covering(V, tr) BY <1>9 DEF Covering
<1>18. Fetched(k, V, sl, tr, po) BY <1>1, <1>8 DEF Fetched, Waiting
<1>19. Sound(k, V, sl, tr, po)
    BY <1>11, <1>12, <1>13, <1>14, <1>15, <1>16, <1>17, <1>18 DEF Sound
<1> QED BY <1>1, <1>19

\* A new minute is behind everything that is queued.
LEMMA BehindAll ==
    ASSUME NEW sl \in Nat, NEW n, n = sl + 1, NEW p, Until(p, sl), NEW q,
           \A y \in 1..Len(q) : q[y].minute = n,
           \A x \in 1..Len(p) : p[x] \in Candles \/ ~IsCandle(p[x])
    PROVE  Ahead(p, q) /\ Until(p, n)
<1>1. ASSUME NEW x \in 1..Len(p), IsCandle(p[x])
      PROVE  p[x].minute \in Nat /\ p[x].minute <= sl /\ p[x].minute < n
  <2>1. p[x].minute \in Nat /\ p[x].minute <= sl BY <1>1, KindsOfMessages DEF Until, Minutes
  <2> QED BY <2>1
<1>2. Until(p, n) BY <1>1 DEF Until
<1>3. Ahead(p, q) BY <1>1 DEF Ahead, Before
<1> QED BY <1>2, <1>3

\* A minute forms finitely many candles.
LEMMA CandlesAreFew ==
    ASSUME NEW n, NEW A, IsFiniteSet(A)
    PROVE  IsFiniteSet({Candle(i, n) : i \in A})
<1> DEFINE C == {Candle(i, n) : i \in A}
           f == [i \in A |-> Candle(i, n)]
<1>1. f \in Surjection(A, C)
  <2>1. f \in [A -> C] OBVIOUS
  <2>2. \A c \in C : \E i \in A : f[i] = c OBVIOUS
  <2> HIDE DEF f, C
  <2> QED BY <2>1, <2>2, Fun_IsSurj
<1> HIDE DEF f, C
<1>2. IsFiniteSet(C) BY <1>1, FS_Surjection
<1> QED BY <1>2 DEF C

\* The candles of one minute, in any order.
Lists(q, A, n) ==
    /\ q \in Seq(Candles) /\ Silent(q) /\ InLine(q)
    /\ \A x \in 1..Len(q) : q[x].minute = n
    /\ \A i, m : Holds(q, i, m) <=> i \in A /\ m = n
    /\ A = {} => q = <<>>

\* What the exchange sends of a minute: one candle for each instrument fed.
LEMMA NewCandles ==
    ASSUME NEW A \in SUBSET Instruments, NEW n \in Minutes,
           NEW q, q = SetToSeq({Candle(i, n) : i \in A})
    PROVE  Lists(q, A, n)
<1> DEFINE C == {Candle(i, n) : i \in A}
<1>1. IsFiniteSet(C)
  <2>1. IsFiniteSet(A) BY BarsAssumption, FS_Subset
  <2> QED BY <2>1, CandlesAreFew
<1>2. /\ q \in Seq(C)
      /\ \A x, y \in 1..Len(q) : q[x] = q[y] => x = y
      /\ \A c \in C : \E x \in 1..Len(q) : q[x] = c
    BY <1>1, SetToSeqLists
<1>3. \A c \in C : /\ c \in Candles /\ IsCandle(c) /\ c.minute = n /\ c.instrument \in A
                   /\ c = Candle(c.instrument, n)
  <2>1. \A i \in A : /\ Candle(i, n) \in Candles /\ Candle(i, n).instrument = i
                     /\ Candle(i, n).minute = n
      BY DEF Candles, Candle
  <2> QED BY <2>1, KindsOfMessages
<1>4. \A i \in A : Candle(i, n) \in C OBVIOUS
<1>5. A = {} => C = {} OBVIOUS
<1> HIDE DEF C
<1>6. \A x \in 1..Len(q) : q[x] \in C BY <1>2
<1>7. q \in Seq(Candles)
  <2>1. \A x \in 1..Len(q) : q[x] \in Candles BY <1>3, <1>6
  <2> QED BY <1>2, <2>1
<1>8. Silent(q) BY <1>3, <1>6 DEF Silent
<1>9. InLine(q)
  <2>1. SUFFICES ASSUME NEW x \in 1..Len(q), NEW y \in 1..Len(q), x < y,
                        q[x].instrument = q[y].instrument
                 PROVE  FALSE
      BY DEF InLine, Before
  <2>2. q[x] = q[y] BY <1>3, <1>6, <2>1
  <2> QED BY <1>2, <2>1, <2>2
<1>10. ASSUME NEW i, NEW m PROVE Holds(q, i, m) <=> i \in A /\ m = n
  <2>1. ASSUME Holds(q, i, m) PROVE i \in A /\ m = n BY <2>1, <1>3, <1>6 DEF Holds
  <2>2. ASSUME i \in A, m = n PROVE Holds(q, i, m)
    <3>1. PICK x \in 1..Len(q) : q[x] = Candle(i, n) BY <1>2, <1>4, <2>2
    <3> QED BY <3>1, <1>3, <1>4, <2>2 DEF Holds, Candle
  <2> QED BY <2>1, <2>2
<1>11. A = {} => q = <<>>
  <2>1. SUFFICES ASSUME A = {}, q # <<>> PROVE FALSE OBVIOUS
  <2>2. 1 \in 1..Len(q) BY <1>7, <2>1
  <2> QED BY <2>1, <2>2, <1>5, <1>6
<1>12. \A x \in 1..Len(q) : q[x].minute = n BY <1>3, <1>6
<1> QED BY <1>7, <1>8, <1>9, <1>10, <1>11, <1>12 DEF Lists

\* The exchange completes a minute: the candles of the instruments a stream is fed.
Formed(S, W, n) == SetToSeq({Candle(i, n) : i \in S \cap W.feed})

\* The new minute is the latest, so its candles come after all that is on the wire.
LEMMA SealedIsSound ==
    ASSUME NEW k, NEW W, NEW sl, NEW tr, NEW po, Sound(k, W, sl, tr, po), Traded(sl, tr),
           NEW n \in Minutes, n = sl + 1, NEW S \in SUBSET Instruments,
           NEW q, q = Formed(S, W, n),
           NEW V, V = Fed(W, q),
           NEW t2, t2 = tr \cup (S \X {n})
    PROVE  /\ Sound(k, V, n, t2, po) /\ V.pc = W.pc
           /\ V.asked = W.asked /\ V.kind = W.kind /\ V.cursor = W.cursor
           /\ V.ready = W.ready /\ V.refused = W.refused
<1> DEFINE b == W.wire \o q
           A == S \cap W.feed
<1>0. sl \in Nat /\ n \in Nat BY DEF Traded, Minutes
<1>1. /\ DOMAIN V = Fields /\ V.pc = W.pc /\ V.asked = W.asked /\ V.kind = W.kind
      /\ V.cursor = W.cursor /\ V.pending = W.pending /\ V.ready = W.ready
      /\ V.refused = W.refused /\ V.feed = W.feed /\ V.answer = W.answer /\ V.wire = b
      /\ V.buffer = W.buffer /\ V.hand = W.hand /\ V.jobs = W.jobs /\ V.upto = W.upto
      /\ V.failed = W.failed /\ V.probe = W.probe
    BY DEF Sound, Shaped, Labelled, Fields, Fed
<1>2. Lists(q, A, n)
  <2>1. A \in SUBSET Instruments OBVIOUS
  <2> QED BY <2>1, NewCandles DEF Formed
<1>3. Shaped(W) BY DEF Sound
<1>4. /\ W.wire \in Seq(Messages) /\ W.buffer \in Seq(Candles)
      /\ W.hand \in Seq(Messages \cup Ranges) /\ W.answer \in Seq(Answers)
    BY <1>3 DEF Shaped, Queued
<1>5. q \in Seq(Messages) BY <1>2 DEF Lists, Messages
<1>6. b \in Seq(Messages) /\ Joined(W.wire, q, b) BY <1>4, <1>5, OfBoth
<1>7. \A i : i \in A <=> i \in S /\ i \in W.feed OBVIOUS
<1> HIDE DEF b, A
<1>8. /\ Ahead(W.wire, q) /\ Until(W.wire, n) /\ Ahead(W.buffer, q) /\ Until(W.buffer, n)
      /\ Ahead(W.hand, q) /\ Until(W.hand, n) /\ Until(q, n)
  <2>1. \A y \in 1..Len(q) : q[y].minute = n BY <1>2 DEF Lists
  <2>2. \A c \in Messages \cup Ranges : c \in Candles \/ ~IsCandle(c)
      BY KindsOfMessages DEF Messages
  <2>3. \A x \in 1..Len(W.wire) : W.wire[x] \in Candles \/ ~IsCandle(W.wire[x]) BY <1>4, <2>2
  <2>4. \A x \in 1..Len(W.buffer) : W.buffer[x] \in Candles \/ ~IsCandle(W.buffer[x]) BY <1>4
  <2>5. \A x \in 1..Len(W.hand) : W.hand[x] \in Candles \/ ~IsCandle(W.hand[x]) BY <1>4, <2>2
  <2>6. Until(W.wire, sl) /\ Until(W.buffer, sl) /\ Until(W.hand, sl) BY DEF Sound, Ordered
  <2>7. Ahead(W.wire, q) /\ Until(W.wire, n) BY ONLY <1>0, n = sl + 1, <2>1, <2>3, <2>6, BehindAll
  <2>8. Ahead(W.buffer, q) /\ Until(W.buffer, n) BY ONLY <1>0, n = sl + 1, <2>1, <2>4, <2>6, BehindAll
  <2>9. Ahead(W.hand, q) /\ Until(W.hand, n) BY ONLY <1>0, n = sl + 1, <2>1, <2>5, <2>6, BehindAll
  <2>10. Until(q, n) BY <2>1, <1>0 DEF Until
  <2> QED BY <2>7, <2>8, <2>9, <2>10
<1>9. \A i, m : Has(V, i, m) <=> Has(W, i, m) \/ (i \in A /\ m = n)
    BY <1>1, <1>2, <1>6 DEF Has, Joined, Lists
<1>10. (Accepted(V) <=> Accepted(W)) /\ (Waiting(V) <=> Waiting(W)) BY <1>1 DEF Accepted, Waiting
<1>11. Shaped(V)
  <2>1. Labelled(V) BY <1>1, <1>3 DEF Shaped, Labelled
  <2>2. Asking(V) BY <1>1, <1>3 DEF Shaped, Asking
  <2>3. Queued(W) BY <1>3 DEF Shaped
  <2>4. Queued(V) BY ONLY <1>1, <1>6, <2>3 DEF Queued
  <2> QED BY <2>1, <2>2, <2>4 DEF Shaped
<1>12. Handles(V) BY <1>1 DEF Sound, Handles
<1>13. Seated(k, V, po) BY <1>1 DEF Sound, Seated
<1>14. Phased(k, V, po)
  <2>0. Phased(k, W, po) BY DEF Sound
  <2>1. Silent(q) BY <1>2 DEF Lists
  <2>2. ASSUME W.feed = {}, W.wire = <<>> PROVE b = <<>>
    <3>1. q = <<>> BY <2>2, <1>2, <1>7 DEF Lists
    <3>2. Len(b) = 0 BY <3>1, <2>2, <1>6 DEF Joined
    <3> QED BY <3>2, <1>6
  <2>3. \A K, F : Fits(q, K, F) BY <2>1 DEF Fits, Silent
  <2>4. /\ \A K, F : Fits(W.wire, K, F) => Fits(b, K, F)
        /\ Silent(W.wire) => Silent(b)
        /\ SingleAnswer(W.wire) => SingleAnswer(b)
      BY <2>1, <2>3, <1>6 DEF Joined
  <2> QED BY ONLY <1>1, <1>10, <2>0, <2>2, <2>4 DEF Phased
<1>15. Ordered(V, n)
  <2>1. Ordered(W, sl) BY DEF Sound
  <2>2. InLine(q) BY <1>2 DEF Lists
  <2>3. InLine(b) /\ Until(b, n) BY <2>1, <2>2, <1>6, <1>8 DEF Joined, Ordered
  <2>4. Ahead(W.buffer, b) /\ Ahead(W.hand, b) BY <2>1, <1>6, <1>8 DEF Joined, Ordered
  <2> QED BY ONLY <1>1, <1>8, <2>1, <2>3, <2>4 DEF Ordered
<1>16. \A i : \A x \in Minutes : <<i, x>> \in t2 /\ i \in W.feed =>
                   (i \in A /\ x = n) \/ (<<i, x>> \in tr /\ x <= sl)
    BY <1>7 DEF Traded
<1>17. Upward(V, t2)
  <2>1. SUFFICES ASSUME NEW i \in W.kind, i \in W.feed, NEW m \in Minutes, Has(V, i, m),
                        NEW x \in Minutes, <<i, x>> \in t2, m < x
                 PROVE  Has(V, i, x)
      BY <1>1 DEF Upward
  <2>2. CASE i \in A /\ x = n BY <2>2, <1>9
  <2>3. CASE <<i, x>> \in tr /\ x <= sl
    <3>1. m # n BY <2>1, <2>3, <1>0 DEF Minutes
    <3>4. Has(V, i, m) BY <2>1
    <3>2. Has(W, i, m) BY ONLY <3>1, <3>4, <1>9
    <3>3. Has(W, i, x) BY <3>2, <2>1, <2>3 DEF Sound, Upward
    <3> QED BY <3>3, <1>9
  <2> QED BY <2>1, <2>2, <2>3, <1>16
<1>18. Covering(V, t2)
  <2>1. SUFFICES ASSUME Accepted(W), ~W.failed, NEW i \in W.kind, W.cursor[i] # 0,
                        NEW m \in Minutes, <<i, m>> \in t2, m > W.cursor[i],
                        i \in W.jobs => m > W.upto
                 PROVE  Has(V, i, m)
      BY <1>1, <1>10 DEF Covering
  <2>2. i \in W.feed BY <2>1 DEF Sound, Phased
  <2>3. CASE i \in A /\ m = n BY <2>3, <1>9
  <2>4. CASE <<i, m>> \in tr
    <3>1. Has(W, i, m) BY <2>1, <2>4 DEF Sound, Covering
    <3> QED BY <3>1, <1>9
  <2> QED BY <2>1, <2>2, <2>3, <2>4, <1>16
<1>19. Fetched(k, V, n, t2, po)
  <2>1. SUFFICES ASSUME W.pc = "fetched"
                 PROVE  /\ RangeOf(k, V, po)
                        /\ RangeIs(V, W.hand[1].instrument, W.hand[1], n, t2)
      BY <1>1 DEF Fetched
  <2> DEFINE R == W.hand[1]
             i == R.instrument
  <2>2. RangeOf(k, W, po) /\ RangeIs(W, i, R, sl, tr) BY <2>1 DEF Sound, Fetched
  <2>3. RangeOf(k, V, po) BY <2>2, <1>1 DEF RangeOf
  <2>4. W.upto \in Nat BY <1>3 DEF Shaped, Asking
  <2> HIDE DEF R, i
  <2>5. ASSUME NEW m \in 1..W.upto
        PROVE  /\ <<i, m>> \in t2 /\ m > W.cursor[i] => m \in R.bars \cup R.late
               /\ n < m => m \in R.late
    <3>1. <<i, m>> \in t2 => <<i, m>> \in tr \/ m = n OBVIOUS
    <3>2. sl < n /\ (n < m => sl < m) BY <1>0, <2>4
    <3> QED BY <3>1, <3>2, <2>2 DEF RangeIs
  <2>6. RangeIs(V, i, R, n, t2) BY <2>2, <2>5, <1>1 DEF RangeIs
  <2> QED BY <2>3, <2>6 DEF R, i
<1>20. Sound(k, V, n, t2, po)
    BY <1>11, <1>12, <1>13, <1>14, <1>15, <1>17, <1>18, <1>19 DEF Sound
<1> QED BY <1>1, <1>20

-----------------------------------------------------------------------------
\* The poll of one instrument

\* A poll has no stream.
LEMMA PollShape ==
    ASSUME NEW k, NEW W, NEW sl, NEW tr, NEW po, Sound(k, W, sl, tr, po), k.role \in po
    PROVE  /\ W.kind = {} /\ W.jobs = {} /\ ~W.ready /\ W.feed = {} /\ W.answer = <<>>
           /\ W.wire = <<>> /\ W.buffer = <<>>
BY DEF Sound, Shaped, Asking, Seated, Phased

\* The poll begins at the clock when nothing was published before.
LEMMA PolledFromIsSound ==
    ASSUME NEW k, NEW W, NEW sl, NEW tr, NEW po, Sound(k, W, sl, tr, po), k.role \in po,
           W.pc = "polling", NEW n \in 0..MaxMinute,
           NEW V, V = PolledFrom(k, W, n)
    PROVE  /\ Sound(k, V, sl, tr, po) /\ V.pc = "polling"
           /\ V.asked = W.asked /\ V.kind = {} /\ V.cursor = [W.cursor EXCEPT ![k.role] = n]
           /\ /\ DOMAIN V = Fields /\ V.pc = W.pc /\ V.asked = W.asked /\ V.kind = W.kind
              /\ V.cursor = [W.cursor EXCEPT ![k.role] = n] /\ V.pending = W.pending
              /\ V.ready = W.ready /\ V.refused = W.refused /\ V.feed = W.feed /\ V.answer = W.answer
              /\ V.wire = W.wire /\ V.buffer = W.buffer /\ V.hand = W.hand /\ V.jobs = W.jobs
              /\ V.upto = W.upto /\ V.failed = W.failed /\ V.probe = W.probe
<1>1. /\ DOMAIN V = Fields /\ V.pc = W.pc /\ V.asked = W.asked /\ V.kind = W.kind
      /\ V.cursor = [W.cursor EXCEPT ![k.role] = n] /\ V.pending = W.pending
      /\ V.ready = W.ready /\ V.refused = W.refused /\ V.feed = W.feed /\ V.answer = W.answer
      /\ V.wire = W.wire /\ V.buffer = W.buffer /\ V.hand = W.hand /\ V.jobs = W.jobs
      /\ V.upto = W.upto /\ V.failed = W.failed /\ V.probe = W.probe
    BY DEF Sound, Shaped, Labelled, Fields, PolledFrom
<1>2. W.kind = {} /\ W.jobs = {} BY PollShape
<1>7. V.cursor \in [Instruments -> 0..MaxMinute]
  <2>1. W.cursor \in [Instruments -> 0..MaxMinute] BY DEF Sound, Shaped, Asking
  <2> QED BY ONLY <1>1, <2>1, n \in 0..MaxMinute
<1>3. Shaped(V)
  <2>1. Labelled(V) BY <1>1 DEF Sound, Shaped, Labelled
  <2>2. Asking(W) BY DEF Sound, Shaped
  <2>4. Asking(V) BY ONLY <1>1, <1>2, <1>7, <2>2 DEF Asking
  <2>3. Queued(V) BY <1>1 DEF Sound, Shaped, Queued
  <2> QED BY <2>1, <2>3, <2>4 DEF Shaped
<1>4. Quiet(V) BY <1>1, PollShape DEF Sound, Handles, Quiet, MidStep
<1>5. Seated(k, V, po) BY <1>1 DEF Sound, Seated
<1>6. Sound(k, V, sl, tr, po) BY <1>3, <1>4, <1>5, QuietIsSound
<1> QED BY <1>1, <1>2, <1>6

\* The range a poll asks for comes back.
LEMMA PolledIsSound ==
    ASSUME NEW k, NEW W, NEW sl, NEW tr, NEW po, Sound(k, W, sl, tr, po), k.role \in po,
           W.pc = "polling", NEW R \in Ranges, R.instrument = k.role,
           NEW n \in 0..MaxMinute, W.cursor[k.role] < n,
           NEW V, V = PolledRange(W, R, n),
           RangeIs(V, R.instrument, R, sl, tr)
    PROVE  /\ Sound(k, V, sl, tr, po) /\ V.pc = "fetched"
           /\ V.asked = W.asked /\ V.kind = {} /\ V.cursor = W.cursor
<1>1. /\ DOMAIN V = Fields /\ V.pc = "fetched" /\ V.asked = W.asked /\ V.kind = W.kind
      /\ V.cursor = W.cursor /\ V.pending = W.pending /\ V.ready = W.ready
      /\ V.refused = W.refused /\ V.feed = W.feed /\ V.answer = W.answer /\ V.wire = W.wire
      /\ V.buffer = W.buffer /\ V.hand = <<R>> /\ V.jobs = W.jobs /\ V.upto = n
      /\ V.failed = W.failed /\ V.probe = W.probe
    BY DEF Sound, Shaped, Labelled, Fields, PolledRange
<1>2. /\ W.kind = {} /\ W.jobs = {} /\ ~W.ready /\ W.feed = {} /\ W.answer = <<>>
      /\ W.wire = <<>> /\ W.buffer = <<>>
    BY PollShape
<1>3. ~IsCandle(R) BY KindsOfMessages
<1>4. <<R>> \in Seq(Messages \cup Ranges) /\ Len(<<R>>) = 1 /\ <<R>> # <<>> /\ <<R>>[1] = R OBVIOUS
<1>5. Shaped(V)
  <2>1. Labelled(V) BY <1>1 DEF Sound, Shaped, Labelled, WorkerPcs
  <2>2. Asking(V) BY <1>1 DEF Sound, Shaped, Asking
  <2>3. Queued(V) BY <1>1, <1>4 DEF Sound, Shaped, Queued
  <2> QED BY <2>1, <2>2, <2>3 DEF Shaped
<1>6. Handles(V) BY <1>1, <1>4 DEF Handles, MidStep
<1>7. Seated(k, V, po) BY <1>1 DEF Sound, Seated
<1>8. Phased(k, V, po)
  <2>1. Silent(V.wire) /\ SingleAnswer(V.wire) BY <1>1, <1>2, OfEmpty
  <2>2. ~Waiting(V) BY <1>1 DEF Waiting
  <2> QED BY <1>1, <1>2, <2>1, <2>2 DEF Phased
<1>9. Ordered(V, sl)
  <2>1. Ahead(V.hand, V.wire) /\ Ahead(V.buffer, V.hand) /\ Until(V.hand, sl)
      BY <1>1, <1>3, OfOne
  <2>2. /\ InLine(V.wire) /\ InLine(V.buffer) /\ Ahead(V.buffer, V.wire)
        /\ Until(V.wire, sl) /\ Until(V.buffer, sl) BY <1>1, <1>2, OfEmpty
  <2> QED BY <1>1, <1>2, <2>1, <2>2 DEF Ordered
<1>10. Upward(V, tr) BY <1>1, <1>2 DEF Upward
<1>11. Covering(V, tr) BY <1>1, <1>2 DEF Covering
<1>12. Fetched(k, V, sl, tr, po) BY <1>1, <1>4 DEF Fetched, RangeOf
<1>13. Sound(k, V, sl, tr, po)
    BY <1>5, <1>6, <1>7, <1>8, <1>9, <1>10, <1>11, <1>12 DEF Sound
<1> QED BY <1>1, <1>2, <1>13

\* A polled range is published, and the cursor passes all of it.
LEMMA PollTakenIsSound ==
    ASSUME NEW k, NEW W, NEW sl, NEW tr, NEW po, Sound(k, W, sl, tr, po), k.role \in po,
           W.pc = "fetched",
           NEW V, V = PollPassed(k, W)
    PROVE  /\ Sound(k, V, sl, tr, po) /\ V.pc = "polling"
           /\ V.asked = W.asked /\ V.kind = {}
           /\ V.cursor = [W.cursor EXCEPT ![k.role] = W.upto]
<1> DEFINE c == [W.cursor EXCEPT ![k.role] = W.upto]
<1>1. /\ DOMAIN V = Fields /\ V.pc = "polling" /\ V.asked = W.asked /\ V.kind = W.kind
      /\ V.cursor = c /\ V.pending = W.pending /\ V.ready = W.ready /\ V.refused = W.refused
      /\ V.feed = W.feed /\ V.answer = W.answer /\ V.wire = W.wire /\ V.buffer = W.buffer
      /\ V.hand = <<>> /\ V.jobs = W.jobs /\ V.upto = 0 /\ V.failed = W.failed
      /\ V.probe = W.probe
    BY DEF Sound, Shaped, Labelled, Fields, PollPassed
<1>2. W.kind = {} /\ W.jobs = {} BY PollShape
<1>3. c \in [Instruments -> 0..MaxMinute] BY DEF Sound, Shaped, Asking
<1> HIDE DEF c
<1>4. Shaped(V)
  <2>1. Labelled(V) BY <1>1 DEF Sound, Shaped, Labelled, WorkerPcs
  <2>2. Asking(W) BY DEF Sound, Shaped
  <2>4. Asking(V) BY ONLY <1>1, <1>2, <1>3, <2>2, BarsAssumption DEF Asking
  <2>3. Queued(V) BY <1>1 DEF Sound, Shaped, Queued
  <2> QED BY <2>1, <2>3, <2>4 DEF Shaped
<1>5. Quiet(V) BY <1>1, PollShape DEF Quiet, MidStep
<1>6. Seated(k, V, po) BY <1>1 DEF Sound, Seated
<1>7. Sound(k, V, sl, tr, po) BY <1>4, <1>5, <1>6, QuietIsSound
<1> QED BY <1>1, <1>2, <1>7 DEF c

-----------------------------------------------------------------------------
\* The inductive invariant

\* Every worker is sound, of the snapshot or left from an earlier one.
WorkersAreSound ==
    /\ DOMAIN worker = TaskKeys /\ worker = [k \in TaskKeys |-> worker[k]]
    /\ \A k \in TaskKeys : Sound(k, worker[k], sealed, traded, polled)

Clocked ==
    /\ minute \in Minutes /\ sealed <= minute /\ Traded(sealed, traded)
    /\ polled \subseteq Instruments /\ subscribed \subseteq Instruments

\* The keys of the snapshot, and who answers for an instrument.
Unborn    == {"starting", "restarting", "crashed"}
AtWork(W) == W.pc \in {"opening", "listening", "holding", "judging", "recovering", "fetched", "backoff"}
Child(k, i) == [k EXCEPT !.role = i]

KeysAreCurrent ==
    /\ generation \in 0..MaxGeneration /\ expected \subseteq TaskKeys /\ nonOp \subseteq expected
    /\ \A k \in expected : k.gen = generation
    /\ ~online => expected = {}
ChildrenAreOwned ==
    \A k \in expected : k.role # Group /\ k.role \notin polled =>
        /\ Parent(k) \in expected /\ k.role \notin worker[Parent(k)].kind
        /\ worker[Parent(k)].pc \notin Unborn /\ worker[k].asked = {k.role}
HealthIsEarned ==
    \A k \in expected : k.role \notin polled /\ k \notin nonOp =>
        worker[k].pc = "crashed" \/ (worker[k].ready /\ ~worker[k].refused)
AskedIsPlaced ==
    \A k \in expected : k.role \notin polled /\ AtWork(worker[k]) /\ ~worker[k].refused =>
        \A i \in worker[k].asked :
            i \in worker[k].kind \/ (k.role = Group /\ Child(k, i) \in expected)
SubscribedIsAsked ==
    online => \A i \in subscribed \ polled : \E k \in expected : k.role = Group /\ i \in worker[k].asked
Accounted ==
    /\ KeysAreCurrent /\ ChildrenAreOwned /\ HealthIsEarned /\ AskedIsPlaced /\ SubscribedIsAsked

\* What has been published, and up to where.
Marked ==
    /\ watermark \in [Instruments -> 0..MaxMinute] /\ base \in [Instruments -> 0..MaxMinute]
    /\ skipped \in [Instruments -> SUBSET Minutes] /\ published \in [Instruments -> Seq(Minutes)]
Delivered ==
    \A i \in Instruments :
        /\ \A m \in Due(i) : m <= watermark[i] => m \in Sent(i)
        /\ \A m \in Minutes : sealed < m /\ m <= watermark[i] => m \in skipped[i] \/ m <= base[i]
        /\ \A x \in DOMAIN published[i] : published[i][x] <= watermark[i]
        /\ \A x, y \in DOMAIN published[i] : x < y => published[i][x] < published[i][y]

\* The cursor of a worker of the snapshot is where the watermark is.
TightOf(k, W, po, wm, mn) ==
    IF k.role \in po
      THEN \/ W.pc = "off"
           \/ /\ W.pc \in {"polling", "fetched"}
              /\ \/ W.cursor[k.role] = wm[k.role]
                 \/ wm[k.role] = 0 /\ W.cursor[k.role] < mn
      ELSE \A i \in W.kind : W.cursor[i] = wm[i]
CursorsAreTight == \A k \in expected : TightOf(k, worker[k], polled, watermark, minute)

ReadyIsMarked ==
    /\ DOMAIN readiness = Instruments
    /\ \A i \in Instruments : readiness[i].state = "Ready" =>
          readiness[i].through \in 0..MaxMinute /\ readiness[i].through <= watermark[i]

BarsInv ==
    /\ WorkersAreSound /\ Clocked /\ Accounted /\ Marked /\ Delivered
    /\ CursorsAreTight /\ ReadyIsMarked

-----------------------------------------------------------------------------
\* Keys

\* A key is a generation and a role.
LEMMA KeyShape ==
    ASSUME NEW k \in TaskKeys
    PROVE  /\ k.gen \in 1..MaxGeneration /\ k.role \in {Group} \cup Instruments
           /\ Parent(k) \in TaskKeys /\ Parent(k).gen = k.gen /\ Parent(k).role = Group
           /\ k.role = Group => Parent(k) = k
           /\ \A i \in Instruments : /\ Child(k, i) \in TaskKeys /\ Child(k, i).gen = k.gen
                                     /\ Child(k, i).role = i
           /\ \A c \in TaskKeys : c.gen = k.gen /\ c.role = k.role => c = k
BY DEF TaskKeys, Parent, Child

\* An isolated stream belongs to the group of its generation.
LEMMA ChildShape ==
    ASSUME NEW k \in TaskKeys, NEW c \in Children(k)
    PROVE  /\ c \in TaskKeys /\ c.gen = k.gen /\ c.role \in Instruments /\ c.role \notin polled
           /\ c.role # Group /\ k.role = Group /\ Parent(c) = k /\ c # k
<1>1. k.role = Group /\ c \in TaskKeys /\ c.gen = k.gen /\ c.role \notin {Group} \cup polled
    BY DEF Children
<1>2. Parent(c) = k BY <1>1, KeyShape
<1> QED BY <1>1, <1>2, KeyShape

\* At most one key of the snapshot answers for an instrument.
Feeds(k, i) == IF k.role \in polled THEN i = k.role ELSE i \in worker[k].kind

\* An instrument of the current snapshot is worked on by one worker only.
LEMMA OneOwner ==
    ASSUME WorkersAreSound, Clocked, Accounted, NEW k \in expected, NEW c \in expected, NEW i \in Instruments,
           Feeds(k, i), Feeds(c, i)
    PROVE  k = c
<1>1. k \in TaskKeys /\ c \in TaskKeys /\ k.gen = c.gen BY DEF Accounted, KeysAreCurrent
<1>2. Group \notin Instruments /\ polled \subseteq Instruments BY BarsAssumption DEF Clocked
<1>3. ASSUME NEW d \in expected, d.role \notin polled, Feeds(d, i)
      PROVE  /\ i \notin polled
             /\ d.role = Group \/ (d.role = i /\ Parent(d) \in expected /\ i \notin worker[Parent(d)].kind)
  <2>1. d \in TaskKeys BY DEF Accounted, KeysAreCurrent
  <2>2. Seated(d, worker[d], polled) /\ worker[d].kind \subseteq worker[d].asked
      BY <2>1 DEF WorkersAreSound, Sound, Shaped, Asking
  <2>3. i \in worker[d].asked BY <1>3, <2>2 DEF Feeds
  <2> QED BY <1>3, <2>2, <2>3 DEF Seated, Accounted, ChildrenAreOwned
<1>4. CASE k.role \in polled
  <2>1. c.role \in polled
    <3>1. SUFFICES ASSUME c.role \notin polled PROVE FALSE OBVIOUS
    <3> QED BY <3>1, <1>3, <1>4 DEF Feeds
  <2> QED BY <2>1, <1>4, <1>1, KeyShape DEF Feeds
<1>5. CASE k.role \notin polled
  <2>1. c.role \notin polled
    <3>1. SUFFICES ASSUME c.role \in polled PROVE FALSE OBVIOUS
    <3> QED BY <3>1, <1>3, <1>5 DEF Feeds
  <2>2. CASE k.role = Group /\ c.role = Group BY <2>2, <1>1, KeyShape
  <2>3. CASE k.role = i /\ c.role = i BY <2>3, <1>1, KeyShape
  <2>4. CASE k.role = Group /\ c.role # Group
    <3>1. Parent(c) = k BY <2>4, <1>1, KeyShape
    <3> QED BY <3>1, <2>1, <2>4, <1>3, <1>5 DEF Feeds
  <2>5. CASE k.role # Group /\ c.role = Group
    <3>1. Parent(k) = c BY <2>5, <1>1, KeyShape
    <3> QED BY <3>1, <2>1, <2>5, <1>3, <1>5 DEF Feeds
  <2> QED BY <2>1, <2>2, <2>3, <2>4, <2>5, <1>3, <1>5
<1> QED BY <1>4, <1>5

-----------------------------------------------------------------------------
\* One worker moves

\* One worker's step leaves the others sound.
LEMMA SoundAfterMove ==
    ASSUME WorkersAreSound, NEW k \in TaskKeys, NEW V, worker' = [worker EXCEPT ![k] = V],
           Sound(k, V, sealed, traded, polled), UNCHANGED <<sealed, traded, polled>>
    PROVE  WorkersAreSound'
<1>1. DOMAIN worker' = TaskKeys /\ worker' = [c \in TaskKeys |-> worker'[c]]
    BY DEF WorkersAreSound
<1>2. ASSUME NEW c \in TaskKeys PROVE Sound(c, worker'[c], sealed, traded, polled)
  <2>1. worker'[c] = IF c = k THEN V ELSE worker[c] BY DEF WorkersAreSound
  <2> QED BY <2>1 DEF WorkersAreSound
<1> QED BY <1>1, <1>2 DEF WorkersAreSound

\* What the account asks of the step of a worker of the snapshot.
Follows(k, W, V) ==
    /\ V.asked = W.asked
    /\ W.pc \in Unborn \/ (V.kind \subseteq W.kind /\ V.pc \notin Unborn)
    /\ AtWork(V) /\ ~V.refused => \/ V.kind = V.asked
                                  \/ AtWork(W) /\ ~W.refused /\ W.kind \subseteq V.kind

\* The account of the keys after one worker's step.
LEMMA AccountAfterMove ==
    ASSUME WorkersAreSound, Clocked, Accounted, NEW k \in TaskKeys, NEW V, worker' = [worker EXCEPT ![k] = V],
           UNCHANGED <<polled, subscribed, online, generation, expected>>,
           nonOp' \subseteq expected, nonOp \subseteq nonOp' \cup {k},
           k \in expected /\ k.role \notin polled =>
               /\ Follows(k, worker[k], V)
               /\ k \notin nonOp' => V.pc = "crashed" \/ (V.ready /\ ~V.refused)
    PROVE  Accounted'
<1>1. \A c \in expected : /\ c \in TaskKeys /\ worker'[c] = (IF c = k THEN V ELSE worker[c])
    BY DEF WorkersAreSound, Accounted, KeysAreCurrent
<1>0. Group \notin polled BY BarsAssumption DEF Clocked
<1>2. KeysAreCurrent' BY DEF Accounted, KeysAreCurrent
<1>3. ChildrenAreOwned'
  <2>1. SUFFICES ASSUME NEW c \in expected, c.role # Group, c.role \notin polled
                 PROVE  /\ Parent(c) \in expected /\ c.role \notin worker'[Parent(c)].kind
                        /\ worker'[Parent(c)].pc \notin Unborn /\ worker'[c].asked = {c.role}
      BY DEF ChildrenAreOwned
  <2>2. /\ Parent(c) \in expected /\ c.role \notin worker[Parent(c)].kind
        /\ worker[Parent(c)].pc \notin Unborn /\ worker[c].asked = {c.role}
      BY <2>1 DEF Accounted, ChildrenAreOwned
  <2>3. worker'[c].asked = {c.role} BY <2>1, <2>2, <1>1 DEF Follows
  <2>4. Parent(c).role = Group BY <2>1, <1>1, KeyShape
  <2>5. CASE k = Parent(c)
    <3>1. worker'[Parent(c)] = V BY <2>2, <2>5, <1>1
    <3>2. Follows(k, worker[k], V) BY <2>2, <2>4, <2>5, <1>0
    <3> QED BY <2>2, <2>3, <2>5, <3>1, <3>2 DEF Follows
  <2>6. CASE k # Parent(c)
    <3>1. worker'[Parent(c)] = worker[Parent(c)] BY <2>2, <2>6, <1>1
    <3> QED BY <2>2, <2>3, <3>1
  <2> QED BY <2>5, <2>6
<1>4. HealthIsEarned' BY <1>1 DEF Accounted, HealthIsEarned
<1>5. AskedIsPlaced' BY <1>1 DEF Accounted, AskedIsPlaced, Follows
<1>6. SubscribedIsAsked'
  <2>1. SUFFICES ASSUME online, NEW i \in subscribed \ polled
                 PROVE  \E c \in expected : c.role = Group /\ i \in worker'[c].asked
      BY DEF SubscribedIsAsked
  <2>2. PICK c \in expected : c.role = Group /\ i \in worker[c].asked
      BY <2>1 DEF Accounted, SubscribedIsAsked
  <2>3. worker'[c].asked = worker[c].asked BY <2>2, <1>0, <1>1 DEF Follows
  <2> QED BY <2>2, <2>3
<1> QED BY <1>2, <1>3, <1>4, <1>5, <1>6 DEF Accounted

\* The cursors after one worker's step that publishes nothing.
LEMMA TightAfterMove ==
    ASSUME WorkersAreSound, Accounted, CursorsAreTight, NEW k \in TaskKeys, NEW V,
           worker' = [worker EXCEPT ![k] = V], UNCHANGED <<polled, expected, watermark, minute>>,
           k \in expected => TightOf(k, V, polled, watermark, minute)
    PROVE  CursorsAreTight'
<1>1. \A c \in expected : worker'[c] = (IF c = k THEN V ELSE worker[c])
    BY DEF WorkersAreSound, Accounted, KeysAreCurrent
<1> QED BY <1>1 DEF CursorsAreTight

\* A step that publishes nothing and lets the clocks alone.
LEMMA WorkerMoves ==
    ASSUME BarsInv, NEW k \in TaskKeys, NEW V, Move(k, V), Sound(k, V, sealed, traded, polled),
           UNCHANGED <<exchange, polled, desired, generation, expected, data>>, ReadyIsMarked',
           nonOp' \subseteq expected, nonOp \subseteq nonOp' \cup {k},
           k \in expected => TightOf(k, V, polled, watermark, minute),
           k \in expected /\ k.role \notin polled =>
               /\ Follows(k, worker[k], V)
               /\ k \notin nonOp' => V.pc = "crashed" \/ (V.ready /\ ~V.refused)
    PROVE  BarsInv'
<1>1. UNCHANGED <<minute, sealed, traded, polled, subscribed, online, generation, expected,
                  watermark, published, base, skipped>>
    BY DEF exchange, desired, data
<1>2. worker' = [worker EXCEPT ![k] = V] BY DEF Move
<1>3. WorkersAreSound' BY <1>1, <1>2, SoundAfterMove DEF BarsInv
<1>4. Accounted' BY <1>1, <1>2, AccountAfterMove DEF BarsInv
<1>5. CursorsAreTight' BY <1>1, <1>2, TightAfterMove DEF BarsInv
<1>6. Clocked' BY <1>1 DEF BarsInv, Clocked
<1>7. Marked' BY <1>1 DEF BarsInv, Marked
<1>8. Delivered' BY <1>1 DEF BarsInv, Delivered, Due, Owed, Sent
<1> QED BY <1>3, <1>4, <1>5, <1>6, <1>7, <1>8 DEF BarsInv

\* What the invariant says of one worker.
LEMMA WorkerFacts ==
    ASSUME BarsInv, NEW k \in TaskKeys
    PROVE  /\ Sound(k, worker[k], sealed, traded, polled) /\ Shaped(worker[k])
           /\ Seated(k, worker[k], polled) /\ Phased(k, worker[k], polled)
           /\ worker[k].ready => worker[k].pc \in {"listening", "holding"}
           /\ k \in expected => TightOf(k, worker[k], polled, watermark, minute)
           /\ k \in expected /\ k.role \notin polled /\ k \notin nonOp =>
                 worker[k].pc = "crashed" \/ (worker[k].ready /\ ~worker[k].refused)
           /\ k.role \notin polled =>
                 /\ k.role = Group => worker[k].asked \cap polled = {}
                 /\ k.role # Group => worker[k].asked \subseteq {k.role}
           /\ worker[k].asked \subseteq Instruments /\ worker[k].kind \subseteq worker[k].asked
           /\ worker[k].cursor \in [Instruments -> 0..MaxMinute]
           /\ nonOp \subseteq expected /\ expected \subseteq TaskKeys
<1>1. Sound(k, worker[k], sealed, traded, polled) BY DEF BarsInv, WorkersAreSound
<1>2. /\ Shaped(worker[k]) /\ Seated(k, worker[k], polled) /\ Phased(k, worker[k], polled)
    BY <1>1 DEF Sound
<1> QED BY <1>1, <1>2
        DEF BarsInv, Accounted, KeysAreCurrent, HealthIsEarned, CursorsAreTight, Seated, Phased, Shaped, Asking

\* A stream worker goes on with its work.
LEMMA WorkGoesOn ==
    ASSUME BarsInv, NEW k \in TaskKeys, NEW V, Move(k, V), Sound(k, V, sealed, traded, polled),
           UNCHANGED <<exchange, polled, desired, generation, expected, data>>, ReadyIsMarked',
           k.role \notin polled, AtWork(worker[k]), AtWork(V),
           V.asked = worker[k].asked, V.kind = worker[k].kind, V.cursor = worker[k].cursor,
           V.refused = worker[k].refused,
           \/ nonOp' = nonOp /\ (worker[k].ready => V.ready)
           \/ Down(k)
           \/ Up(k) /\ V.ready /\ ~V.refused
    PROVE  BarsInv'
<1>1. nonOp' \subseteq expected /\ nonOp \subseteq nonOp' \cup {k}
    BY DEF BarsInv, Accounted, KeysAreCurrent, Down, Up, Current
<1>2. k \in expected => TightOf(k, V, polled, watermark, minute) BY WorkerFacts DEF TightOf
<1>3. Follows(k, worker[k], V) BY DEF Follows, AtWork, Unborn
<1>4. k \in expected /\ k \notin nonOp' => V.pc = "crashed" \/ (V.ready /\ ~V.refused)
  <2>1. SUFFICES ASSUME k \in expected, k \notin nonOp', nonOp' = nonOp, worker[k].ready => V.ready
                 PROVE  V.ready /\ ~V.refused
      BY DEF Down, Current
  <2>2. worker[k].pc # "crashed" BY DEF AtWork
  <2> QED BY <2>1, <2>2, WorkerFacts
<1> QED BY <1>1, <1>2, <1>3, <1>4, WorkerMoves

\* A readiness that is shown as Ready is covered by the watermark.
LEMMA ShownIsMarked ==
    ASSUME ReadyIsMarked, NEW k, NEW is, NEW shown, NEW t, Show(k, is, shown, t),
           \A i \in Instruments : watermark[i] \in Nat /\ watermark'[i] \in Nat /\ watermark[i] <= watermark'[i],
           shown = "Ready" /\ Current(ReadinessKey(k)) =>
               \A i \in is \cap Instruments : t \in 0..MaxMinute /\ t <= watermark'[i]
    PROVE  ReadyIsMarked'
<1>1. DOMAIN readiness' = Instruments BY DEF Show, ReadyIsMarked
<1>2. ASSUME NEW i \in Instruments, readiness'[i].state = "Ready"
      PROVE  readiness'[i].through \in 0..MaxMinute /\ readiness'[i].through <= watermark'[i]
  <2>1. CASE readiness'[i] = readiness[i]
    <3>1. readiness[i].through \in 0..MaxMinute /\ readiness[i].through <= watermark[i]
        BY <1>2, <2>1 DEF ReadyIsMarked
    <3>2. PICK r : r = readiness[i].through OBVIOUS
    <3> QED BY ONLY <2>1, <3>1, <3>2, BarsAssumption, i \in Instruments,
         \A j \in Instruments : watermark[j] \in Nat /\ watermark'[j] \in Nat /\ watermark[j] <= watermark'[j]
  <2>2. CASE Current(ReadinessKey(k)) /\ i \in is /\ readiness'[i] = [state |-> shown, through |-> t]
      BY <1>2, <2>2
  <2> QED BY <2>1, <2>2 DEF Show
<1> QED BY <1>1, <1>2 DEF ReadyIsMarked

\* What the invariant says of clock and watermarks.
LEMMA MarksAreNumbers ==
    ASSUME BarsInv
    PROVE  /\ \A i \in Instruments : /\ watermark[i] \in Nat /\ watermark[i] \in 0..MaxMinute
                                     /\ watermark[i] <= watermark[i]
           /\ UNCHANGED watermark => \A i \in Instruments :
                 watermark[i] \in Nat /\ watermark'[i] \in Nat /\ watermark[i] <= watermark'[i]
           /\ UNCHANGED <<watermark, readiness>> => ReadyIsMarked'
           /\ minute \in Nat /\ minute \in 0..MaxMinute /\ minute \in Minutes
           /\ sealed \in Nat /\ sealed \in Minutes /\ sealed <= minute
           /\ Traded(sealed, traded) /\ Group \notin polled
<1>1. \A i \in Instruments : watermark[i] \in 0..MaxMinute BY DEF BarsInv, Marked
<1>2. /\ minute \in Minutes /\ sealed <= minute /\ Traded(sealed, traded) /\ polled \subseteq Instruments
    BY DEF BarsInv, Clocked
<1>3. ReadyIsMarked BY DEF BarsInv
<1> QED BY <1>1, <1>2, <1>3, BarsAssumption DEF Minutes, Traded, ReadyIsMarked

-----------------------------------------------------------------------------
\* The actions that publish nothing

\* A step that publishes and shows nothing.
LEMMA NothingShown ==
    ASSUME BarsInv, UNCHANGED <<data, readiness>> PROVE ReadyIsMarked'
BY MarksAreNumbers DEF data

LEMMA AcknowledgeKeepsInv ==
    ASSUME BarsInv, NEW k \in TaskKeys, Acknowledge(k) PROVE BarsInv'
<1> DEFINE W == worker[k]
           V == Answered(W)
<1>1. W.answer # <<>> /\ Move(k, V) BY DEF Acknowledge, Move, Answered
<1>2. UNCHANGED <<exchange, polled, desired, generation, expected, nonOp, data, readiness>>
    BY DEF Acknowledge, health
<1>3. ReadyIsMarked' BY <1>2, NothingShown
<1>4. k.role \notin polled /\ AtWork(W)
    BY <1>1, WorkerFacts DEF Phased, Waiting, Accepted, AtWork
<1>5. Sound(k, W, sealed, traded, polled) BY WorkerFacts
<1> HIDE DEF V
<1>6. /\ Sound(k, V, sealed, traded, polled) /\ V.pc = W.pc
      /\ V.asked = W.asked /\ V.kind = W.kind /\ V.cursor = W.cursor
      /\ V.ready = W.ready /\ V.refused = W.refused
    BY <1>1, <1>5, AnsweredIsSound DEF V
<1>7. AtWork(V) BY <1>4, <1>6 DEF AtWork
<1> QED BY <1>1, <1>2, <1>3, <1>4, <1>6, <1>7, WorkGoesOn

LEMMA BeginKeepsInv ==
    ASSUME BarsInv, NEW k \in TaskKeys, Begin(k) PROVE BarsInv'
<1> DEFINE W == worker[k]
           c == [i \in Instruments |-> IF i \in W.asked THEN watermark[i] ELSE 0]
           V == Begun(W.asked, c)
<1>1. W.pc \in {"starting", "restarting"} /\ Move(k, V) BY DEF Begin, Begun
<1>2. UNCHANGED <<exchange, polled, desired, generation, expected, nonOp, data, readiness>>
    BY DEF Begin, health
<1>3. ReadyIsMarked' BY <1>2, NothingShown
<1>5. k.role \notin polled /\ ~W.ready BY <1>1, WorkerFacts DEF Seated
<1>6. c \in [Instruments -> 0..MaxMinute] BY MarksAreNumbers, BarsAssumption
<1>7. W.asked \subseteq Instruments /\ (k.role = Group => W.asked \cap polled = {})
      /\ (k.role # Group => W.asked \subseteq {k.role})
    BY <1>5, WorkerFacts
<1>8. \A i \in W.asked : c[i] = watermark[i] BY <1>7
<1> HIDE DEF c, V
<1>9. /\ Sound(k, V, sealed, traded, polled)
      /\ V.pc = "opening" /\ V.asked = W.asked /\ V.kind = W.asked /\ V.cursor = c
      /\ ~V.ready /\ ~V.refused
    BY <1>5, <1>6, <1>7, BegunIsSound DEF V
<1>11. TightOf(k, V, polled, watermark, minute) BY <1>5, <1>8, <1>9 DEF TightOf
<1>12. Follows(k, W, V) BY <1>1, <1>9 DEF Follows, Unborn
<1>13. k \in expected => k \in nonOp BY <1>1, <1>5, WorkerFacts
<1>14. nonOp' \subseteq expected /\ nonOp \subseteq nonOp' \cup {k} BY <1>2, WorkerFacts
<1>15. k \in expected => k \in nonOp' BY <1>13, <1>2
<1> QED BY <1>1, <1>2, <1>3, <1>9, <1>11, <1>12, <1>14, <1>15, WorkerMoves

LEMMA OpenKeepsInv ==
    ASSUME BarsInv, NEW k \in TaskKeys, Open(k) PROVE BarsInv'
<1> DEFINE W == worker[k]
<1>1. UNCHANGED <<exchange, polled, desired, generation, expected, nonOp, data, readiness>>
    BY DEF Open, health
<1>2. ReadyIsMarked' BY <1>1, NothingShown
<1>3. W.pc = "opening" BY DEF Open
<1>4. k.role \notin polled BY <1>3, WorkerFacts DEF Seated
<1>5. PICK no \in SUBSET W.kind, never \in SUBSET W.kind : Move(k, Opened(W, no, never))
    BY DEF Open, Opened
<1>6. PICK V : V = Opened(W, no, never) OBVIOUS
<1>7. Sound(k, W, sealed, traded, polled) BY WorkerFacts
<1>8. /\ Sound(k, V, sealed, traded, polled) /\ V.pc = "listening"
      /\ V.asked = W.asked /\ V.kind = W.kind /\ V.cursor = W.cursor
      /\ ~V.ready /\ ~W.ready /\ V.refused = W.refused
    BY <1>3, <1>4, <1>6, <1>7, OpenedIsSound
<1>9. AtWork(W) /\ AtWork(V) BY <1>3, <1>8 DEF AtWork
<1>10. Move(k, V) BY <1>5, <1>6
<1> QED BY <1>1, <1>2, <1>4, <1>8, <1>9, <1>10, WorkGoesOn

\* What a worker keeps when everything in flight is dropped.
LEMMA BackoffFacts ==
    ASSUME BarsInv, NEW k \in TaskKeys, k.role \notin polled
    PROVE  LET V == Backoff(worker[k]) IN
           /\ Sound(k, V, sealed, traded, polled) /\ V.pc = "backoff"
           /\ V.asked = worker[k].asked /\ V.kind = worker[k].kind /\ V.cursor = worker[k].cursor
           /\ ~V.ready /\ V.refused = worker[k].refused
<1> DEFINE W == worker[k]
<1>1. /\ Labelled(W) /\ W.asked \subseteq Instruments /\ W.kind \subseteq W.asked
      /\ W.cursor \in [Instruments -> 0..MaxMinute]
      /\ k.role = Group => W.asked \cap polled = {}
      /\ k.role # Group => W.asked \subseteq {k.role}
    BY WorkerFacts DEF Shaped
<1> HIDE DEF W
<1>2. PICK V : V = Backoff(W) OBVIOUS
<1>3. /\ Sound(k, V, sealed, traded, polled) /\ V.pc = "backoff"
      /\ V.asked = W.asked /\ V.kind = W.kind /\ V.cursor = W.cursor
      /\ ~V.ready /\ V.refused = W.refused
    BY <1>1, <1>2, BackoffIsSound
<1> QED BY <1>2, <1>3 DEF W

LEMMA InterruptedKeepsInv ==
    ASSUME BarsInv, NEW k \in TaskKeys, Interrupted(k) PROVE BarsInv'
<1> DEFINE W == worker[k]
           V == Backoff(W)
<1>1. UNCHANGED <<exchange, polled, desired, generation, expected, data, readiness>> /\ Down(k)
      /\ Move(k, V) /\ W.pc \in {"opening", "listening"}
    BY DEF Interrupted
<1>2. ReadyIsMarked' BY <1>1, NothingShown
<1>3. k.role \notin polled BY <1>1, WorkerFacts DEF Seated
<1> HIDE DEF V
<1>4. /\ Sound(k, V, sealed, traded, polled)
      /\ V.pc = "backoff" /\ V.asked = W.asked /\ V.kind = W.kind /\ V.cursor = W.cursor
      /\ ~V.ready /\ V.refused = W.refused
    BY <1>3, BackoffFacts DEF V
<1>5. AtWork(W) /\ AtWork(V) BY <1>1, <1>4 DEF AtWork
<1> QED BY <1>1, <1>2, <1>3, <1>4, <1>5, WorkGoesOn

\* The stream is opened again, or history is probed first on the closed one.
LEMMA ReopenKeepsInv ==
    ASSUME BarsInv, NEW k \in TaskKeys, Reopen(k) PROVE BarsInv'
<1> DEFINE W == worker[k]
           J == {i \in W.jobs \cup W.kind : W.cursor[i] # 0 /\ W.cursor[i] < minute}
<1>1. UNCHANGED <<exchange, polled, desired, generation, expected, nonOp, data, readiness>>
      /\ W.pc = "backoff"
    BY DEF Reopen, health
<1>2. ReadyIsMarked' BY <1>1, NothingShown
<1>3. k.role \notin polled BY <1>1, WorkerFacts DEF Seated
<1>4. PICK V : /\ Move(k, V)
               /\ V = Relabelled(W, "opening") \/ V = Probing(W, minute, J)
    BY DEF Reopen, Relabelled, Probing
<1>5. J \subseteq {i \in W.kind : W.cursor[i] # 0} BY WorkerFacts DEF Shaped, Asking
<1>6. Sound(k, W, sealed, traded, polled) /\ minute \in 0..MaxMinute
    BY WorkerFacts, MarksAreNumbers
<1> HIDE DEF J
<1>7. /\ Sound(k, V, sealed, traded, polled) /\ V.pc \in {"opening", "recovering"}
      /\ V.asked = W.asked /\ V.kind = W.kind /\ V.cursor = W.cursor
      /\ ~V.ready /\ ~W.ready /\ V.refused = W.refused
  <2>1. CASE V = Relabelled(W, "opening")
      BY <1>1, <1>3, <1>6, <2>1, QuietMove
  <2>2. CASE V = Probing(W, minute, J)
      BY <1>1, <1>3, <1>5, <1>6, <2>2, ProbeIsSound
  <2> QED BY <1>4, <2>1, <2>2
<1>8. AtWork(W) /\ AtWork(V) BY <1>1, <1>7 DEF AtWork
<1> QED BY <1>1, <1>2, <1>3, <1>4, <1>7, <1>8, WorkGoesOn

\* A message is taken from the buffer or from the wire.
LEMMA ReceiveKeepsInv ==
    ASSUME BarsInv, NEW k \in TaskKeys, Receive(k) PROVE BarsInv'
<1> DEFINE W == worker[k]
<1>1. UNCHANGED <<exchange, polled, desired, generation, expected, nonOp, data, readiness>>
      /\ W.pc = "listening"
    BY DEF Receive, health
<1>2. ReadyIsMarked' BY <1>1, NothingShown
<1>3. k.role \notin polled BY <1>1, WorkerFacts DEF Seated
<1>4. PICK V : /\ Move(k, V)
               /\ \/ W.ready /\ W.buffer # <<>> /\ V = Unbuffered(W)
                  \/ (W.ready => W.buffer = <<>>) /\ W.wire # <<>> /\ V = Received(W)
    BY DEF Receive, Unbuffered, Received
<1>5. Sound(k, W, sealed, traded, polled) BY WorkerFacts
<1>6. /\ Sound(k, V, sealed, traded, polled) /\ V.pc \in {"holding", "judging"}
      /\ V.asked = W.asked /\ V.kind = W.kind /\ V.cursor = W.cursor
      /\ (W.ready => V.ready) /\ V.refused = W.refused
  <2>1. CASE W.ready /\ W.buffer # <<>> /\ V = Unbuffered(W)
      BY <1>1, <1>3, <1>5, <2>1, UnbufferedIsSound
  <2>2. CASE (W.ready => W.buffer = <<>>) /\ W.wire # <<>> /\ V = Received(W)
    <3>1. /\ Sound(k, V, sealed, traded, polled) /\ V.pc \in {"holding", "judging"}
          /\ V.asked = W.asked /\ V.kind = W.kind /\ V.cursor = W.cursor
          /\ V.ready = W.ready /\ V.refused = W.refused
      <4>1. PICK X : X = W OBVIOUS
      <4>2. /\ Sound(k, X, sealed, traded, polled) /\ k.role \notin polled /\ X.pc = "listening"
            /\ X.ready => X.buffer = <<>>
            /\ X.wire # <<>> /\ V = Received(X)
          BY <1>1, <1>3, <1>5, <2>2, <4>1
      <4>3. /\ Sound(k, V, sealed, traded, polled) /\ V.pc \in {"holding", "judging"}
            /\ V.asked = X.asked /\ V.kind = X.kind /\ V.cursor = X.cursor
            /\ V.ready = X.ready /\ V.refused = X.refused
          BY ONLY <4>2, ReceivedIsSound
      <4> QED BY <4>1, <4>3
    <3> QED BY <3>1
  <2> QED BY <1>4, <2>1, <2>2
<1>7. AtWork(W) /\ AtWork(V) BY <1>1, <1>6 DEF AtWork
<1> QED BY <1>1, <1>2, <1>3, <1>4, <1>6, <1>7, WorkGoesOn

LEMMA SupersededKeepsInv ==
    ASSUME BarsInv, NEW k \in TaskKeys, Superseded(k) PROVE BarsInv'
<1>1. UNCHANGED <<exchange, polled, desired, generation, expected, nonOp, data, readiness>>
      /\ Move(k, Idle) /\ k \notin expected
    BY DEF Superseded, health, Current
<1>2. ReadyIsMarked' BY <1>1, NothingShown
<1>3. Sound(k, Idle, sealed, traded, polled) BY IdleIsSound
<1>4. nonOp' \subseteq expected /\ nonOp \subseteq nonOp' \cup {k} BY <1>1, WorkerFacts
<1> QED BY <1>1, <1>2, <1>3, <1>4, WorkerMoves

\* A candle before the acknowledgement waits, unless the buffer is full.
LEMMA HoldKeepsInv ==
    ASSUME BarsInv, NEW k \in TaskKeys, Hold(k) PROVE BarsInv'
<1> DEFINE W == worker[k]
           usable == W.hand[1].instrument \in W.kind
<1>1. UNCHANGED <<exchange, polled, desired, generation, expected, data, readiness>>
      /\ W.pc = "holding" /\ ~W.ready
    BY DEF Hold
<1>2. ReadyIsMarked' BY <1>1, NothingShown
<1>3. k.role \notin polled BY <1>1, WorkerFacts DEF Seated
<1>4. Sound(k, W, sealed, traded, polled) BY WorkerFacts
<1>5. PICK V : /\ Move(k, V)
               /\ \/ V = Backoff(W) /\ Down(k)
                  \/ usable /\ ~(Len(W.buffer) >= MaxBuffer) /\ V = Buffered(W) /\ UNCHANGED nonOp
                  \/ ~usable /\ V = [W EXCEPT !.pc = "listening", !.hand = <<>>, !.buffer = W.buffer]
                     /\ UNCHANGED nonOp
    BY DEF Hold, Buffered
<1>6. [W EXCEPT !.pc = "listening", !.hand = <<>>, !.buffer = W.buffer] = Dropped(W)
    BY WorkerFacts DEF Dropped, Shaped, Labelled, Fields
<1>7. ~(Len(W.buffer) >= MaxBuffer) => Len(W.buffer) < MaxBuffer
  <2>1. Len(W.buffer) \in Nat /\ MaxBuffer \in Nat
      BY WorkerFacts, BarsAssumption DEF Shaped, Queued
  <2> QED BY <2>1
<1>8. /\ Sound(k, V, sealed, traded, polled) /\ V.pc \in {"listening", "backoff"}
      /\ V.asked = W.asked /\ V.kind = W.kind /\ V.cursor = W.cursor
      /\ ~V.ready /\ V.refused = W.refused
  <2>1. CASE V = Backoff(W) BY <1>3, <2>1, BackoffFacts
  <2>2. CASE usable /\ Len(W.buffer) < MaxBuffer /\ V = Buffered(W)
      BY <1>1, <1>4, <2>2, BufferedIsSound
  <2>3. CASE ~usable /\ V = Dropped(W) BY <1>1, <1>4, <2>3, DroppedIsSound
  <2> QED BY <1>5, <1>6, <1>7, <2>1, <2>2, <2>3
<1>9. AtWork(W) /\ AtWork(V) BY <1>1, <1>8 DEF AtWork
<1>10. Down(k) \/ nonOp' = nonOp BY <1>5
<1> QED BY <1>1, <1>2, <1>3, <1>5, <1>8, <1>9, <1>10, WorkGoesOn

\* GetCandles answers with every complete bar of the range, and says which are late.
LEMMA RangesAreRight ==
    ASSUME BarsInv, NEW i \in Instruments, NEW from, NEW to \in 0..MaxMinute,
           NEW R, R = GetCandles(i, from, to), NEW V, V.cursor[i] = from, V.upto = to
    PROVE  R \in Ranges /\ R.instrument = i /\ RangeIs(V, i, R, sealed, traded)
<1>1. to \in Nat /\ \A m \in 1..to : m \in Minutes BY BarsAssumption DEF Minutes
<1>2. R \in Ranges /\ R.instrument = i BY <1>1 DEF GetCandles, Ranges
<1>3. /\ R.bars = {m \in 1..to : <<i, m>> \in traded /\ from < m}
      /\ R.late = {m \in 1..to : sealed < m} BY DEF GetCandles
<1>4. RangeIs(V, i, R, sealed, traded)
  <2>1. ASSUME NEW m \in R.bars PROVE from < m /\ m <= to BY <2>1, <1>1, <1>3
  <2>2. ASSUME NEW m \in 1..to
        PROVE  /\ <<i, m>> \in traded /\ m > from => m \in R.bars \cup R.late
               /\ sealed < m => m \in R.late
      BY <2>2, <1>3
  <2> QED BY <2>1, <2>2 DEF RangeIs
<1> QED BY <1>2, <1>4

\* Every instrument is accepted and the gap behind each is recovered.
LEMMA AcceptAllKeepsInv ==
    ASSUME BarsInv, NEW k \in TaskKeys, AcceptAll(k) PROVE BarsInv'
<1> DEFINE W == worker[k]
           J == {i \in W.kind : W.pending /\ W.cursor[i] # 0 /\ W.cursor[i] < minute}
           V == CaughtUp(W, W.kind, J, minute)
<1>1. /\ UNCHANGED <<exchange, polled, desired, generation, expected, nonOp, data>>
      /\ W.pc = "judging" /\ k \in expected
      /\ W.kind \cap (W.hand[1].retry \cup W.hand[1].never) = {}
      /\ Show(k, Level(W, W.kind), "Ready", minute)
      /\ Move(k, V)
    BY DEF AcceptAll, health, Current, CatchUp, Behind, CaughtUp
<1>2. k.role \notin polled BY <1>1, WorkerFacts DEF Seated
<1>3. UNCHANGED watermark BY <1>1 DEF data
<1>4. ReadyIsMarked'
  <2>1. ReadyIsMarked BY DEF BarsInv
  <2>2. TightOf(k, W, polled, watermark, minute) BY <1>1, WorkerFacts
  <2>3. ASSUME NEW i \in Level(W, W.kind) \cap Instruments
        PROVE  minute \in 0..MaxMinute /\ minute <= watermark'[i]
    <3>1. i \in W.kind /\ W.cursor[i] >= minute BY DEF Level
    <3>2. W.cursor[i] = watermark[i] BY <1>2, <2>2, <3>1 DEF TightOf
    <3> QED BY <1>3, <3>1, <3>2, MarksAreNumbers
  <2>4. \A i \in Instruments : watermark[i] \in Nat /\ watermark'[i] \in Nat /\ watermark[i] <= watermark'[i]
      BY <1>3, MarksAreNumbers
  <2>5. Show(k, Level(W, W.kind), "Ready", minute) BY <1>1
  <2> QED BY ONLY <2>1, <2>3, <2>4, <2>5, ShownIsMarked
<1>5. Sound(k, W, sealed, traded, polled) BY WorkerFacts
<1>6. W.kind = W.kind \ (W.hand[1].retry \cup W.hand[1].never) BY <1>1
<1>7. /\ Traded(sealed, traded) /\ minute \in 0..MaxMinute /\ sealed <= minute
    BY MarksAreNumbers
<1>0. PICK is : is = W.kind OBVIOUS
<1> HIDE DEF V
<1>8. /\ Sound(k, V, sealed, traded, polled) /\ V.pc = "recovering"
      /\ V.asked = W.asked /\ V.kind = W.kind /\ V.cursor = W.cursor
      /\ ~V.ready /\ ~W.ready /\ V.refused = W.refused
    BY <1>1, <1>2, <1>5, <1>6, <1>7, CaughtUpIsSound DEF V
<1>9. AtWork(W) /\ AtWork(V) BY <1>1, <1>8 DEF AtWork
<1> QED BY <1>1, <1>2, <1>4, <1>8, <1>9, WorkGoesOn

\* A step that publishes nothing and shows another state than Ready.
LEMMA ShownOther ==
    ASSUME BarsInv, NEW k, NEW is, NEW shown, NEW t, Show(k, is, shown, t), shown # "Ready", UNCHANGED data
    PROVE  ReadyIsMarked'
<1>1. UNCHANGED watermark BY DEF data
<1>2. \A i \in Instruments : watermark[i] \in Nat /\ watermark'[i] \in Nat /\ watermark[i] <= watermark'[i]
    BY <1>1, MarksAreNumbers
<1>3. ReadyIsMarked BY DEF BarsInv
<1> QED BY <1>2, <1>3, ShownIsMarked

\* None is accepted, and the ones not refused for good are asked again.
LEMMA RefuseAllKeepsInv ==
    ASSUME BarsInv, NEW k \in TaskKeys, RefuseAll(k) PROVE BarsInv'
<1> DEFINE W == worker[k]
           never == W.hand[1].never
           U == [W EXCEPT !.kind = @ \ never, !.refused = @ \/ never # {}]
           V == Backoff(U)
<1>1. /\ UNCHANGED <<exchange, polled, desired, generation, expected, data>>
      /\ W.pc = "judging" /\ Down(k) /\ Show(k, never, "Failed", 0) /\ Move(k, V)
    BY DEF RefuseAll
<1>2. k.role \notin polled BY <1>1, WorkerFacts DEF Seated
<1>3. ReadyIsMarked' BY <1>1, ShownOther
<1>4. /\ Labelled(W) /\ W.asked \subseteq Instruments /\ W.kind \subseteq W.asked
      /\ W.cursor \in [Instruments -> 0..MaxMinute]
      /\ k.role = Group => W.asked \cap polled = {}
      /\ k.role # Group => W.asked \subseteq {k.role}
    BY <1>2, WorkerFacts DEF Shaped
<1> HIDE DEF W, never
<1>5. /\ DOMAIN U = Fields /\ U.pc = W.pc /\ U.asked = W.asked /\ U.kind = W.kind \ never
      /\ U.cursor = W.cursor /\ U.pending = W.pending /\ U.ready = W.ready
      /\ U.refused = (W.refused \/ never # {}) /\ U.feed = W.feed /\ U.answer = W.answer
      /\ U.wire = W.wire /\ U.buffer = W.buffer /\ U.hand = W.hand /\ U.jobs = W.jobs
      /\ U.upto = W.upto /\ U.failed = W.failed /\ U.probe = W.probe
    BY <1>4 DEF Labelled, Fields
<1>6. /\ Labelled(U) /\ U.asked \subseteq Instruments /\ U.kind \subseteq U.asked
      /\ U.cursor \in [Instruments -> 0..MaxMinute]
      /\ k.role = Group => U.asked \cap polled = {}
      /\ k.role # Group => U.asked \subseteq {k.role}
  <2>1. Labelled(U) BY <1>4, <1>5 DEF Labelled
  <2> QED BY <1>4, <1>5, <2>1
<1> HIDE DEF U, V
<1>7. /\ Sound(k, V, sealed, traded, polled)
      /\ V.pc = "backoff" /\ V.asked = U.asked /\ V.kind = U.kind /\ V.cursor = U.cursor
      /\ ~V.ready /\ V.refused = U.refused
    BY <1>2, <1>6, BackoffIsSound DEF V
<1>8. Follows(k, W, V)
  <2>1. V.asked = W.asked /\ V.kind \subseteq W.kind /\ V.pc \notin Unborn
      BY <1>5, <1>7 DEF Unborn
  <2>2. ASSUME ~V.refused PROVE ~W.refused /\ W.kind \subseteq V.kind BY <1>5, <1>7, <2>2
  <2>3. AtWork(W) BY <1>1 DEF AtWork
  <2> QED BY <2>1, <2>2, <2>3 DEF Follows
<1>9. k \in expected => TightOf(k, V, polled, watermark, minute)
  <2>1. k \in expected => TightOf(k, W, polled, watermark, minute) BY WorkerFacts DEF W
  <2> QED BY <2>1, <1>2, <1>5, <1>7 DEF TightOf
<1>10. nonOp' \subseteq expected /\ nonOp \subseteq nonOp' \cup {k} /\ (k \in expected => k \in nonOp')
    BY <1>1, WorkerFacts DEF Down, Current
<1> QED BY <1>1, <1>3, <1>7, <1>8, <1>9, <1>10, WorkerMoves DEF W

LEMMA FetchKeepsInv ==
    ASSUME BarsInv, NEW k \in TaskKeys, Fetch(k) PROVE BarsInv'
<1> DEFINE W == worker[k]
<1>1. /\ UNCHANGED <<exchange, polled, desired, generation, expected, nonOp, data>>
      /\ W.pc = "recovering"
    BY DEF Fetch, health
<1>2. PICK i \in W.jobs : /\ Move(k, Returned(W, GetCandles(i, W.cursor[i], W.upto)))
                          /\ Show(k, {i}, "Recovering", 0)
    BY DEF Fetch, Returned
<1>3. k.role \notin polled BY <1>1, WorkerFacts DEF Seated
<1>4. ReadyIsMarked' BY <1>1, <1>2, ShownOther
<1>5. Sound(k, W, sealed, traded, polled) /\ W.upto \in 0..MaxMinute /\ i \in Instruments
    BY WorkerFacts DEF Shaped, Asking
<1>6. PICK R : R = GetCandles(i, W.cursor[i], W.upto) OBVIOUS
<1>7. R \in Ranges /\ R.instrument = i /\ RangeIs(W, i, R, sealed, traded)
    BY <1>5, <1>6, RangesAreRight
<1>8. PICK V : V = Returned(W, R) OBVIOUS
<1>9. /\ Sound(k, V, sealed, traded, polled) /\ V.pc = "fetched"
      /\ V.asked = W.asked /\ V.kind = W.kind /\ V.cursor = W.cursor
      /\ ~V.ready /\ ~W.ready /\ V.refused = W.refused
  <2>1. R.instrument \in W.jobs /\ RangeIs(W, R.instrument, R, sealed, traded) BY <1>7
  <2> QED BY <1>1, <1>3, <1>5, <1>7, <1>8, <2>1, FetchedIsSound
<1>10. AtWork(W) /\ AtWork(V) BY <1>1, <1>9 DEF AtWork
<1>11. Move(k, V) BY <1>2, <1>6, <1>8
<1> QED BY <1>1, <1>3, <1>4, <1>9, <1>10, <1>11, WorkGoesOn

LEMMA FetchFailsKeepsInv ==
    ASSUME BarsInv, NEW k \in TaskKeys, FetchFails(k) PROVE BarsInv'
<1> DEFINE W == worker[k]
<1>1. /\ UNCHANGED <<exchange, polled, desired, generation, expected, nonOp, data>>
      /\ W.pc = "recovering"
    BY DEF FetchFails, health
<1>2. PICK i \in W.jobs : Move(k, FailedOn(W, i)) /\ Show(k, {i}, "Failed", 0)
    BY DEF FetchFails, FailedOn
<1>3. k.role \notin polled BY <1>1, WorkerFacts DEF Seated
<1>4. ReadyIsMarked' BY <1>1, <1>2, ShownOther
<1>5. Sound(k, W, sealed, traded, polled) BY WorkerFacts
<1>6. PICK V : V = FailedOn(W, i) OBVIOUS
<1>7. /\ Sound(k, V, sealed, traded, polled) /\ V.pc = "recovering"
      /\ V.asked = W.asked /\ V.kind = W.kind /\ V.cursor = W.cursor
      /\ ~V.ready /\ ~W.ready /\ V.refused = W.refused
    BY <1>1, <1>3, <1>5, <1>6, FailedIsSound
<1>8. AtWork(W) /\ AtWork(V) BY <1>1, <1>7 DEF AtWork
<1>9. Move(k, V) BY <1>2, <1>6
<1> QED BY <1>1, <1>3, <1>4, <1>7, <1>8, <1>9, WorkGoesOn

\* Recovery ends in a probe's reopening, in another backoff or in readiness.
LEMMA RecoveredKeepsInv ==
    ASSUME BarsInv, NEW k \in TaskKeys, Recovered(k) PROVE BarsInv'
<1> DEFINE W == worker[k]
<1>1. /\ UNCHANGED <<exchange, polled, desired, generation, expected, data, readiness>>
      /\ W.pc = "recovering" /\ W.jobs = {}
    BY DEF Recovered
<1>2. ReadyIsMarked' BY <1>1, NothingShown
<1>3. k.role \notin polled BY <1>1, WorkerFacts DEF Seated
<1>4. PICK V : /\ Move(k, V)
               /\ \/ V = Probed(W) /\ UNCHANGED nonOp
                  \/ V = Backoff(W) /\ Down(k)
                  \/ /\ ~W.probe /\ ~W.failed /\ V = Readied(W)
                     /\ IF W.refused THEN UNCHANGED nonOp ELSE Up(k)
    BY DEF Recovered, Probed, Readied
<1>5. Sound(k, W, sealed, traded, polled) /\ ~W.ready BY <1>1, WorkerFacts
<1>6. /\ Sound(k, V, sealed, traded, polled) /\ V.pc \in {"opening", "backoff", "listening"}
      /\ V.asked = W.asked /\ V.kind = W.kind /\ V.cursor = W.cursor
      /\ V.refused = W.refused
      /\ nonOp' = nonOp \/ Down(k) \/ (Up(k) /\ V.ready /\ ~V.refused)
  <2>1. CASE V = Probed(W) /\ UNCHANGED nonOp BY <1>3, <1>5, <2>1, ProbedIsSound
  <2>2. CASE V = Backoff(W) /\ Down(k) BY <1>3, <2>2, BackoffFacts
  <2>3. CASE /\ ~W.probe /\ ~W.failed /\ V = Readied(W)
             /\ IF W.refused THEN UNCHANGED nonOp ELSE Up(k)
    <3>1. /\ Sound(k, V, sealed, traded, polled) /\ V.pc = "listening"
          /\ V.asked = W.asked /\ V.kind = W.kind /\ V.cursor = W.cursor
          /\ V.ready /\ V.refused = W.refused
        BY <1>1, <1>3, <1>5, <2>3, ReadyIsSound
    <3> QED BY <2>3, <3>1
  <2> QED BY <1>4, <2>1, <2>2, <2>3
<1>7. AtWork(W) /\ AtWork(V) BY <1>1, <1>6 DEF AtWork
<1> QED BY <1>1, <1>2, <1>3, <1>4, <1>5, <1>6, <1>7, WorkGoesOn

LEMMA NoticePanicKeepsInv ==
    ASSUME BarsInv, NEW k \in TaskKeys, NoticePanic(k) PROVE BarsInv'
<1> DEFINE W == worker[k]
           V == Relabelled(W, "restarting")
<1>1. /\ UNCHANGED <<exchange, polled, desired, generation, expected, data, readiness>>
      /\ W.pc = "crashed" /\ Down(k) /\ Move(k, V)
    BY DEF NoticePanic, Relabelled
<1>2. ReadyIsMarked' BY <1>1, NothingShown
<1>3. k.role \notin polled BY <1>1, WorkerFacts DEF Seated
<1>4. Sound(k, W, sealed, traded, polled) BY WorkerFacts
<1> HIDE DEF V
<1>5. /\ Sound(k, V, sealed, traded, polled) /\ V.pc = "restarting"
      /\ V.kind = W.kind /\ V.asked = W.asked /\ V.cursor = W.cursor
    BY <1>1, <1>3, <1>4, QuietMove DEF V
<1>6. Follows(k, W, V) BY <1>1, <1>5 DEF Follows, Unborn, AtWork
<1>7. k \in expected => TightOf(k, V, polled, watermark, minute) BY <1>5, <1>3, WorkerFacts DEF TightOf
<1>8. nonOp' \subseteq expected /\ nonOp \subseteq nonOp' \cup {k} /\ (k \in expected => k \in nonOp')
    BY <1>1, WorkerFacts DEF Down, Current
<1> QED BY <1>1, <1>2, <1>5, <1>6, <1>7, <1>8, WorkerMoves

-----------------------------------------------------------------------------
\* The actions that publish bars

Rising(q) == \A x, y \in DOMAIN q : x < y => q[x] < q[y]
Upto(q, n) == \A x \in DOMAIN q : q[x] <= n
Past(q, n) == \A x \in DOMAIN q : n < q[x]
Among(q, m) == \E x \in DOMAIN q : q[x] = m

\* Later bars are put behind the earlier ones.
LEMMA RisingOn ==
    ASSUME NEW q \in Seq(Minutes), NEW r \in Seq(Minutes), NEW c \in Nat, NEW n \in Nat, c <= n,
           Rising(q), Rising(r), Upto(q, c), Past(r, c), Upto(r, n), NEW b, b = q \o r
    PROVE  /\ b \in Seq(Minutes) /\ Rising(b) /\ Upto(b, n)
           /\ \A m : Among(b, m) <=> Among(q, m) \/ Among(r, m)
<1>1. /\ b \in Seq(Minutes) /\ Len(b) = Len(q) + Len(r) /\ Len(q) \in Nat /\ Len(r) \in Nat
      /\ DOMAIN b = 1..Len(b) /\ DOMAIN q = 1..Len(q) /\ DOMAIN r = 1..Len(r)
    OBVIOUS
<1>2. \A x \in 1..Len(q) : x \in 1..Len(b) /\ b[x] = q[x] BY <1>1
<1>3. \A y \in 1..Len(r) : Len(q) + y \in 1..Len(b) /\ b[Len(q) + y] = r[y] BY <1>1
<1>4. ASSUME NEW x \in 1..Len(b)
      PROVE  x \in 1..Len(q) \/ (x - Len(q) \in 1..Len(r) /\ b[x] = r[x - Len(q)])
    BY <1>1
<1>5. \A x \in 1..Len(q) : q[x] \in Minutes /\ q[x] \in Nat BY <1>1, BarsAssumption DEF Minutes
<1>6. \A x \in 1..Len(r) : r[x] \in Minutes /\ r[x] \in Nat BY <1>1, BarsAssumption DEF Minutes
<1>7. Upto(b, n)
  <2>1. SUFFICES ASSUME NEW x \in 1..Len(b) PROVE b[x] <= n BY <1>1 DEF Upto
  <2>2. CASE x \in 1..Len(q)
    <3>1. q[x] <= c BY <2>2, <1>1 DEF Upto
    <3> QED BY <2>2, <3>1, <1>2, <1>5
  <2>3. CASE x - Len(q) \in 1..Len(r) /\ b[x] = r[x - Len(q)] BY <2>3, <1>1 DEF Upto
  <2> QED BY <2>2, <2>3, <1>4
<1>8. Rising(b)
  <2>1. SUFFICES ASSUME NEW x \in 1..Len(b), NEW y \in 1..Len(b), x < y PROVE b[x] < b[y]
      BY <1>1 DEF Rising
  <2>2. CASE x \in 1..Len(q) /\ y \in 1..Len(q) BY <2>1, <2>2, <1>1, <1>2 DEF Rising
  <2>3. CASE x \in 1..Len(q) /\ y - Len(q) \in 1..Len(r) /\ b[y] = r[y - Len(q)]
    <3>1. b[x] <= c /\ b[x] \in Nat BY <2>3, <1>1, <1>2, <1>5 DEF Upto
    <3>2. c < b[y] /\ b[y] \in Nat BY <2>3, <1>1, <1>6 DEF Past
    <3> QED BY <3>1, <3>2
  <2>4. CASE /\ x - Len(q) \in 1..Len(r) /\ b[x] = r[x - Len(q)]
             /\ y - Len(q) \in 1..Len(r) /\ b[y] = r[y - Len(q)]
    <3>1. x - Len(q) < y - Len(q) BY <2>1, <1>1
    <3> QED BY <2>4, <3>1, <1>1 DEF Rising
  <2>5. ~(x \notin 1..Len(q) /\ y \in 1..Len(q)) BY <2>1, <1>1
  <2> QED BY <2>2, <2>3, <2>4, <2>5, <1>4
<1>9. ASSUME NEW m PROVE Among(b, m) <=> Among(q, m) \/ Among(r, m)
  <2>1. ASSUME Among(b, m) PROVE Among(q, m) \/ Among(r, m)
    <3>1. PICK x \in 1..Len(b) : b[x] = m BY <2>1, <1>1 DEF Among
    <3>2. CASE x \in 1..Len(q) BY <3>1, <3>2, <1>1, <1>2 DEF Among
    <3>3. CASE x - Len(q) \in 1..Len(r) /\ b[x] = r[x - Len(q)] BY <3>1, <3>3, <1>1 DEF Among
    <3> QED BY <3>2, <3>3, <1>4
  <2>2. ASSUME Among(q, m) PROVE Among(b, m) BY <2>2, <1>1, <1>2 DEF Among
  <2>3. ASSUME Among(r, m) PROVE Among(b, m) BY <2>3, <1>1, <1>3 DEF Among
  <2> QED BY <2>1, <2>2, <2>3
<1> QED BY <1>1, <1>7, <1>8, <1>9

\* The bars sent are those in the list of an instrument.
LEMMA SentIsAmong ==
    ASSUME NEW i, NEW q, q = published[i] PROVE \A m : m \in Sent(i) <=> Among(q, m)
BY DEF Sent, Among

\* What is published of one instrument: the bars r after minute c, up to minute n.
Covers(i, r, late, c, n) ==
    /\ Rising(r) /\ Past(r, c) /\ Upto(r, n)
    /\ \A m \in Minutes : c < m /\ m <= n /\ <<i, m>> \in traded => Among(r, m) \/ m \in late
    /\ \A m \in Minutes : sealed < m /\ c < m /\ m <= n => m \in late

Published(i, r, late, c, n) ==
    /\ published' = [published EXCEPT ![i] = @ \o r]
    /\ watermark' = [watermark EXCEPT ![i] = n]
    /\ skipped' = [skipped EXCEPT ![i] = @ \cup late]
    /\ base' = [base EXCEPT ![i] = IF watermark[i] = 0 THEN c ELSE @]

\* A batch or a live bar is published: the list stays ascending and the account exact.
LEMMA DeliveredAfterPublish ==
    ASSUME BarsInv, NEW i \in Instruments, NEW r \in Seq(Minutes), NEW late \in SUBSET Minutes,
           NEW c \in 0..MaxMinute, NEW n \in 0..MaxMinute, c <= n,
           watermark[i] = c \/ watermark[i] = 0,
           Covers(i, r, late, c, n), Published(i, r, late, c, n), UNCHANGED <<sealed, traded>>
    PROVE  Marked' /\ Delivered'
<1>0. /\ c \in Nat /\ n \in Nat /\ MaxMinute \in Nat /\ watermark[i] \in Nat /\ watermark[i] <= c
      /\ \A m \in Minutes : m \in Nat /\ 0 < m
    BY MarksAreNumbers, BarsAssumption DEF Minutes
<1>1. Marked /\ Delivered BY DEF BarsInv
<1>2. /\ watermark' \in [Instruments -> 0..MaxMinute] /\ base' \in [Instruments -> 0..MaxMinute]
      /\ skipped' \in [Instruments -> SUBSET Minutes]
    BY <1>1 DEF Marked, Published
<1> DEFINE q == published[i]
           b == q \o r
<1>3. q \in Seq(Minutes) /\ Rising(q) /\ Upto(q, watermark[i]) BY <1>1 DEF Marked, Delivered, Rising, Upto
<1>4. Upto(q, c)
  <2>1. \A x \in DOMAIN q : q[x] \in Minutes BY <1>3
  <2> QED BY <2>1, <1>0, <1>3 DEF Upto
<1>5. /\ published' = [published EXCEPT ![i] = b] /\ DOMAIN published = Instruments
      /\ \A j \in Instruments : published[j] \in Seq(Minutes)
    BY <1>1 DEF Published, Marked
<1> HIDE DEF q, b
<1>6. /\ b \in Seq(Minutes) /\ Rising(b) /\ Upto(b, n)
      /\ \A m : Among(b, m) <=> Among(q, m) \/ Among(r, m)
    BY <1>0, <1>3, <1>4, RisingOn DEF Covers, b
<1>7. published' \in [Instruments -> Seq(Minutes)] /\ published'[i] = b
      /\ \A j \in Instruments : j # i => published'[j] = published[j]
    BY <1>5, <1>6
<1>8. Marked' BY <1>2, <1>7 DEF Marked
<1>9. /\ watermark'[i] = n /\ skipped'[i] = skipped[i] \cup late
      /\ base'[i] = (IF watermark[i] = 0 THEN c ELSE base[i])
      /\ \A j \in Instruments : j # i =>
            watermark'[j] = watermark[j] /\ skipped'[j] = skipped[j] /\ base'[j] = base[j]
    BY <1>1 DEF Published, Marked
<1>10. ASSUME NEW m \in Due(i)', m <= n PROVE m \in Sent(i)'
  <2>1. m \in Minutes /\ m \in Nat /\ <<i, m>> \in traded /\ base'[i] < m /\ m \notin late /\ m \notin skipped[i]
      BY <1>9, <1>10, <1>0 DEF Due, Owed, Minutes
  <2>2. CASE c < m BY <2>1, <2>2, <1>6, <1>7, <1>10 DEF Covers, Sent, Among
  <2>3. CASE ~(c < m)
    <3>1. watermark[i] # 0 BY <2>1, <2>3, <1>9
    <3>2. m <= watermark[i] BY <2>1, <2>3, <3>1, <1>0
    <3>3. m \in Due(i) BY <2>1, <3>1, <1>9 DEF Due, Owed, Minutes
    <3>4. m \in Sent(i) BY <3>2, <3>3, <1>1 DEF Delivered
    <3> QED BY <3>4, <1>6, <1>7 DEF Sent, Among, q
  <2> QED BY <2>2, <2>3
<1>11. ASSUME NEW m \in Minutes, sealed < m, m <= n PROVE m \in skipped'[i] \/ m <= base'[i]
  <2>1. CASE c < m BY <2>1, <1>9, <1>11 DEF Covers
  <2>2. CASE ~(c < m) /\ watermark[i] = 0 BY <2>2, <1>0, <1>9
  <2>3. CASE ~(c < m) /\ watermark[i] # 0
    <3>1. m <= watermark[i] BY <2>3, <1>0
    <3>2. m \in skipped[i] \/ m <= base[i] BY <3>1, <1>1, <1>11 DEF Delivered
    <3> QED BY <3>2, <2>3, <1>9
  <2> QED BY <2>1, <2>2, <2>3
<1>12. ASSUME NEW j \in Instruments, j # i
       PROVE  Due(j)' = Due(j) /\ Sent(j)' = Sent(j)
    BY <1>7, <1>9, <1>12 DEF Due, Owed, Sent
<1>13. Delivered'
  <2>1. SUFFICES ASSUME NEW j \in Instruments
                 PROVE  /\ \A m \in Due(j)' : m <= watermark'[j] => m \in Sent(j)'
                        /\ \A m \in Minutes : sealed < m /\ m <= watermark'[j] => m \in skipped'[j] \/ m <= base'[j]
                        /\ \A x \in DOMAIN published'[j] : published'[j][x] <= watermark'[j]
                        /\ \A x, y \in DOMAIN published'[j] : x < y => published'[j][x] < published'[j][y]
      BY DEF Delivered
  <2>2. CASE j = i BY <2>2, <1>6, <1>7, <1>9, <1>10, <1>11 DEF Rising, Upto
  <2>3. CASE j # i BY <2>3, <1>1, <1>7, <1>9, <1>12 DEF Delivered
  <2> QED BY <2>2, <2>3
<1> QED BY <1>8, <1>13

LEMMA PublishKeepsInv ==
    ASSUME BarsInv, NEW k \in expected, NEW i \in Instruments, Feeds(k, i),
           NEW r \in Seq(Minutes), NEW late \in SUBSET Minutes,
           NEW c \in 0..MaxMinute, NEW n \in 0..MaxMinute, c <= n,
           watermark[i] = c \/ watermark[i] = 0,
           Covers(i, r, late, c, n), Published(i, r, late, c, n),
           NEW V, Move(k, V), Sound(k, V, sealed, traded, polled),
           UNCHANGED <<exchange, polled, desired, generation, expected>>, ReadyIsMarked',
           nonOp' \subseteq expected, nonOp \subseteq nonOp' \cup {k},
           TightOf(k, V, polled, watermark', minute),
           k.role \notin polled =>
               /\ Follows(k, worker[k], V)
               /\ k \notin nonOp' => V.pc = "crashed" \/ (V.ready /\ ~V.refused)
    PROVE  BarsInv'
<1>1. UNCHANGED <<minute, sealed, traded, polled, subscribed, online, generation, expected>>
    BY DEF exchange, desired
<1>2. worker' = [worker EXCEPT ![k] = V] BY DEF Move
<1>0. k \in TaskKeys /\ WorkersAreSound /\ Clocked /\ Accounted /\ CursorsAreTight
    BY DEF BarsInv, Accounted, KeysAreCurrent
<1>3. WorkersAreSound' BY <1>0, <1>1, <1>2, SoundAfterMove
<1>4. Accounted' BY <1>0, <1>1, <1>2, AccountAfterMove
<1>5. Marked' /\ Delivered' BY <1>1, DeliveredAfterPublish
<1>6. Clocked' BY <1>0, <1>1 DEF Clocked
<1>7. ASSUME NEW d \in expected, d # k PROVE TightOf(d, worker[d], polled, watermark', minute)
  <2>1. \A j \in Instruments : j # i => watermark'[j] = watermark[j]
      BY DEF Published, BarsInv, Marked
  <2>2. TightOf(d, worker[d], polled, watermark, minute) BY <1>0 DEF CursorsAreTight
  <2>3. d \in TaskKeys BY <1>0 DEF Accounted, KeysAreCurrent
  <2>4. worker[d].kind \subseteq Instruments /\ polled \subseteq Instruments
      BY <2>3, <1>0, WorkerFacts DEF Clocked
  <2>5. ASSUME NEW j \in Instruments, Feeds(d, j) PROVE watermark'[j] = watermark[j]
      BY <2>1, <2>5, <1>0, <1>7, OneOwner
  <2> QED BY <2>2, <2>4, <2>5 DEF TightOf, Feeds
<1>8. CursorsAreTight'
  <2>1. \A d \in expected : worker'[d] = (IF d = k THEN V ELSE worker[d])
      BY <1>0, <1>2 DEF WorkersAreSound, Accounted, KeysAreCurrent
  <2> QED BY <2>1, <1>1, <1>7 DEF CursorsAreTight
<1> QED BY <1>3, <1>4, <1>5, <1>6, <1>8 DEF BarsInv

\* A panic of the poll takes the polls of the snapshot and no stream.
LEMMA PollPanicsKeepsInv ==
    ASSUME BarsInv, NEW k \in TaskKeys, PollPanics(k) PROVE BarsInv'
<1>1. /\ UNCHANGED <<minute, sealed, traded, polled, subscribed, online, generation, expected, nonOp,
                     watermark, published, base, skipped, readiness>>
      /\ worker' = [c \in TaskKeys |-> IF c.role \in polled /\ c.gen = k.gen THEN Idle ELSE worker[c]]
    BY DEF PollPanics, IsPoll, exchange, desired, health, data
<1>2. Group \notin polled BY MarksAreNumbers
<1>3. WorkersAreSound'
  <2>1. DOMAIN worker' = TaskKeys /\ worker' = [c \in TaskKeys |-> worker'[c]] BY <1>1
  <2>2. ASSUME NEW c \in TaskKeys PROVE Sound(c, worker'[c], sealed, traded, polled)
    <3>1. worker'[c] = Idle \/ worker'[c] = worker[c] BY <1>1
    <3> QED BY <3>1, IdleIsSound, WorkerFacts
  <2> QED BY <1>1, <2>1, <2>2 DEF WorkersAreSound
<1>4. \A c \in expected : c \in TaskKeys /\ (c.role \notin polled => worker'[c] = worker[c])
    BY <1>1, WorkerFacts
<1>5. Accounted'
  <2>1. KeysAreCurrent' BY <1>1 DEF BarsInv, Accounted, KeysAreCurrent
  <2>2. ChildrenAreOwned'
    <3>1. SUFFICES ASSUME NEW c \in expected, c.role # Group, c.role \notin polled
                   PROVE  /\ Parent(c) \in expected /\ c.role \notin worker'[Parent(c)].kind
                          /\ worker'[Parent(c)].pc \notin Unborn /\ worker'[c].asked = {c.role}
        BY <1>1 DEF ChildrenAreOwned
    <3>2. /\ Parent(c) \in expected /\ c.role \notin worker[Parent(c)].kind
          /\ worker[Parent(c)].pc \notin Unborn /\ worker[c].asked = {c.role}
        BY <3>1 DEF BarsInv, Accounted, ChildrenAreOwned
    <3>3. Parent(c).role = Group BY <1>4, <3>1, KeyShape
    <3>4. worker'[Parent(c)] = worker[Parent(c)] BY <1>2, <1>4, <3>2, <3>3
    <3> QED BY <1>4, <3>1, <3>2, <3>4
  <2>3. HealthIsEarned' BY <1>1, <1>4 DEF BarsInv, Accounted, HealthIsEarned
  <2>4. AskedIsPlaced' BY <1>1, <1>4 DEF BarsInv, Accounted, AskedIsPlaced
  <2>5. SubscribedIsAsked' BY <1>1, <1>2, <1>4 DEF BarsInv, Accounted, SubscribedIsAsked
  <2> QED BY <2>1, <2>2, <2>3, <2>4, <2>5 DEF Accounted
<1>6. CursorsAreTight'
  <2>1. SUFFICES ASSUME NEW c \in expected PROVE TightOf(c, worker'[c], polled, watermark, minute)
      BY <1>1 DEF CursorsAreTight
  <2>2. (worker'[c] = Idle /\ c.role \in polled) \/ worker'[c] = worker[c] BY <1>1, <1>4
  <2> QED BY <1>4, <2>2, WorkerFacts, IdleShape DEF TightOf
<1>7. Clocked' BY <1>1 DEF BarsInv, Clocked
<1>8. Marked' BY <1>1 DEF BarsInv, Marked
<1>9. Delivered' BY <1>1 DEF BarsInv, Delivered, Due, Owed, Sent
<1>10. ReadyIsMarked' BY <1>1 DEF BarsInv, ReadyIsMarked
<1> QED BY <1>3, <1>5, <1>6, <1>7, <1>8, <1>9, <1>10 DEF BarsInv

\* A poll that is level with the clock only announces it.
LEMMA PollLevelKeepsInv ==
    ASSUME BarsInv, NEW k \in TaskKeys, PollLevel(k) PROVE BarsInv'
<1> DEFINE W == worker[k]
<1>1. /\ UNCHANGED <<exchange, polled, desired, generation, expected, data, worker>>
      /\ W.pc = "polling" /\ PollFrom(k) >= minute /\ Up(k) /\ Show(k, {k.role}, "Ready", minute)
    BY DEF PollLevel
<1>2. UNCHANGED <<minute, sealed, traded, polled, subscribed, online, generation, expected,
                  watermark, published, base, skipped, worker>>
    BY <1>1 DEF exchange, desired, data
<1>3. k.role \in polled /\ k.role \in Instruments /\ polled \subseteq Instruments
    BY <1>1, WorkerFacts DEF Seated, BarsInv, Clocked
<1>4. W.cursor[k.role] \in Nat /\ minute \in Nat /\ W.cursor[k.role] # 0 /\ W.cursor[k.role] >= minute
  <2>1. W.cursor[k.role] \in 0..MaxMinute BY <1>3, WorkerFacts
  <2>2. minute \in Nat BY MarksAreNumbers
  <2> QED BY <1>1, <2>1, <2>2, BarsAssumption DEF PollFrom
<1>5. k \in expected => W.cursor[k.role] = watermark[k.role]
    BY <1>1, <1>3, <1>4, WorkerFacts DEF TightOf
<1>6. ReadyIsMarked'
  <2>1. ReadyIsMarked BY DEF BarsInv
  <2>2. ReadinessKey(k) = k BY <1>3 DEF ReadinessKey, IsPoll
  <2>3. ASSUME k \in expected, NEW i \in {k.role} \cap Instruments
        PROVE  minute \in 0..MaxMinute /\ minute <= watermark'[i]
      BY <2>3, <1>2, <1>4, <1>5, MarksAreNumbers
  <2>4. \A i \in Instruments : watermark[i] \in Nat /\ watermark'[i] \in Nat /\ watermark[i] <= watermark'[i]
      BY <1>2, MarksAreNumbers
  <2>5. Show(k, {k.role}, "Ready", minute) BY <1>1
  <2> QED BY ONLY <2>1, <2>2, <2>3, <2>4, <2>5, ShownIsMarked DEF Current
<1>7. WorkersAreSound' /\ Clocked' /\ Marked' BY <1>2 DEF BarsInv, WorkersAreSound, Clocked, Marked
<1>8. Delivered' BY <1>2 DEF BarsInv, Delivered, Due, Owed, Sent
<1>9. CursorsAreTight' BY <1>2 DEF BarsInv, CursorsAreTight
<1>10. Accounted'
  <2>1. nonOp' = nonOp \ {k} BY <1>1 DEF Up
  <2>2. KeysAreCurrent' BY <2>1, <1>2 DEF BarsInv, Accounted, KeysAreCurrent
  <2>3. ChildrenAreOwned' BY <1>2 DEF BarsInv, Accounted, ChildrenAreOwned
  <2>4. HealthIsEarned' BY <2>1, <1>2, <1>3 DEF BarsInv, Accounted, HealthIsEarned
  <2>5. AskedIsPlaced' BY <1>2 DEF BarsInv, Accounted, AskedIsPlaced
  <2>6. SubscribedIsAsked' BY <1>2 DEF BarsInv, Accounted, SubscribedIsAsked
  <2> QED BY <2>2, <2>3, <2>4, <2>5, <2>6 DEF Accounted
<1> QED BY <1>6, <1>7, <1>8, <1>9, <1>10 DEF BarsInv

LEMMA PollKeepsInv ==
    ASSUME BarsInv, NEW k \in TaskKeys, Poll(k) PROVE BarsInv'
<1> DEFINE W == worker[k]
           n == PollFrom(k)
           i == k.role
<1> HIDE DEF n
<1>1. /\ UNCHANGED <<exchange, polled, desired, generation, expected, data>>
      /\ W.pc = "polling" /\ n < minute
    BY DEF Poll, n
<1>2. PICK A : A = PolledFrom(k, W, n) OBVIOUS
<1>3. PICK R : R = GetCandles(i, n, minute) OBVIOUS
<1>4. PICK V : /\ Move(k, V)
               /\ \/ V = PolledRange(A, R, minute) /\ UNCHANGED <<nonOp, readiness>>
                  \/ V = A /\ Down(k) /\ Show(k, {i}, "Failed", 0)
  <2>1. \/ /\ Move(k, PolledRange(PolledFrom(k, W, n), GetCandles(i, n, minute), minute))
           /\ UNCHANGED <<nonOp, readiness>>
        \/ Move(k, PolledFrom(k, W, n)) /\ Down(k) /\ Show(k, {i}, "Failed", 0)
      BY DEF Poll, PolledRange, PolledFrom, n
  <2> QED BY <2>1, <1>2, <1>3
<1>5. k.role \in polled /\ i \in Instruments /\ polled \subseteq Instruments
    BY <1>1, WorkerFacts DEF Seated, BarsInv, Clocked
<1>6. minute \in 0..MaxMinute /\ minute \in Nat /\ minute >= 1 BY MarksAreNumbers DEF Minutes
<1>7. n \in 0..MaxMinute /\ n \in Nat /\ (n = W.cursor[i] \/ (W.cursor[i] = 0 /\ n = minute - 1))
  <2>1. W.cursor[i] \in 0..MaxMinute BY <1>5, WorkerFacts
  <2>2. n = IF W.cursor[i] = 0 THEN minute - 1 ELSE W.cursor[i] BY DEF n, PollFrom
  <2> QED BY <2>1, <2>2, <1>6, BarsAssumption
<1>8. Sound(k, W, sealed, traded, polled) BY WorkerFacts
<1>9. /\ Sound(k, A, sealed, traded, polled) /\ A.pc = "polling"
      /\ A.cursor = [W.cursor EXCEPT ![i] = n]
    BY <1>1, <1>2, <1>5, <1>7, <1>8, PolledFromIsSound
<1>10. A.cursor[i] = n BY <1>5, <1>9, WorkerFacts
<1>11. /\ Sound(k, V, sealed, traded, polled) /\ V.pc \in {"polling", "fetched"} /\ V.cursor = A.cursor
  <2>1. CASE V = PolledRange(A, R, minute)
    <3>1. V.cursor[i] = n /\ V.upto = minute
      <4>1. Labelled(A) BY <1>9 DEF Sound, Shaped
      <4> QED BY <2>1, <4>1, <1>10 DEF PolledRange, Labelled, Fields
    <3>2. R \in Ranges /\ R.instrument = i /\ RangeIs(V, i, R, sealed, traded)
        BY <1>3, <1>5, <1>6, <3>1, RangesAreRight
    <3>3. /\ RangeIs(V, R.instrument, R, sealed, traded) /\ A.cursor[k.role] < minute
          /\ R.instrument = k.role /\ R \in Ranges
        BY <3>2, <1>1, <1>10
    <3>a. k.role \in polled /\ minute \in 0..MaxMinute /\ Sound(k, A, sealed, traded, polled) /\ A.pc = "polling"
        BY <1>5, <1>6, <1>9
    <3> HIDE DEF W, i
    <3>4. /\ Sound(k, V, sealed, traded, polled) /\ V.pc = "fetched"
          /\ V.asked = A.asked /\ V.kind = {} /\ V.cursor = A.cursor
        BY ONLY <2>1, <3>3, <3>a, PolledIsSound
    <3> QED BY <3>4
  <2>2. CASE V = A BY <2>2, <1>9
  <2> QED BY <1>4, <2>1, <2>2
<1>12. k \in expected => TightOf(k, V, polled, watermark, minute)
  <2>1. SUFFICES ASSUME k \in expected PROVE TightOf(k, V, polled, watermark, minute) OBVIOUS
  <2>2. TightOf(k, W, polled, watermark, minute) BY <2>1, WorkerFacts
  <2>3. W.cursor[i] = 0 /\ n = minute - 1 => watermark[i] = 0 BY <2>2, <1>1, <1>5 DEF TightOf
  <2>4. V.cursor[i] = watermark[i] \/ (watermark[i] = 0 /\ V.cursor[i] < minute)
      BY <2>2, <2>3, <1>1, <1>5, <1>7, <1>10, <1>11 DEF TightOf
  <2> QED BY <2>4, <1>5, <1>11 DEF TightOf
<1>13. ReadyIsMarked'
  <2>1. CASE UNCHANGED readiness BY <2>1, <1>1, NothingShown
  <2>2. CASE Show(k, {i}, "Failed", 0) BY <2>2, <1>1, ShownOther
  <2> QED BY <1>4, <2>1, <2>2
<1>14. nonOp' \subseteq expected /\ nonOp \subseteq nonOp' \cup {k}
    BY <1>4, WorkerFacts DEF Down, Current
<1>15. Move(k, V) BY <1>4
<1> HIDE DEF W, i
<1> QED BY <1>1, <1>5, <1>11, <1>12, <1>13, <1>14, <1>15, WorkerMoves

\* Minutes are numbers within the bound.
LEMMA MinutesAreNumbers ==
    /\ MaxMinute \in Nat /\ \A m \in 0..MaxMinute : m \in Nat
    /\ \A m \in Minutes : m \in Nat /\ m >= 1 /\ m \in 0..MaxMinute
BY BarsAssumption DEF Minutes

\* The larger of two numbers.
LEMMA LargerOfTwo ==
    ASSUME NEW x \in Nat, NEW y \in Nat
    PROVE  Larger(x, y) \in {x, y} /\ Larger(x, y) \in Nat /\ x <= Larger(x, y) /\ y <= Larger(x, y)
BY DEF Larger

\* A watermark only moves up, and what was announced stays covered.
MarksGrow == \A j \in Instruments :
    watermark[j] \in Nat /\ watermark'[j] \in Nat /\ watermark[j] <= watermark'[j]

\* The watermark of the instrument that is published.
LEMMA MarkMovesUp ==
    ASSUME BarsInv, NEW i \in Instruments, NEW n \in 0..MaxMinute, watermark[i] <= n,
           watermark' = [watermark EXCEPT ![i] = n]
    PROVE  MarksGrow /\ watermark'[i] = n /\ \A j \in Instruments : j # i => watermark'[j] = watermark[j]
<1>1. watermark'[i] = n /\ \A j \in Instruments : j # i => watermark'[j] = watermark[j]
    BY DEF BarsInv, Marked
<1>2. n \in Nat BY BarsAssumption
<1>3. \A j \in Instruments : watermark[j] \in Nat /\ watermark[j] <= watermark[j] BY MarksAreNumbers
<1> QED BY <1>1, <1>2, <1>3 DEF MarksGrow

\* Readiness stays covered when watermarks only grow.
LEMMA StillMarked ==
    ASSUME BarsInv, MarksGrow, UNCHANGED readiness PROVE ReadyIsMarked'
<1>1. ASSUME NEW j \in Instruments, readiness[j].state = "Ready"
      PROVE  readiness[j].through \in 0..MaxMinute /\ readiness[j].through <= watermark'[j]
  <2>1. readiness[j].through \in 0..MaxMinute /\ readiness[j].through <= watermark[j]
      BY <1>1 DEF BarsInv, ReadyIsMarked
  <2>2. PICK t : t = readiness[j].through OBVIOUS
  <2>3. watermark[j] \in Nat /\ watermark'[j] \in Nat /\ watermark[j] <= watermark'[j] BY DEF MarksGrow
  <2> QED BY ONLY <2>1, <2>2, <2>3, BarsAssumption
<1> QED BY <1>1 DEF BarsInv, ReadyIsMarked

\* Ready is announced through a minute that the watermark has reached.
LEMMA NewlyMarked ==
    ASSUME BarsInv, MarksGrow, NEW k, NEW i, NEW t \in 0..MaxMinute, Show(k, {i}, "Ready", t),
           i \in Instruments => t <= watermark'[i]
    PROVE  ReadyIsMarked'
<1>1. ReadyIsMarked BY DEF BarsInv
<1>2. \A j \in {i} \cap Instruments : t \in 0..MaxMinute /\ t <= watermark'[j] OBVIOUS
<1> QED BY <1>1, <1>2, ShownIsMarked DEF MarksGrow

\* A fetched range is published as the bars after the cursor, in order.
LEMMA FetchedCovers ==
    ASSUME BarsInv, NEW k \in TaskKeys, worker[k].pc = "fetched",
           NEW i \in Instruments, i = worker[k].hand[1].instrument,
           NEW R, R = worker[k].hand[1], NEW r, r = Ascending(R.bars),
           NEW c, c = worker[k].cursor[i], NEW n, n = Larger(c, worker[k].upto)
    PROVE  /\ R \in Ranges /\ R.late \in SUBSET Minutes /\ r \in Seq(Minutes)
           /\ c \in 0..MaxMinute /\ n \in 0..MaxMinute /\ c <= n
           /\ Covers(i, r, R.late, c, n)
<1>1. /\ Fetched(k, worker[k], sealed, traded, polled) /\ Handles(worker[k]) /\ Asking(worker[k])
    BY WorkerFacts DEF Sound, Shaped
<1>0. PICK u : u = worker[k].upto OBVIOUS
<1>2. R \in Ranges /\ c \in 0..MaxMinute /\ u \in 0..MaxMinute BY <1>0, <1>1 DEF Handles, Asking
<1>3. RangeIs(worker[k], i, R, sealed, traded) BY <1>1 DEF Fetched
<1>4. R.bars \in SUBSET (1..MaxMinute) /\ R.late \in SUBSET Minutes BY <1>2, KindsOfMessages DEF Minutes
<1>5. /\ MaxMinute \in Nat /\ c \in Nat /\ u \in Nat /\ n \in 0..MaxMinute /\ c <= n /\ u <= n
      /\ n = c \/ n = u
  <2>1. c \in Nat /\ u \in Nat BY <1>2, MinutesAreNumbers
  <2>2. n = Larger(c, u) BY <1>0
  <2>3. n \in {c, u} /\ n \in Nat /\ c <= n /\ u <= n BY ONLY <2>1, <2>2, LargerOfTwo
  <2> QED BY ONLY <2>1, <2>3, <1>2, MinutesAreNumbers
<1>6. /\ r \in Seq(R.bars)
      /\ \A x, y \in 1..Len(r) : x < y => r[x] < r[y]
      /\ \A s \in R.bars : \E x \in 1..Len(r) : r[x] = s
  <2>1. PICK S \in SUBSET (1..MaxMinute) : S = R.bars BY <1>4
  <2>2. /\ Ascending(S) \in Seq(S)
        /\ \A x, y \in 1..Len(Ascending(S)) : x < y => Ascending(S)[x] < Ascending(S)[y]
        /\ \A s \in S : \E x \in 1..Len(Ascending(S)) : Ascending(S)[x] = s
      BY <1>5, AscendingSorts
  <2>3. r = Ascending(S) BY <2>1
  <2> QED BY ONLY <2>1, <2>2, <2>3
<1>7. /\ r \in Seq(Minutes) /\ DOMAIN r = 1..Len(r) /\ \A x \in DOMAIN r : r[x] \in R.bars
  <2>1. PICK S \in SUBSET Minutes : S = R.bars BY <1>4 DEF Minutes
  <2>2. r \in Seq(S) BY <2>1, <1>6
  <2> QED BY ONLY <2>1, <2>2
<1>8. \A m \in Minutes : m \in Nat /\ m >= 1 BY DEF Minutes
<1>9. Rising(r) /\ Past(r, c) /\ Upto(r, n)
  <2>0. \A m \in R.bars : m \in Nat BY <1>4
  <2>1. \A m \in R.bars : m \in Nat /\ c < m /\ m <= u BY <2>0, <1>0, <1>3 DEF RangeIs
  <2>2. \A m \in R.bars : c < m /\ m <= n BY ONLY <2>1, <1>5
  <2> QED BY <2>2, <1>6, <1>7, Zenon DEF Rising, Past, Upto
<1>10. ASSUME NEW m \in Minutes, c < m, m <= n
       PROVE  /\ <<i, m>> \in traded => Among(r, m) \/ m \in R.late
              /\ sealed < m => m \in R.late
  <2>0. m \in Nat /\ m >= 1 BY <1>8
  <2>1. m \in 1..u BY ONLY <2>0, <1>10, <1>5
  <2>2. sealed < m => m \in R.late BY ONLY <2>1, <1>0, <1>3 DEF RangeIs
  <2>3. <<i, m>> \in traded => m \in R.bars \cup R.late
      BY <2>0, <2>1, <1>0, <1>3, <1>5, <1>10, Zenon DEF RangeIs
  <2> QED BY <2>2, <2>3, <1>6, <1>7, Zenon DEF Among
<1>11. Covers(i, r, R.late, c, n) BY <1>9, <1>10, Zenon DEF Covers
<1> QED BY <1>2, <1>4, <1>5, <1>7, <1>11, Zenon

\* A recovered range is published and both marks pass it.
LEMMA PublishBatchKeepsInv ==
    ASSUME BarsInv, NEW k \in TaskKeys, PublishBatch(k) PROVE BarsInv'
<1> DEFINE W == worker[k]
           i == W.hand[1].instrument
           R == W.hand[1]
           r == Ascending(R.bars)
           c == W.cursor[i]
           n == Larger(c, W.upto)
           V == Batched(W, i)
<1>1. /\ UNCHANGED <<exchange, polled, desired, generation, expected, nonOp, base>>
      /\ W.pc = "fetched" /\ k \in expected /\ k.role \notin polled
      /\ Commit(i, R, W.upto) /\ Move(k, V)
      /\ UNCHANGED readiness \/ Show(k, {i}, "Ready", W.upto)
    BY DEF PublishBatch, health, Current, Stream, IsPoll, Batched
<1>2. Sound(k, W, sealed, traded, polled) /\ W.kind \subseteq W.asked /\ W.asked \subseteq Instruments
      /\ W.cursor \in [Instruments -> 0..MaxMinute]
    BY WorkerFacts
<1>3. i \in W.jobs /\ W.jobs \subseteq W.kind /\ W.cursor[i] # 0 /\ W.upto \in 0..MaxMinute
    BY <1>1, <1>2 DEF Sound, Fetched, RangeOf, Shaped, Asking
<1>4. i \in Instruments /\ Feeds(k, i) BY <1>1, <1>2, <1>3 DEF Feeds
<1>5. /\ R \in Ranges /\ R.late \in SUBSET Minutes /\ r \in Seq(Minutes)
      /\ c \in 0..MaxMinute /\ n \in 0..MaxMinute /\ c <= n /\ Covers(i, r, R.late, c, n)
    BY <1>1, <1>4, FetchedCovers
<1>6. c = watermark[i] /\ c # 0
  <2>1. TightOf(k, W, polled, watermark, minute) BY <1>1, WorkerFacts
  <2> QED BY <2>1, <1>1, <1>3 DEF TightOf
<1> HIDE DEF V, r, R
<1>7. Published(i, r, R.late, c, n)
  <2>1. base = [base EXCEPT ![i] = base[i]] BY <1>4 DEF BarsInv, Marked
  <2>2. base' = [base EXCEPT ![i] = IF watermark[i] = 0 THEN c ELSE base[i]] BY <2>1, <1>1, <1>6
  <2> QED BY <2>2, <1>1, <1>6 DEF Commit, Published, r
<1>8. /\ Sound(k, V, sealed, traded, polled) /\ V.pc = "recovering"
      /\ V.asked = W.asked /\ V.kind = W.kind
      /\ V.cursor = [W.cursor EXCEPT ![i] = Larger(W.cursor[i], W.upto)]
      /\ ~V.ready /\ ~W.ready /\ V.refused = W.refused
    BY <1>1, <1>2, BatchIsSound DEF V
<1>9. /\ watermark' = [watermark EXCEPT ![i] = n]
      /\ MarksGrow /\ watermark'[i] = n /\ \A j \in Instruments : j # i => watermark'[j] = watermark[j]
  <2>1. watermark' = [watermark EXCEPT ![i] = n] BY <1>7 DEF Published
  <2>2. watermark[i] <= n BY <1>5, <1>6
  <2> QED BY <2>1, <2>2, <1>4, <1>5, MarkMovesUp, Zenon
<1>10. TightOf(k, V, polled, watermark', minute)
  <2>1. \A j \in W.kind : W.cursor[j] = watermark[j] BY <1>1, WorkerFacts DEF TightOf
  <2>2. \A j \in W.kind : j \in Instruments BY <1>2
  <2>3. \A j \in W.kind : V.cursor[j] = watermark'[j] BY <2>1, <2>2, <1>2, <1>8, <1>9
  <2> QED BY <2>3, <1>1, <1>8 DEF TightOf
<1>11. ReadyIsMarked'
  <2>0. W.upto \in Nat /\ c \in Nat BY <1>3, <1>5, MinutesAreNumbers, Zenon
  <2>1. W.upto <= watermark'[i] BY <2>0, <1>9, LargerOfTwo, Zenon
  <2>2. CASE Show(k, {i}, "Ready", W.upto) BY <2>1, <2>2, <1>3, <1>9, NewlyMarked, Zenon
  <2>3. CASE UNCHANGED readiness BY <2>3, <1>9, StillMarked
  <2> QED BY <1>1, <2>2, <2>3
<1>12. Follows(k, W, V) BY <1>1, <1>8 DEF Follows, Unborn, AtWork
<1>13. nonOp' \subseteq expected /\ nonOp \subseteq nonOp' \cup {k} /\ k \in nonOp'
    BY <1>1, <1>8, WorkerFacts
<1> HIDE DEF c, n, i
<1> QED BY <1>1, <1>4, <1>5, <1>6, <1>7, <1>8, <1>10, <1>11, <1>12, <1>13, PublishKeepsInv

\* A polled range is published; the first one sets the base.
LEMMA PollPublishedKeepsInv ==
    ASSUME BarsInv, NEW k \in TaskKeys, PollPublished(k) PROVE BarsInv'
<1> DEFINE W == worker[k]
           i == k.role
           R == W.hand[1]
           r == Ascending(R.bars)
           c == W.cursor[i]
           n == Larger(c, W.upto)
           V == PollPassed(k, W)
<1>1. /\ UNCHANGED <<exchange, polled, desired, generation, expected>> /\ nonOp' = nonOp \ {k}
      /\ W.pc = "fetched" /\ k \in expected /\ i \in polled
      /\ Commit(i, R, W.upto) /\ Move(k, V)
      /\ base' = [base EXCEPT ![i] = IF watermark[i] = 0 THEN c ELSE @]
      /\ Show(k, {i}, "Ready", W.upto)
    BY DEF PollPublished, Current, IsPoll, PollPassed, Up
<1>2. Sound(k, W, sealed, traded, polled) /\ W.cursor \in [Instruments -> 0..MaxMinute]
    BY WorkerFacts
<1>3. i \in Instruments /\ Feeds(k, i) BY <1>1 DEF Feeds, BarsInv, Clocked
<1>4. R.instrument = i /\ c < W.upto /\ W.upto \in 0..MaxMinute
    BY <1>1, <1>2 DEF Sound, Fetched, RangeOf, Shaped, Asking
<1>5. /\ R \in Ranges /\ R.late \in SUBSET Minutes /\ r \in Seq(Minutes)
      /\ c \in 0..MaxMinute /\ n \in 0..MaxMinute /\ c <= n /\ Covers(i, r, R.late, c, n)
    BY <1>1, <1>3, <1>4, FetchedCovers
<1>6. n = W.upto
  <2>1. c \in Nat /\ W.upto \in Nat BY <1>4, <1>5, MinutesAreNumbers
  <2> QED BY <2>1, <1>4 DEF Larger
<1>7. c = watermark[i] \/ watermark[i] = 0
  <2>1. TightOf(k, W, polled, watermark, minute) BY <1>1, WorkerFacts
  <2> QED BY <2>1, <1>1 DEF TightOf
<1>8. Larger(watermark[i], W.upto) = n /\ watermark[i] <= n
  <2>1. W.upto \in Nat /\ c \in Nat BY <1>4, <1>5, MinutesAreNumbers
  <2>2. watermark[i] = 0 => Larger(watermark[i], W.upto) = n /\ watermark[i] <= n
      BY <2>1, <1>6 DEF Larger
  <2> QED BY <2>2, <1>5, <1>7
<1> HIDE DEF V, r, R, n
<1>9. Published(i, r, R.late, c, n) BY <1>1, <1>8 DEF Commit, Published, r
<1>10. /\ Sound(k, V, sealed, traded, polled) /\ V.pc = "polling"
       /\ V.asked = W.asked /\ V.kind = {}
       /\ V.cursor = [W.cursor EXCEPT ![k.role] = W.upto]
  <2>1. Sound(k, W, sealed, traded, polled) /\ W.pc = "fetched" /\ k.role \in polled BY <1>1, <1>2
  <2> QED BY ONLY <2>1, PollTakenIsSound DEF V
<1>11. MarksGrow /\ watermark'[i] = n
  <2>1. watermark' = [watermark EXCEPT ![i] = n] BY <1>9 DEF Published
  <2> QED BY <2>1, <1>3, <1>5, <1>8, MarkMovesUp
<1>12. TightOf(k, V, polled, watermark', minute)
    BY <1>1, <1>2, <1>3, <1>6, <1>10, <1>11 DEF TightOf
<1>13. ReadyIsMarked'
  <2>1. W.upto <= watermark'[i]
    <3>1. W.upto \in Nat BY <1>4, MinutesAreNumbers
    <3> QED BY <3>1, <1>6, <1>11
  <2> QED BY <2>1, <1>1, <1>4, <1>11, NewlyMarked
<1>14. nonOp' \subseteq expected /\ nonOp \subseteq nonOp' \cup {k} BY <1>1, WorkerFacts
<1>15. k.role \in polled BY <1>1
<1> HIDE DEF c, i, W
<1> QED BY <1>1, <1>3, <1>5, <1>7, <1>9, <1>10, <1>12, <1>13, <1>14, <1>15, PublishKeepsInv

\* No candle is missing between the cursor and the one in hand.
LEMMA HeldCovers ==
    ASSUME BarsInv, NEW k \in TaskKeys, worker[k].pc = "holding", worker[k].ready,
           NEW i, i = worker[k].hand[1].instrument, NEW m, m = worker[k].hand[1].minute,
           i \in worker[k].kind, m > worker[k].cursor[i], worker[k].cursor[i] = watermark[i],
           NEW c, c = IF watermark[i] = 0 THEN m - 1 ELSE watermark[i], NEW r, r = <<m>>
    PROVE  /\ i \in Instruments /\ m \in Minutes /\ r \in Seq(Minutes)
           /\ c \in 0..MaxMinute /\ c < m /\ m <= sealed
           /\ Covers(i, r, {}, c, m)
<1> DEFINE W == worker[k]
           h == W.hand[1]
<1>1. /\ Queued(W) /\ Asking(W) /\ Handles(W) /\ Ordered(W, sealed) /\ Covering(W, traded)
      /\ Phased(k, W, polled)
    BY WorkerFacts DEF Sound, Shaped
<1>2. W.hand # <<>> /\ h \in Candles BY <1>1 DEF Handles, MidStep
<1>3. W.hand = <<h>> BY <1>1, <1>2, InHand
<1>4. IsCandle(h) /\ i \in Instruments /\ m \in Minutes BY <1>2, KindsOfMessages
<1>5. m \in Nat /\ m >= 1 /\ m \in 0..MaxMinute BY <1>4, MinutesAreNumbers
<1>6. m <= sealed
  <2>1. Until(W.hand, sealed) BY <1>1 DEF Ordered
  <2>2. h.minute <= sealed BY <2>1, <1>3, <1>4, OfOne
  <2> QED BY <2>2
<1>7. watermark[i] \in 0..MaxMinute /\ watermark[i] \in Nat BY <1>4, MarksAreNumbers
<1>8. c \in 0..MaxMinute /\ c \in Nat /\ c < m /\ (watermark[i] = 0 => c = m - 1)
    BY <1>5, <1>7, MinutesAreNumbers
<1>9. r \in Seq(Minutes) /\ DOMAIN r = {1} /\ r[1] = m BY <1>4
<1>10. Rising(r) /\ Past(r, c) /\ Upto(r, m) BY ONLY <1>5, <1>8, <1>9 DEF Rising, Past, Upto
<1>11. ASSUME NEW x \in Minutes, c < x, x <= m, <<i, x>> \in traded PROVE x = m
  <2>1. x \in Nat BY MinutesAreNumbers
  <2>2. SUFFICES ASSUME x < m PROVE FALSE BY <2>1, <1>5, <1>11
  <2>3. watermark[i] # 0 /\ x > W.cursor[i] BY <2>1, <2>2, <1>5, <1>7, <1>8, <1>11
  <2>4. Accepted(W) /\ ~W.failed /\ W.jobs = {} BY <1>1 DEF Accepted, Phased
  <2>5. Has(W, i, x) BY <2>3, <2>4, <1>11, <1>1 DEF Covering
  <2>6. Ahead(W.hand, W.wire) /\ Ahead(W.hand, W.buffer) BY <1>1 DEF Ordered
  <2>7. ~Holds(W.wire, i, x)
    <3>1. Holds(W.wire, h.instrument, x) => h.minute < x BY <2>6, <1>3, <1>4, AheadOfHeld
    <3> QED BY <3>1, <2>1, <2>2, <1>5
  <2>8. ~Holds(W.buffer, i, x)
    <3>1. Holds(W.buffer, h.instrument, x) => h.minute < x BY <2>6, <1>3, <1>4, AheadOfHeld
    <3> QED BY <3>1, <2>1, <2>2, <1>5
  <2>9. ~Holds(W.hand, i, x)
    <3>1. Holds(W.hand, i, x) => h.minute = x BY <1>3, OfOne
    <3> QED BY <3>1, <2>1, <2>2, <1>5
  <2> QED BY <2>5, <2>7, <2>8, <2>9 DEF Has
<1>12. ASSUME NEW x \in Minutes, sealed < x PROVE ~(x <= m)
  <2>1. x \in Nat /\ sealed \in Nat BY MinutesAreNumbers, MarksAreNumbers
  <2> QED BY <2>1, <1>5, <1>6, <1>12
<1>13. Covers(i, r, {}, c, m) BY <1>9, <1>10, <1>11, <1>12, Zenon DEF Covers, Among
<1> QED BY <1>4, <1>6, <1>8, <1>9, <1>13, Zenon

\* A live candle is published if it is after the cursor; the first one sets the base.
LEMMA PublishLiveKeepsInv ==
    ASSUME BarsInv, NEW k \in TaskKeys, PublishLive(k) PROVE BarsInv'
<1> DEFINE W == worker[k]
           i == W.hand[1].instrument
           m == W.hand[1].minute
           U == Dropped(W)
<1>1. /\ UNCHANGED <<exchange, polled, desired, generation, expected, nonOp>>
      /\ W.pc = "holding" /\ W.ready /\ k \in expected
    BY DEF PublishLive, health, Current
<1>2. k.role \notin polled BY <1>1, WorkerFacts DEF Seated
<1>3. /\ Sound(k, W, sealed, traded, polled) /\ W.kind \subseteq W.asked /\ W.asked \subseteq Instruments
      /\ W.cursor \in [Instruments -> 0..MaxMinute]
      /\ TightOf(k, W, polled, watermark, minute)
    BY <1>1, WorkerFacts
<1>4. CASE ~(i \in W.kind /\ m > W.cursor[i])
  <2>1. Move(k, U) /\ UNCHANGED <<data, readiness>> BY <1>4 DEF PublishLive, Dropped
  <2>2. i \notin W.kind \/ m <= W.cursor[i]
    <3>1. W.hand[1] \in Candles BY <1>1, <1>3 DEF Sound, Handles
    <3>2. i \in Instruments /\ m \in Nat BY <3>1, KindsOfMessages, MinutesAreNumbers
    <3>3. W.cursor[i] \in Nat BY <3>2, <1>3, MinutesAreNumbers
    <3> QED BY <3>2, <3>3, <1>4
  <2>3. PICK V : V = U OBVIOUS
  <2>4. /\ Sound(k, V, sealed, traded, polled) /\ V.pc = "listening"
        /\ V.asked = W.asked /\ V.kind = W.kind /\ V.cursor = W.cursor
        /\ V.ready = W.ready /\ V.refused = W.refused
    <3>1. Sound(k, W, sealed, traded, polled) /\ W.pc = "holding" /\ V = Dropped(W) BY <1>1, <1>3, <2>3
    <3>2. \/ W.hand[1].instrument \notin W.kind
          \/ W.ready /\ W.hand[1].minute <= W.cursor[W.hand[1].instrument]
        BY <1>1, <2>2
    <3> QED BY ONLY <3>1, <3>2, DroppedIsSound
  <2>5. AtWork(W) /\ AtWork(V) BY <2>4, <1>1 DEF AtWork
  <2>6. ReadyIsMarked' BY <2>1, NothingShown
  <2>7. Move(k, V) /\ UNCHANGED data BY <2>1, <2>3
  <2> QED BY <2>4, <2>5, <2>6, <2>7, <1>1, <1>2, WorkGoesOn
<1>5. CASE i \in W.kind /\ m > W.cursor[i]
  <2> DEFINE V == Passed(U, i, m)
             c == IF watermark[i] = 0 THEN m - 1 ELSE watermark[i]
             r == <<m>>
  <2>1. /\ published' = [published EXCEPT ![i] = Append(@, m)] /\ skipped' = skipped
        /\ watermark' = [watermark EXCEPT ![i] = Larger(@, m)]
        /\ base' = [base EXCEPT ![i] = IF watermark[i] = 0 THEN m - 1 ELSE @]
        /\ Move(k, V)
        /\ UNCHANGED readiness \/ Show(k, {i}, "Ready", m)
      BY <1>5 DEF PublishLive, Passed, Dropped
  <2>2. W.cursor[i] = watermark[i] BY <1>2, <1>3, <1>5 DEF TightOf
  <2>3. /\ i \in Instruments /\ m \in Minutes /\ r \in Seq(Minutes)
        /\ c \in 0..MaxMinute /\ c < m /\ m <= sealed /\ Covers(i, r, {}, c, m)
      BY <1>1, <1>5, <2>2, HeldCovers
  <2>4. /\ m \in 0..MaxMinute /\ m \in Nat /\ c \in Nat /\ watermark[i] \in Nat /\ c <= m
        /\ watermark[i] <= m /\ Larger(watermark[i], m) = m
        /\ watermark[i] = c \/ watermark[i] = 0
    <3>1. m \in 0..MaxMinute /\ m \in Nat /\ c \in Nat /\ watermark[i] \in Nat
        BY <2>3, MinutesAreNumbers, MarksAreNumbers
    <3>2. watermark[i] < m BY <2>2, <3>1, <1>5
    <3>3. c < m /\ (watermark[i] = c \/ watermark[i] = 0) BY <2>3
    <3>4. PICK w, d : w = watermark[i] /\ d = c OBVIOUS
    <3>5. d \in Nat /\ w \in Nat /\ w < m /\ d < m BY <3>1, <3>2, <3>3, <3>4
    <3>6. d <= m /\ w <= m /\ Larger(w, m) = m BY ONLY <3>1, <3>5 DEF Larger
    <3> QED BY <3>1, <3>3, <3>4, <3>6
  <2>5. Published(i, r, {}, c, m)
    <3>1. /\ DOMAIN published = Instruments /\ published[i] \in Seq(Minutes)
          /\ DOMAIN skipped = Instruments /\ skipped[i] \subseteq Minutes
          /\ DOMAIN base = Instruments /\ base = [base EXCEPT ![i] = base[i]]
          /\ skipped = [skipped EXCEPT ![i] = skipped[i]]
        BY <2>3, Zenon DEF BarsInv, Marked
    <3>2. Append(published[i], m) = published[i] \o r
      <4>1. PICK q \in Seq(Minutes) : q = published[i] BY <3>1
      <4>2. PICK x \in Minutes : x = m BY <2>3
      <4>3. Append(q, x) = q \o <<x>> BY AppendIsConcat
      <4> QED BY <4>1, <4>2, <4>3
    <3>3. skipped[i] \cup {} = skipped[i] OBVIOUS
    <3> QED BY <3>1, <3>2, <3>3, <2>1, <2>4 DEF Published
  <2> HIDE DEF c, r
  <2>6. PICK X : X = V OBVIOUS
  <2>7. /\ Sound(k, X, sealed, traded, polled) /\ X.pc = "listening"
        /\ X.asked = W.asked /\ X.kind = W.kind /\ X.cursor = [W.cursor EXCEPT ![i] = m]
        /\ X.ready /\ X.refused = W.refused
      BY <2>6, <1>1, <1>2, <1>3, <1>5, TakenIsSound
  <2>8. /\ watermark' = [watermark EXCEPT ![i] = m]
        /\ MarksGrow /\ watermark'[i] = m /\ \A j \in Instruments : j # i => watermark'[j] = watermark[j]
    <3>1. watermark' = [watermark EXCEPT ![i] = m] BY <2>5 DEF Published
    <3> QED BY <3>1, <2>3, <2>4, MarkMovesUp
  <2>9. TightOf(k, X, polled, watermark', minute)
    <3>1. \A j \in W.kind : W.cursor[j] = watermark[j] BY <1>2, <1>3 DEF TightOf
    <3>2. \A j \in W.kind : j \in Instruments BY <1>3
    <3>3. \A j \in W.kind : X.cursor[j] = watermark'[j] BY <3>1, <3>2, <1>3, <2>7, <2>8
    <3> QED BY <3>3, <1>2, <2>7 DEF TightOf
  <2>10. ReadyIsMarked'
    <3>1. m <= watermark'[i] BY <2>4, <2>8
    <3>2. CASE Show(k, {i}, "Ready", m) BY <3>1, <3>2, <2>4, <2>8, NewlyMarked
    <3>3. CASE UNCHANGED readiness BY <3>3, <2>8, StillMarked
    <3> QED BY <2>1, <3>2, <3>3
  <2>11. Follows(k, W, X) BY <1>1, <1>5, <2>7, WorkerFacts DEF Follows, Unborn, AtWork
  <2>12. /\ nonOp' \subseteq expected /\ nonOp \subseteq nonOp' \cup {k}
         /\ k \notin nonOp' => X.ready /\ ~X.refused
      BY <1>1, <1>2, <2>7, WorkerFacts
  <2>13. Feeds(k, i) BY <1>2, <1>5 DEF Feeds
  <2>14. Move(k, X) BY <2>1, <2>6
  <2>15. {} \in SUBSET Minutes OBVIOUS
  <2> HIDE DEF V, U, i, m
  <2> QED BY <1>1, <2>3, <2>4, <2>5, <2>7, <2>9, <2>10, <2>11, <2>12, <2>13, <2>14, <2>15, PublishKeepsInv
<1> QED BY <1>4, <1>5

-----------------------------------------------------------------------------
\* The actions that change the set of workers

\* Nothing is published and the clocks stand still.
StandStill == UNCHANGED <<exchange, polled, desired, generation, data>>

\* A step that touches the keys and the workers only.
LEMMA AtStandStill ==
    ASSUME BarsInv, StandStill
    PROVE  /\ UNCHANGED <<minute, sealed, traded, polled, subscribed, online, generation,
                          watermark, published, base, skipped>>
           /\ Clocked' /\ Marked' /\ Delivered'
<1>1. UNCHANGED <<minute, sealed, traded, polled, subscribed, online, generation,
                  watermark, published, base, skipped>>
    BY DEF StandStill, exchange, desired, data
<1>2. Clocked' BY <1>1 DEF BarsInv, Clocked
<1>3. Marked' BY <1>1 DEF BarsInv, Marked
<1>4. Delivered' BY <1>1 DEF BarsInv, Delivered, Due, Owed, Sent
<1> QED BY <1>1, <1>2, <1>3, <1>4

\* A worker of the snapshot ends or crashes, and its children with it.
LEMMA RetirementKeepsInv ==
    ASSUME BarsInv, NEW k \in expected, k.role \notin polled, StandStill, ReadyIsMarked',
           NEW p \in {"done", "crashed"}, NEW V, V = Assigned(p, worker[k].asked),
           worker' = [Without(k) EXCEPT ![k] = V],
           expected' = expected \ Owned(k),
           NEW down, down \subseteq {k}, p = "done" => k \in down,
           nonOp' = (nonOp \ Owned(k)) \cup down
    PROVE  BarsInv'
<1>1. /\ UNCHANGED <<minute, sealed, traded, polled, subscribed, online, generation,
                     watermark, published, base, skipped>>
      /\ Clocked' /\ Marked' /\ Delivered'
    BY AtStandStill
<1>2. expected \subseteq TaskKeys /\ k \in TaskKeys /\ nonOp \subseteq expected
    BY DEF BarsInv, Accounted, KeysAreCurrent
<1>3. \A c \in Owned(k) : c \in TaskKeys /\ c.role # Group /\ c # k
    BY <1>2, ChildShape DEF Owned
<1>4. \A c \in TaskKeys : worker'[c] = IF c = k THEN V
                                       ELSE IF c \in Owned(k) THEN Cancelled(worker[c]) ELSE worker[c]
    BY <1>2, <1>3 DEF Without
<1>5. /\ worker[k].asked \subseteq Instruments
      /\ k.role = Group => worker[k].asked \cap polled = {}
      /\ k.role # Group => worker[k].asked \subseteq {k.role}
    BY <1>2, WorkerFacts
<1>6. /\ Sound(k, V, sealed, traded, polled)
      /\ V.pc = p /\ V.asked = worker[k].asked /\ V.kind = {} /\ ~V.ready /\ ~V.refused
  <2>1. PICK A : A = worker[k].asked OBVIOUS
  <2>2. MayAsk(k, A, polled) /\ V = Assigned(p, A) BY <1>5, <2>1 DEF MayAsk
  <2>3. p \in {"starting", "crashed", "done"} OBVIOUS
  <2>4. /\ Sound(k, V, sealed, traded, polled)
        /\ V.pc = p /\ V.asked = A /\ V.kind = {} /\ ~V.ready /\ ~V.refused
      BY ONLY <2>2, <2>3, AssignedIsSound
  <2> QED BY <2>1, <2>4
<1>7. WorkersAreSound'
  <2>1. DOMAIN worker' = TaskKeys /\ worker' = [c \in TaskKeys |-> worker'[c]] BY DEF Without
  <2>2. ASSUME NEW c \in TaskKeys PROVE Sound(c, worker'[c], sealed, traded, polled)
    <3>1. Sound(c, worker[c], sealed, traded, polled) BY WorkerFacts
    <3>2. Sound(c, Cancelled(worker[c]), sealed, traded, polled) BY <3>1, CancelledIsSound
    <3> QED BY <3>1, <3>2, <1>4, <1>6
  <2> QED BY <1>1, <2>1, <2>2 DEF WorkersAreSound
<1>8. \A c \in expected' : c \in TaskKeys /\ c \in expected /\ c \notin Owned(k)
                           /\ (c # k => worker'[c] = worker[c])
    BY <1>2, <1>4
<1>9. worker'[k] = V BY <1>2, <1>4
<1>10. KeysAreCurrent'
  <2>1. k \in expected' BY <1>3
  <2>2. nonOp' \subseteq expected' BY <2>1, <1>2
  <2> QED BY <1>1, <2>2 DEF BarsInv, Accounted, KeysAreCurrent
<1>11. ChildrenAreOwned'
  <2>1. SUFFICES ASSUME NEW c \in expected', c.role # Group, c.role \notin polled
                 PROVE  /\ Parent(c) \in expected' /\ c.role \notin worker'[Parent(c)].kind
                        /\ worker'[Parent(c)].pc \notin Unborn /\ worker'[c].asked = {c.role}
      BY <1>1 DEF ChildrenAreOwned
  <2>2. /\ Parent(c) \in expected /\ c.role \notin worker[Parent(c)].kind
        /\ worker[Parent(c)].pc \notin Unborn /\ worker[c].asked = {c.role}
      BY <2>1, <1>8 DEF BarsInv, Accounted, ChildrenAreOwned
  <2>3. Parent(c).role = Group /\ Parent(c).gen = c.gen /\ Parent(c) \in TaskKeys BY <1>8, KeyShape
  <2>4. Parent(c) \in expected' BY <2>2, <2>3, <1>3
  <2>5. Parent(c) # k
    <3>1. SUFFICES ASSUME Parent(c) = k PROVE FALSE OBVIOUS
    <3>2. c \in Children(k) BY <2>1, <2>3, <3>1, <1>8 DEF Children
    <3> QED BY <3>2, <1>8 DEF Owned
  <2>6. worker'[Parent(c)] = worker[Parent(c)] BY <2>4, <2>5, <1>8
  <2>7. worker'[c].asked = worker[c].asked BY <1>6, <1>8, <1>9
  <2> QED BY <2>2, <2>4, <2>6, <2>7
<1>12. HealthIsEarned'
  <2>1. SUFFICES ASSUME NEW c \in expected', c.role \notin polled, c \notin nonOp'
                 PROVE  worker'[c].pc = "crashed" \/ (worker'[c].ready /\ ~worker'[c].refused)
      BY <1>1 DEF HealthIsEarned
  <2>2. CASE c = k BY <2>1, <2>2, <1>6, <1>9
  <2>3. CASE c # k
    <3>1. c \notin nonOp BY <2>1, <1>8
    <3> QED BY <2>1, <2>3, <3>1, <1>8 DEF BarsInv, Accounted, HealthIsEarned
  <2> QED BY <2>2, <2>3
<1>13. AskedIsPlaced'
  <2>1. SUFFICES ASSUME NEW c \in expected', c.role \notin polled, AtWork(worker'[c]), ~worker'[c].refused,
                        NEW i \in worker'[c].asked
                 PROVE  i \in worker'[c].kind \/ (c.role = Group /\ Child(c, i) \in expected')
      BY <1>1 DEF AskedIsPlaced
  <2>2. c # k BY <2>1, <1>6, <1>9 DEF AtWork
  <2>3. worker'[c] = worker[c] BY <2>2, <1>8
  <2>4. i \in worker[c].kind \/ (c.role = Group /\ Child(c, i) \in expected)
      BY <2>1, <2>3, <1>8 DEF BarsInv, Accounted, AskedIsPlaced
  <2>5. ASSUME c.role = Group, Child(c, i) \in Owned(k) PROVE FALSE
    <3>1. Child(c, i).gen = k.gen /\ k.role = Group BY <2>5, <1>2, ChildShape DEF Owned
    <3>2. c \in TaskKeys /\ i \in Instruments BY <1>8, <2>1, <2>3, WorkerFacts
    <3>3. c.gen = k.gen BY <3>1, <3>2, KeyShape
    <3> QED BY <3>1, <3>2, <3>3, <2>2, <2>5, <1>2, KeyShape
  <2> QED BY <2>3, <2>4, <2>5
<1>14. SubscribedIsAsked'
  <2>1. SUFFICES ASSUME online, NEW i \in subscribed \ polled
                 PROVE  \E c \in expected' : c.role = Group /\ i \in worker'[c].asked
      BY <1>1 DEF SubscribedIsAsked
  <2>2. PICK c \in expected : c.role = Group /\ i \in worker[c].asked
      BY <2>1 DEF BarsInv, Accounted, SubscribedIsAsked
  <2>3. c \in expected' BY <2>2, <1>3
  <2>4. worker'[c].asked = worker[c].asked BY <2>3, <1>6, <1>8, <1>9
  <2> QED BY <2>2, <2>3, <2>4
<1>15. CursorsAreTight'
  <2>1. SUFFICES ASSUME NEW c \in expected' PROVE TightOf(c, worker'[c], polled, watermark, minute)
      BY <1>1 DEF CursorsAreTight
  <2>2. CASE c = k BY <2>2, <1>6, <1>9 DEF TightOf
  <2>3. CASE c # k BY <2>3, <1>8 DEF BarsInv, CursorsAreTight
  <2> QED BY <2>2, <2>3
<1>16. Accounted' BY <1>10, <1>11, <1>12, <1>13, <1>14 DEF Accounted
<1> QED BY <1>1, <1>7, <1>15, <1>16 DEF BarsInv

\* A stream that ends for good takes its isolated streams out of the account.
LEMMA EndForGoodKeepsInv ==
    ASSUME BarsInv, NEW k \in expected, k.role \notin polled, NEW failed, EndForGood(k, failed), StandStill
    PROVE  BarsInv'
<1>1. PICK V : V = Assigned("done", worker[k].asked) OBVIOUS
<1>2. /\ worker' = [Without(k) EXCEPT ![k] = V] /\ expected' = expected \ Owned(k)
      /\ nonOp' = (nonOp \ Owned(k)) \cup {k} /\ Show(k, failed, "Failed", 0)
    BY <1>1 DEF EndForGood, Assigned
<1>3. ReadyIsMarked' BY <1>2, ShownOther DEF StandStill
<1> QED BY <1>1, <1>2, <1>3, RetirementKeepsInv

LEMMA RefuseForGoodKeepsInv ==
    ASSUME BarsInv, NEW k \in TaskKeys, RefuseForGood(k) PROVE BarsInv'
<1>1. k \in expected /\ worker[k].pc = "judging" /\ EndForGood(k, worker[k].kind) /\ StandStill
    BY DEF RefuseForGood, Current, StandStill
<1>2. k.role \notin polled BY <1>1, WorkerFacts DEF Seated
<1> QED BY <1>1, <1>2, EndForGoodKeepsInv

LEMMA PermanentKeepsInv ==
    ASSUME BarsInv, NEW k \in TaskKeys, Permanent(k) PROVE BarsInv'
<1>1. k \in expected /\ worker[k].pc \in {"opening", "listening"} /\ EndForGood(k, {}) /\ StandStill
    BY DEF Permanent, Current, StandStill
<1>2. k.role \notin polled BY <1>1, WorkerFacts DEF Seated
<1> QED BY <1>1, <1>2, EndForGoodKeepsInv

\* A panic takes the worker and the isolated streams it owns.
LEMMA PanicKeepsInv ==
    ASSUME BarsInv, NEW k \in TaskKeys, Panic(k) PROVE BarsInv'
<1>1. PICK V : V = Assigned("crashed", worker[k].asked) OBVIOUS
<1>2. PICK none : none = {} OBVIOUS
<1>3. /\ worker' = [Without(k) EXCEPT ![k] = V] /\ expected' = expected \ Owned(k)
      /\ nonOp' = (nonOp \ Owned(k)) \cup none /\ k \in expected /\ k.role \notin polled
      /\ StandStill /\ UNCHANGED readiness
    BY <1>1, <1>2 DEF Panic, Assigned, Current, Stream, IsPoll, StandStill
<1>4. ReadyIsMarked' BY <1>3, NothingShown DEF StandStill
<1>5. none \subseteq {k} /\ "crashed" \in {"done", "crashed"} /\ ("crashed" = "done" => k \in none) BY <1>2
<1> QED BY <1>1, <1>3, <1>4, <1>5, RetirementKeepsInv

\* What the acknowledgement says is about the instruments that were asked for.
LEMMA AnswersFit ==
    ASSUME BarsInv, NEW k \in TaskKeys, worker[k].pc = "judging", NEW a, a = worker[k].hand[1]
    PROVE  /\ a.retry \cup a.never \subseteq worker[k].kind
           /\ k.role \notin polled /\ ~worker[k].ready
<1> DEFINE W == worker[k]
<1>1. Queued(W) /\ Handles(W) /\ Phased(k, W, polled) /\ Seated(k, W, polled)
    BY WorkerFacts DEF Sound, Shaped
<1>2. W.hand # <<>> /\ a \in Answers BY <1>1 DEF Handles, MidStep
<1>3. Fits(W.hand, W.kind, W.feed) BY <1>1 DEF Phased, Waiting
<1>4. Len(W.hand) = 1 /\ ~IsCandle(a) BY <1>1, <1>2, InHand, KindsOfMessages
<1>5. 1 \in 1..Len(W.hand) BY <1>4
<1> QED BY <1>1, <1>3, <1>4, <1>5, WorkerFacts DEF Fits, Seated

\* Some are accepted; the ones to retry get streams of their own.
LEMMA AcceptSomeKeepsInv ==
    ASSUME BarsInv, NEW k \in TaskKeys, AcceptSome(k) PROVE BarsInv'
<1> DEFINE W == worker[k]
           no == W.hand[1].retry
           never == W.hand[1].never
           ok == W.kind \ (no \cup never)
           started == {c \in Children(k) : c.role \in no}
           r == (W.refused \/ never # {})
           U == Refusing(W, r)
           J == {i \in ok : U.pending /\ U.cursor[i] # 0 /\ U.cursor[i] < minute}
           V == CaughtUp(U, ok, J, minute)
<1>1. /\ StandStill /\ W.pc = "judging" /\ k \in expected
      /\ ok # {} /\ no \cup never # {}
      /\ worker' = [c \in TaskKeys |-> IF c = k THEN V
                                       ELSE IF c \in started THEN Assigned("starting", {c.role})
                                       ELSE worker[c]]
      /\ expected' = expected \cup started
      /\ nonOp' = nonOp \cup started \cup (IF never # {} THEN {k} ELSE {})
      /\ readiness' = [i \in Instruments |->
             IF i \in never THEN [state |-> "Failed", through |-> 0]
             ELSE IF i \in Level(W, ok) THEN [state |-> "Ready", through |-> minute]
             ELSE readiness[i]]
    BY DEF AcceptSome, StandStill, Current, CatchUp, Behind, CaughtUp, Refusing, Assigned
<1>2. /\ UNCHANGED <<minute, sealed, traded, polled, subscribed, online, generation,
                     watermark, published, base, skipped>>
      /\ Clocked' /\ Marked' /\ Delivered'
    BY <1>1, AtStandStill
<1>3. /\ no \cup never \subseteq W.kind /\ k.role \notin polled /\ ~W.ready
    BY <1>1, AnswersFit
<1>4. /\ expected \subseteq TaskKeys /\ nonOp \subseteq expected /\ k \in nonOp
    BY <1>1, <1>3, WorkerFacts
<1>5. \A c \in started : /\ c \in TaskKeys /\ c.gen = k.gen /\ c.role \in Instruments /\ c.role \notin polled
                         /\ c.role # Group /\ k.role = Group /\ Parent(c) = k /\ c # k /\ c.role \in no
    BY ChildShape
<1>6. Sound(k, W, sealed, traded, polled) /\ W.kind \subseteq W.asked /\ W.asked \subseteq Instruments
    BY WorkerFacts
<1>7. W.refused \in BOOLEAN BY <1>6 DEF Sound, Shaped, Labelled
<1>8. r \in BOOLEAN OBVIOUS
<1> HIDE DEF U, J, V, r
<1>9. /\ Sound(k, U, sealed, traded, polled) /\ U.pc = W.pc /\ U.asked = W.asked /\ U.kind = W.kind
      /\ U.cursor = W.cursor /\ U.hand = W.hand /\ U.refused = r
  <2>1. U = Refusing(W, r) BY DEF U
  <2>2. PICK X : X = W OBVIOUS
  <2>3. Sound(k, X, sealed, traded, polled) /\ U = Refusing(X, r) BY <1>6, <2>1, <2>2
  <2>4. Sound(k, U, sealed, traded, polled) /\ U.pc = X.pc /\ U.asked = X.asked /\ U.kind = X.kind
        /\ U.cursor = X.cursor /\ U.hand = X.hand /\ U.refused = r
      BY ONLY <2>3, <1>8, RefusedIsSound
  <2> QED BY <2>2, <2>4
<1>10. /\ Sound(k, V, sealed, traded, polled) /\ V.pc = "recovering"
       /\ V.asked = U.asked /\ V.kind = ok /\ V.cursor = U.cursor
       /\ ~V.ready /\ ~U.ready /\ V.refused = U.refused /\ U.pending
  <2>1. ok = U.kind \ (U.hand[1].retry \cup U.hand[1].never) BY <1>9
  <2>2. PICK is : is = ok OBVIOUS
  <2>3. J = {i \in is : U.pending /\ U.cursor[i] # 0 /\ U.cursor[i] < minute} BY <2>2 DEF J
  <2>4. V = CaughtUp(U, is, J, minute) BY <2>2 DEF V
  <2>5. Traded(sealed, traded) /\ minute \in 0..MaxMinute /\ sealed <= minute BY MarksAreNumbers
  <2>6. is = U.kind \ (U.hand[1].retry \cup U.hand[1].never) BY <2>1, <2>2
  <2>7. Sound(k, U, sealed, traded, polled) /\ U.pc = "judging" /\ k.role \notin polled BY <1>1, <1>3, <1>9
  <2>8. /\ Sound(k, V, sealed, traded, polled) /\ V.pc = "recovering"
        /\ V.asked = U.asked /\ V.kind = is /\ V.cursor = U.cursor
        /\ ~V.ready /\ ~U.ready /\ V.refused = U.refused /\ U.pending
      BY ONLY <2>3, <2>4, <2>5, <2>6, <2>7, CaughtUpIsSound
  <2> QED BY <2>2, <2>8
<1>11. \A c \in started : /\ Sound(c, worker'[c], sealed, traded, polled)
                          /\ worker'[c].pc = "starting" /\ worker'[c].asked = {c.role} /\ worker'[c].kind = {}
  <2>1. SUFFICES ASSUME NEW c \in started
                 PROVE  /\ Sound(c, worker'[c], sealed, traded, polled)
                        /\ worker'[c].pc = "starting" /\ worker'[c].asked = {c.role} /\ worker'[c].kind = {}
      OBVIOUS
  <2>2. PICK A : A = {c.role} OBVIOUS
  <2>3. PICK X : X = Assigned("starting", A) OBVIOUS
  <2>4. worker'[c] = X BY <1>1, <1>5, <2>2, <2>3
  <2>5. MayAsk(c, A, polled) BY <1>5, <2>2 DEF MayAsk
  <2>6. /\ Sound(c, X, sealed, traded, polled)
        /\ X.pc = "starting" /\ X.asked = A /\ X.kind = {} /\ ~X.ready /\ ~X.refused
      BY ONLY <2>3, <2>5, AssignedIsSound
  <2> QED BY <2>2, <2>4, <2>6
<1>12. /\ worker'[k] = V
       /\ \A c \in TaskKeys : c # k /\ c \notin started => worker'[c] = worker[c]
    BY <1>1
<1>13. WorkersAreSound'
  <2>1. DOMAIN worker' = TaskKeys /\ worker' = [c \in TaskKeys |-> worker'[c]] BY <1>1
  <2>2. ASSUME NEW c \in TaskKeys PROVE Sound(c, worker'[c], sealed, traded, polled)
    <3>1. Sound(c, worker[c], sealed, traded, polled) BY WorkerFacts
    <3> QED BY <3>1, <1>10, <1>11, <1>12
  <2> QED BY <1>2, <2>1, <2>2 DEF WorkersAreSound
<1> HIDE DEF started, no, never
<1>14. expected' = expected \cup started /\ nonOp \subseteq nonOp' /\ started \subseteq nonOp'
       /\ nonOp' \subseteq expected'
    BY <1>1, <1>4
<1>15. KeysAreCurrent' BY <1>1, <1>2, <1>5, <1>14 DEF BarsInv, Accounted, KeysAreCurrent
<1>16. ChildrenAreOwned'
  <2>1. SUFFICES ASSUME NEW c \in expected', c.role # Group, c.role \notin polled
                 PROVE  /\ Parent(c) \in expected' /\ c.role \notin worker'[Parent(c)].kind
                        /\ worker'[Parent(c)].pc \notin Unborn /\ worker'[c].asked = {c.role}
      BY <1>2 DEF ChildrenAreOwned
  <2>2. CASE c \in started
    <3>1. worker'[Parent(c)] = V /\ c.role \notin ok /\ Parent(c) \in expected'
        BY <2>2, <1>1, <1>5, <1>12, <1>14
    <3> QED BY <2>2, <3>1, <1>10, <1>11 DEF Unborn
  <2>3. CASE c \notin started
    <3>1. c \in expected /\ c \in TaskKeys BY <2>3, <1>4, <1>14
    <3>2. /\ Parent(c) \in expected /\ c.role \notin worker[Parent(c)].kind
          /\ worker[Parent(c)].pc \notin Unborn /\ worker[c].asked = {c.role}
        BY <2>1, <3>1 DEF BarsInv, Accounted, ChildrenAreOwned
    <3>3. Parent(c).role = Group /\ Parent(c) \in TaskKeys BY <3>1, KeyShape
    <3>4. Parent(c) \notin started BY <3>3, <1>5
    <3>5. worker'[c].asked = worker[c].asked BY <2>3, <3>1, <1>9, <1>10, <1>12
    <3>6. CASE Parent(c) = k BY <3>2, <3>5, <3>6, <1>10, <1>12, <1>14 DEF Unborn
    <3>7. CASE Parent(c) # k
      <4>1. worker'[Parent(c)] = worker[Parent(c)] BY <3>3, <3>4, <3>7, <1>12
      <4> QED BY <3>2, <3>5, <4>1, <1>14
    <3> QED BY <3>6, <3>7
  <2> QED BY <2>2, <2>3
<1>17. HealthIsEarned'
  <2>1. SUFFICES ASSUME NEW c \in expected', c.role \notin polled, c \notin nonOp'
                 PROVE  worker'[c].pc = "crashed" \/ (worker'[c].ready /\ ~worker'[c].refused)
      BY <1>2 DEF HealthIsEarned
  <2>2. c \notin started /\ c # k /\ c \in expected /\ c \notin nonOp /\ c \in TaskKeys
      BY <2>1, <1>4, <1>14
  <2>3. worker'[c] = worker[c] BY <2>2, <1>12
  <2> QED BY <2>1, <2>2, <2>3 DEF BarsInv, Accounted, HealthIsEarned
<1>18. AskedIsPlaced'
  <2>1. SUFFICES ASSUME NEW c \in expected', c.role \notin polled, AtWork(worker'[c]), ~worker'[c].refused,
                        NEW i \in worker'[c].asked
                 PROVE  i \in worker'[c].kind \/ (c.role = Group /\ Child(c, i) \in expected')
      BY <1>2 DEF AskedIsPlaced
  <2>2. c \notin started BY <2>1, <1>11 DEF AtWork
  <2>3. c \in expected /\ c \in TaskKeys BY <2>2, <1>4, <1>14
  <2>4. CASE c # k
    <3>1. worker'[c] = worker[c] BY <2>2, <2>3, <2>4, <1>12
    <3> QED BY <2>1, <2>3, <3>1, <1>14 DEF BarsInv, Accounted, AskedIsPlaced
  <2>5. CASE c = k
    <3>1. ~r /\ i \in W.asked BY <2>1, <2>5, <1>9, <1>10, <1>12
    <3>2. ~W.refused /\ never = {} BY <3>1 DEF r
    <3>3. i \in W.kind \/ (k.role = Group /\ Child(k, i) \in expected)
      <4>1. AtWork(W) BY <1>1 DEF AtWork
      <4> QED BY <3>1, <3>2, <4>1, <1>1, <1>3 DEF BarsInv, Accounted, AskedIsPlaced
    <3>4. CASE i \in ok BY <2>5, <3>4, <1>10, <1>12
    <3>5. CASE i \in W.kind /\ i \notin ok
      <4>1. i \in no BY <3>2, <3>5
      <4>2. k.role = Group
        <5>1. SUFFICES ASSUME k.role # Group PROVE FALSE OBVIOUS
        <5>2. W.asked \subseteq {k.role} BY <5>1, <1>3, WorkerFacts
        <5>3. PICK j \in ok : TRUE BY <1>1
        <5>4. j = i BY <5>2, <5>3, <1>6, <3>5
        <5> QED BY <5>3, <5>4, <3>5
      <4>3. i \notin polled /\ i \in Instruments BY <4>2, <3>1, <1>3, <1>6, WorkerFacts
      <4>4. Child(k, i) \in TaskKeys /\ Child(k, i).gen = k.gen /\ Child(k, i).role = i BY <4>3, KeyShape
      <4>5. i # Group BY <4>3, BarsAssumption
      <4>6. Child(k, i) \in started BY <4>1, <4>2, <4>3, <4>4, <4>5 DEF started, Children
      <4> QED BY <2>5, <4>2, <4>6, <1>14
    <3> QED BY <2>5, <3>3, <3>4, <3>5, <1>14
  <2> QED BY <2>4, <2>5
<1>19. SubscribedIsAsked'
  <2>1. SUFFICES ASSUME online, NEW i \in subscribed \ polled
                 PROVE  \E c \in expected' : c.role = Group /\ i \in worker'[c].asked
      BY <1>2 DEF SubscribedIsAsked
  <2>2. PICK c \in expected : c.role = Group /\ i \in worker[c].asked
      BY <2>1 DEF BarsInv, Accounted, SubscribedIsAsked
  <2>3. c \notin started /\ c \in expected' /\ c \in TaskKeys BY <2>2, <1>4, <1>5, <1>14
  <2>4. worker'[c].asked = worker[c].asked BY <2>3, <1>9, <1>10, <1>12
  <2> QED BY <2>2, <2>3, <2>4
<1>20. Accounted' BY <1>15, <1>16, <1>17, <1>18, <1>19 DEF Accounted
<1>21. TightOf(k, W, polled, watermark, minute) BY <1>1, WorkerFacts
<1>22. CursorsAreTight'
  <2>1. SUFFICES ASSUME NEW c \in expected' PROVE TightOf(c, worker'[c], polled, watermark, minute)
      BY <1>2 DEF CursorsAreTight
  <2>2. CASE c = k
      BY <2>2, <1>3, <1>9, <1>10, <1>12, <1>21 DEF TightOf
  <2>3. CASE c \in started BY <2>3, <1>5, <1>11 DEF TightOf
  <2>4. CASE c # k /\ c \notin started
    <3>1. c \in expected /\ c \in TaskKeys BY <2>4, <1>4, <1>14
    <3> QED BY <2>4, <3>1, <1>12 DEF BarsInv, CursorsAreTight
  <2> QED BY <2>2, <2>3, <2>4
<1>23. ReadyIsMarked'
  <2>1. DOMAIN readiness' = Instruments BY <1>1
  <2>2. ASSUME NEW i \in Instruments, readiness'[i].state = "Ready"
        PROVE  readiness'[i].through \in 0..MaxMinute /\ readiness'[i].through <= watermark[i]
    <3>1. CASE i \notin never /\ i \in Level(W, ok)
      <4>1. readiness'[i] = [state |-> "Ready", through |-> minute] BY <3>1, <1>1
      <4>2. i \in W.kind /\ W.cursor[i] >= minute BY <3>1 DEF Level
      <4>3. W.cursor[i] = watermark[i] BY <4>2, <1>3, <1>21 DEF TightOf
      <4> QED BY <4>1, <4>2, <4>3, MarksAreNumbers
    <3>2. CASE i \notin never /\ i \notin Level(W, ok)
      <4>1. readiness'[i] = readiness[i] BY <3>2, <1>1
      <4> QED BY <2>2, <4>1 DEF BarsInv, ReadyIsMarked
    <3>3. i \notin never
      <4>1. SUFFICES ASSUME i \in never PROVE FALSE OBVIOUS
      <4>2. readiness'[i] = [state |-> "Failed", through |-> 0] BY <4>1, <1>1
      <4> QED BY <4>2, <2>2
    <3> QED BY <3>1, <3>2, <3>3
  <2> QED BY <2>1, <2>2, <1>2 DEF ReadyIsMarked
<1> QED BY <1>2, <1>13, <1>20, <1>22, <1>23 DEF BarsInv

-----------------------------------------------------------------------------
\* The actions that replace the snapshot

\* A new snapshot cancels the workers of the last one and seeds the marks.
LEMMA ScheduleKeepsInv ==
    ASSUME BarsInv, NEW S \in SUBSET Instruments, Schedule(S), subscribed' = S, online' = TRUE,
           UNCHANGED <<exchange, polled, published, skipped, readiness>>
    PROVE  BarsInv'
<1> DEFINE marks == [i \in Instruments |->
                       IF i \in S \cap Cached THEN Larger(watermark[i], CachedBar) ELSE watermark[i]]
           keys == Snapshot(S)
<1>1. /\ generation < MaxGeneration /\ generation' = generation + 1
      /\ watermark' = marks
      /\ base' = [i \in Instruments |-> IF watermark[i] = 0 /\ marks[i] # 0 THEN marks[i] ELSE base[i]]
      /\ expected' = keys /\ nonOp' = keys
      /\ worker' = [k \in TaskKeys |->
              IF k \notin keys THEN Cancelled(worker[k])
              ELSE IF k.role = Group THEN Assigned("starting", S \ polled)
                ELSE PollBegun(k, marks[k.role])]
    BY DEF Schedule, Invalidate, Assigned, PollBegun
<1>2. UNCHANGED <<minute, sealed, traded, polled, published, skipped, readiness>> BY DEF exchange
<1>3. /\ generation \in Nat /\ generation' \in 1..MaxGeneration /\ Group \notin Instruments
      /\ polled \subseteq Instruments /\ Group \notin polled
    BY <1>1, BarsAssumption DEF BarsInv, Accounted, KeysAreCurrent, Clocked
<1>4. \A k \in keys : /\ k \in TaskKeys /\ k.gen = generation'
                      /\ \/ k.role = Group /\ S \ polled # {}
                         \/ k.role # Group /\ k.role \in S \cap polled
    BY <1>3 DEF Snapshot
<1>5. /\ marks \in [Instruments -> 0..MaxMinute]
      /\ \A i \in Instruments : /\ watermark[i] \in 0..MaxMinute /\ watermark[i] <= marks[i]
                                /\ marks[i] = watermark[i] \/ watermark[i] = 0
  <2>1. 1 \in 0..MaxMinute /\ CachedBar = 1 BY BarsAssumption DEF CachedBar, FirstMinute
  <2>2. ASSUME NEW i \in Instruments
        PROVE  /\ marks[i] \in 0..MaxMinute /\ watermark[i] \in 0..MaxMinute /\ watermark[i] <= marks[i]
               /\ marks[i] = watermark[i] \/ watermark[i] = 0
    <3>1. watermark[i] \in 0..MaxMinute /\ watermark[i] \in Nat BY MarksAreNumbers
    <3>2. PICK w \in Nat : w = watermark[i] BY <3>1
    <3>3. marks[i] = w \/ marks[i] = Larger(w, 1) BY <3>2, <2>1
    <3>4. Larger(w, 1) = (IF w = 0 THEN 1 ELSE w) BY <3>2 DEF Larger
    <3> QED BY <3>1, <3>2, <3>3, <3>4, <2>1
  <2> QED BY <2>2
<1> HIDE DEF marks, keys
<1>6. \A i \in Instruments : /\ watermark'[i] = marks[i]
                             /\ marks[i] # watermark[i] => base'[i] = marks[i]
                             /\ marks[i] = watermark[i] => base'[i] = base[i]
    BY <1>1, <1>5
<1>7. Marked'
  <2>1. Marked BY DEF BarsInv
  <2>2. base' \in [Instruments -> 0..MaxMinute]
    <3>1. \A i \in Instruments : base'[i] \in 0..MaxMinute BY <2>1, <1>5, <1>6 DEF Marked
    <3> QED BY <3>1, <1>1
  <2> QED BY <2>1, <2>2, <1>1, <1>2, <1>5 DEF Marked
<1>8. Delivered'
  <2>1. SUFFICES ASSUME NEW j \in Instruments
                 PROVE  /\ \A m \in Due(j)' : m <= watermark'[j] => m \in Sent(j)'
                        /\ \A m \in Minutes : sealed < m /\ m <= watermark'[j] => m \in skipped[j] \/ m <= base'[j]
                        /\ \A x \in DOMAIN published[j] : published[j][x] <= watermark'[j]
                        /\ \A x, y \in DOMAIN published[j] : x < y => published[j][x] < published[j][y]
      BY <1>2 DEF Delivered
  <2>2. /\ \A m \in Due(j) : m <= watermark[j] => m \in Sent(j)
        /\ \A m \in Minutes : sealed < m /\ m <= watermark[j] => m \in skipped[j] \/ m <= base[j]
        /\ \A x \in DOMAIN published[j] : published[j][x] <= watermark[j]
        /\ \A x, y \in DOMAIN published[j] : x < y => published[j][x] < published[j][y]
      BY DEF BarsInv, Delivered
  <2>3. CASE marks[j] = watermark[j]
    <3>1. watermark'[j] = watermark[j] /\ base'[j] = base[j] BY <2>3, <1>6
    <3>2. Due(j)' = Due(j) /\ Sent(j)' = Sent(j) BY <3>1, <1>2 DEF Due, Owed, Sent
    <3> QED BY <2>2, <3>1, <3>2
  <2>4. CASE marks[j] # watermark[j]
    <3>1. watermark'[j] = marks[j] /\ base'[j] = marks[j] BY <2>4, <1>6
    <3>2. marks[j] \in Nat /\ watermark[j] \in Nat /\ watermark[j] <= marks[j] BY <1>5, MinutesAreNumbers
    <3>3. ASSUME NEW m \in Due(j)' PROVE ~(m <= watermark'[j])
      <4>1. m \in Minutes /\ base'[j] < m BY <3>3 DEF Due, Owed, Minutes
      <4> QED BY <4>1, <3>1, <3>2, MinutesAreNumbers
    <3>4. ASSUME NEW x \in DOMAIN published[j] PROVE published[j][x] <= watermark'[j]
      <4>1. published[j] \in Seq(Minutes) BY DEF BarsInv, Marked
      <4>2. published[j][x] \in Minutes BY <4>1
      <4>3. published[j][x] <= watermark[j] /\ published[j][x] \in Nat BY <2>2, <4>2, MinutesAreNumbers
      <4> QED BY <4>3, <3>1, <3>2
    <3> QED BY <2>2, <3>1, <3>3, <3>4
  <2> QED BY <2>3, <2>4
<1>9. \A k \in keys : /\ Sound(k, worker'[k], sealed, traded, polled)
                      /\ k.role = Group => /\ worker'[k].pc = "starting" /\ worker'[k].kind = {}
                                           /\ worker'[k].asked = S \ polled
                      /\ k.role # Group => /\ worker'[k].pc = "polling"
                                           /\ worker'[k].cursor[k.role] = marks[k.role]
  <2>1. ASSUME NEW k \in keys, k.role = Group
        PROVE  /\ Sound(k, worker'[k], sealed, traded, polled)
               /\ worker'[k].pc = "starting" /\ worker'[k].kind = {} /\ worker'[k].asked = S \ polled
    <3>1. PICK A : A = S \ polled OBVIOUS
    <3>2. PICK X : X = Assigned("starting", A) OBVIOUS
    <3>3. worker'[k] = X BY <1>1, <1>4, <2>1, <3>1, <3>2
    <3>4. MayAsk(k, A, polled) BY <1>3, <2>1, <3>1 DEF MayAsk
    <3>5. /\ Sound(k, X, sealed, traded, polled)
          /\ X.pc = "starting" /\ X.asked = A /\ X.kind = {} /\ ~X.ready /\ ~X.refused
        BY ONLY <3>2, <3>4, AssignedIsSound
    <3> QED BY <3>1, <3>3, <3>5
  <2>2. ASSUME NEW k \in keys, k.role # Group
        PROVE  /\ Sound(k, worker'[k], sealed, traded, polled)
               /\ worker'[k].pc = "polling" /\ worker'[k].cursor[k.role] = marks[k.role]
    <3>1. k.role \in polled /\ k.role \in Instruments /\ k \in TaskKeys BY <1>3, <1>4, <2>2
    <3>2. PICK n : n = marks[k.role] OBVIOUS
    <3>3. PICK X : X = PollBegun(k, n) OBVIOUS
    <3>4. worker'[k] = X BY <1>1, <2>2, <3>1, <3>2, <3>3
    <3>5. n \in 0..MaxMinute BY <1>5, <3>1, <3>2
    <3>6. /\ Sound(k, X, sealed, traded, polled)
          /\ X.pc = "polling" /\ X.asked = {k.role} /\ X.kind = {} /\ X.cursor[k.role] = n
        BY ONLY <3>1, <3>3, <3>5, <1>3, PollingIsSound
    <3> QED BY <3>2, <3>4, <3>6
  <2> QED BY <2>1, <2>2
<1>10. WorkersAreSound'
  <2>1. DOMAIN worker' = TaskKeys /\ worker' = [c \in TaskKeys |-> worker'[c]] BY <1>1
  <2>2. ASSUME NEW c \in TaskKeys PROVE Sound(c, worker'[c], sealed, traded, polled)
    <3>1. Sound(c, worker[c], sealed, traded, polled) BY WorkerFacts
    <3>2. Sound(c, Cancelled(worker[c]), sealed, traded, polled) BY <3>1, CancelledIsSound
    <3>3. c \notin keys => worker'[c] = Cancelled(worker[c]) BY <1>1
    <3> QED BY <3>2, <3>3, <1>9
  <2> QED BY <1>2, <2>1, <2>2 DEF WorkersAreSound
<1>11. Clocked' BY <1>2 DEF BarsInv, Clocked
<1>12. Accounted'
  <2>1. KeysAreCurrent' BY <1>1, <1>3, <1>4 DEF KeysAreCurrent
  <2>2. ChildrenAreOwned' BY <1>1, <1>2, <1>4 DEF ChildrenAreOwned
  <2>3. HealthIsEarned' BY <1>1 DEF HealthIsEarned
  <2>4. AskedIsPlaced' BY <1>1, <1>2, <1>4, <1>9 DEF AskedIsPlaced, AtWork
  <2>5. SubscribedIsAsked'
    <3>1. SUFFICES ASSUME NEW i \in S \ polled
                   PROVE  \E c \in keys : c.role = Group /\ i \in worker'[c].asked
        BY <1>1, <1>2 DEF SubscribedIsAsked
    <3>2. PICK c : c = [gen |-> generation', role |-> Group] OBVIOUS
    <3>3. c \in TaskKeys /\ c.gen = generation' /\ c.role = Group BY <3>2, <1>3 DEF TaskKeys
    <3>4. c \in keys BY <3>1, <3>3 DEF keys, Snapshot
    <3> QED BY <3>1, <3>3, <3>4, <1>9
  <2> QED BY <2>1, <2>2, <2>3, <2>4, <2>5 DEF Accounted
<1>13. CursorsAreTight' BY <1>1, <1>2, <1>3, <1>4, <1>9 DEF CursorsAreTight, TightOf
<1>14. ReadyIsMarked'
  <2>1. MarksGrow BY <1>1, <1>5, MinutesAreNumbers DEF MarksGrow
  <2> QED BY <2>1, <1>2, StillMarked
<1> QED BY <1>7, <1>8, <1>10, <1>11, <1>12, <1>13, <1>14 DEF BarsInv

\* A connect schedules what was asked for meanwhile.
LEMMA ConnectKeepsInv == ASSUME BarsInv, Connect PROVE BarsInv'
<1>1. /\ Schedule(subscribed) /\ online' = TRUE
      /\ UNCHANGED <<exchange, polled, published, skipped, readiness, subscribed>>
    BY DEF Connect
<1>2. PICK S : S = subscribed OBVIOUS
<1>3. S \in SUBSET Instruments /\ subscribed' = S /\ Schedule(S) BY <1>1, <1>2 DEF BarsInv, Clocked
<1> QED BY <1>1, <1>3, ScheduleKeepsInv

\* A subscription changes, online or offline.
LEMMA ChangeSubscriptionsKeepsInv == ASSUME BarsInv, ChangeSubscriptions PROVE BarsInv'
<1>1. UNCHANGED <<exchange, polled, online, published, skipped, readiness>> BY DEF ChangeSubscriptions
<1>2. PICK S : S = subscribed' OBVIOUS
<1>3. S \in SUBSET Instruments BY <1>2 DEF ChangeSubscriptions, BarsInv, Clocked
<1>4. CASE online
  <2>1. Schedule(S) /\ subscribed' = S
    <3>1. Schedule(subscribed') BY <1>4 DEF ChangeSubscriptions
    <3> QED BY <3>1, <1>2
  <2>2. online' = TRUE BY <1>1, <1>4
  <2> QED BY <2>1, <2>2, <1>1, <1>3, ScheduleKeepsInv
<1>5. CASE ~online
  <2>1. /\ generation < MaxGeneration /\ generation' = generation + 1
        /\ UNCHANGED <<watermark, base, expected, nonOp, worker>>
      BY <1>5 DEF ChangeSubscriptions, Invalidate, health
  <2>2. UNCHANGED <<minute, sealed, traded>> BY <1>1 DEF exchange
  <2>3. expected = {} BY <1>5 DEF BarsInv, Accounted, KeysAreCurrent
  <2>4. KeysAreCurrent' BY <1>1, <2>1, <2>3, BarsAssumption DEF BarsInv, Accounted, KeysAreCurrent
  <2>5. Accounted' BY <1>1, <1>5, <2>1, <2>3, <2>4
        DEF Accounted, ChildrenAreOwned, HealthIsEarned, AskedIsPlaced, SubscribedIsAsked
  <2>6. WorkersAreSound' BY <1>1, <2>1, <2>2 DEF BarsInv, WorkersAreSound
  <2>7. Clocked' BY <1>1, <1>2, <1>3, <2>2 DEF BarsInv, Clocked
  <2>8. Marked' BY <1>1, <2>1 DEF BarsInv, Marked
  <2>9. Delivered' BY <1>1, <2>1, <2>2 DEF BarsInv, Delivered, Due, Owed, Sent
  <2>10. CursorsAreTight' BY <2>1, <2>3 DEF CursorsAreTight
  <2>11. ReadyIsMarked' BY <1>1, <2>1 DEF BarsInv, ReadyIsMarked
  <2> QED BY <2>5, <2>6, <2>7, <2>8, <2>9, <2>10, <2>11 DEF BarsInv
<1> QED BY <1>4, <1>5

\* A disconnect leaves no key to account for.
LEMMA DisconnectKeepsInv == ASSUME BarsInv, Disconnect PROVE BarsInv'
<1>1. /\ UNCHANGED <<exchange, polled, subscribed, data, readiness>>
      /\ online' = FALSE /\ generation < MaxGeneration /\ generation' = generation + 1
      /\ expected' = {} /\ nonOp' = {}
      /\ worker' = [k \in TaskKeys |-> Cancelled(worker[k])]
    BY DEF Disconnect, Invalidate
<1>2. UNCHANGED <<minute, sealed, traded, watermark, published, base, skipped>>
    BY <1>1 DEF exchange, data
<1>3. KeysAreCurrent' BY <1>1, BarsAssumption DEF BarsInv, Accounted, KeysAreCurrent
<1>4. Accounted' BY <1>1, <1>3
      DEF Accounted, ChildrenAreOwned, HealthIsEarned, AskedIsPlaced, SubscribedIsAsked
<1>5. WorkersAreSound'
  <2>1. DOMAIN worker' = TaskKeys /\ worker' = [c \in TaskKeys |-> worker'[c]] BY <1>1
  <2>2. ASSUME NEW c \in TaskKeys PROVE Sound(c, worker'[c], sealed, traded, polled)
    <3>1. Sound(c, worker[c], sealed, traded, polled) BY WorkerFacts
    <3> QED BY <3>1, <1>1, CancelledIsSound
  <2> QED BY <1>1, <1>2, <2>1, <2>2 DEF WorkersAreSound
<1>6. Clocked' BY <1>1, <1>2 DEF BarsInv, Clocked
<1>7. Marked' BY <1>2 DEF BarsInv, Marked
<1>8. Delivered' BY <1>2 DEF BarsInv, Delivered, Due, Owed, Sent
<1>9. CursorsAreTight' BY <1>1 DEF CursorsAreTight
<1>10. ReadyIsMarked' BY <1>1, <1>2 DEF BarsInv, ReadyIsMarked
<1> QED BY <1>4, <1>5, <1>6, <1>7, <1>8, <1>9, <1>10 DEF BarsInv

-----------------------------------------------------------------------------
\* The clocks

\* Whatever minute comes, a cursor that lags goes on lagging.
LEMMA TightLater ==
    ASSUME NEW k, NEW W, NEW po \in SUBSET Instruments, NEW wm, NEW n \in 0..MaxMinute, NEW o \in 0..MaxMinute, n <= o,
           W.cursor \in [Instruments -> 0..MaxMinute], TightOf(k, W, po, wm, n)
    PROVE  TightOf(k, W, po, wm, o)
<1>1. CASE k.role \in po
  <2>1. W.cursor[k.role] \in Nat /\ n \in Nat /\ o \in Nat BY <1>1, MinutesAreNumbers
  <2> QED BY <2>1, <1>1 DEF TightOf
<1>2. CASE k.role \notin po BY <1>2 DEF TightOf
<1> QED BY <1>1, <1>2

\* The clock passes a minute.
LEMMA TickKeepsInv == ASSUME BarsInv, Tick PROVE BarsInv'
<1>1. /\ minute < MaxMinute /\ minute' = minute + 1
      /\ UNCHANGED <<sealed, traded, polled, subscribed, online, generation, expected, nonOp,
                     watermark, published, base, skipped, worker, readiness>>
    BY DEF Tick, desired, health, data
<1>2. /\ minute \in Nat /\ minute \in Minutes /\ minute \in 0..MaxMinute /\ sealed \in Nat /\ sealed <= minute
      /\ MaxMinute \in Nat
    BY MarksAreNumbers, MinutesAreNumbers
<1>3. minute' \in Minutes /\ sealed <= minute' /\ minute' \in 0..MaxMinute /\ minute <= minute'
    BY <1>1, <1>2 DEF Minutes
<1>4. WorkersAreSound' BY <1>1 DEF BarsInv, WorkersAreSound
<1>5. Clocked' BY <1>1, <1>3 DEF BarsInv, Clocked
<1>6. Accounted' BY <1>1 DEF BarsInv, Accounted, KeysAreCurrent, ChildrenAreOwned, HealthIsEarned,
                             AskedIsPlaced, SubscribedIsAsked
<1>7. Marked' BY <1>1 DEF BarsInv, Marked
<1>8. Delivered' BY <1>1 DEF BarsInv, Delivered, Due, Owed, Sent
<1>9. CursorsAreTight'
  <2>1. SUFFICES ASSUME NEW k \in expected PROVE TightOf(k, worker[k], polled, watermark, minute')
      BY <1>1 DEF CursorsAreTight
  <2>2. k \in TaskKeys /\ polled \in SUBSET Instruments BY DEF BarsInv, Accounted, KeysAreCurrent, Clocked
  <2>3. TightOf(k, worker[k], polled, watermark, minute) /\ worker[k].cursor \in [Instruments -> 0..MaxMinute]
      BY <2>2, WorkerFacts
  <2> QED BY <2>2, <2>3, <1>2, <1>3, TightLater
<1>10. ReadyIsMarked' BY <1>1 DEF BarsInv, ReadyIsMarked
<1> QED BY <1>4, <1>5, <1>6, <1>7, <1>8, <1>9, <1>10 DEF BarsInv

\* The exchange completes a minute.
LEMMA SealKeepsInv == ASSUME BarsInv, Seal PROVE BarsInv'
<1> DEFINE n == sealed + 1
<1>0. PICK S \in Trading :
        /\ sealed < MaxMinute /\ sealed' = n /\ minute' = Larger(minute, sealed')
        /\ traded' = traded \cup (S \X {sealed'})
        /\ worker' = [k \in TaskKeys |-> [worker[k] EXCEPT !.wire =
              @ \o SetToSeq({Candle(i, sealed') : i \in S \cap worker[k].feed})]]
        /\ UNCHANGED <<polled, subscribed, online, generation, expected, nonOp,
                       watermark, published, base, skipped, readiness>>
    BY DEF Seal, desired, health, data
<1> HIDE DEF n
<1>1. /\ sealed < MaxMinute /\ sealed' = n /\ minute' = Larger(minute, n)
      /\ traded' = traded \cup (S \X {n})
      /\ worker' = [k \in TaskKeys |-> Fed(worker[k], Formed(S, worker[k], n))]
      /\ UNCHANGED <<polled, subscribed, online, generation, expected, nonOp,
                     watermark, published, base, skipped, readiness>>
    BY <1>0 DEF Fed, Formed
<1>2. /\ minute \in Nat /\ minute \in Minutes /\ minute \in 0..MaxMinute /\ sealed \in Nat
      /\ MaxMinute \in Nat /\ Traded(sealed, traded)
    BY MarksAreNumbers, MinutesAreNumbers
<1>3. n \in Minutes /\ n \in Nat /\ sealed < n BY <1>1, <1>2 DEF Minutes, n
<1>4. S \in SUBSET Instruments BY BarsAssumption
<1>5. /\ minute' \in Minutes /\ n <= minute' /\ minute' \in 0..MaxMinute /\ minute <= minute'
    BY <1>1, <1>2, <1>3, LargerOfTwo, MinutesAreNumbers
<1>6. Traded(n, traded')
  <2>1. n = sealed + 1 BY DEF n
  <2>2. \A x \in 1..sealed : x \in 1..n BY <1>2, <2>1
  <2>3. traded \subseteq Instruments \X (1..sealed) BY <1>2 DEF Traded
  <2>4. traded \subseteq Instruments \X (1..n) BY <2>2, <2>3
  <2>5. n \in 1..n BY <1>3, MinutesAreNumbers
  <2> QED BY <2>4, <2>5, <1>1, <1>3, <1>4 DEF Traded
<1>7. \A k \in TaskKeys :
        /\ Sound(k, worker'[k], n, traded', polled) /\ worker'[k].pc = worker[k].pc
        /\ worker'[k].asked = worker[k].asked /\ worker'[k].kind = worker[k].kind
        /\ worker'[k].cursor = worker[k].cursor /\ worker'[k].ready = worker[k].ready
        /\ worker'[k].refused = worker[k].refused
  <2>1. SUFFICES ASSUME NEW k \in TaskKeys
                 PROVE  /\ Sound(k, worker'[k], n, traded', polled) /\ worker'[k].pc = worker[k].pc
                        /\ worker'[k].asked = worker[k].asked /\ worker'[k].kind = worker[k].kind
                        /\ worker'[k].cursor = worker[k].cursor /\ worker'[k].ready = worker[k].ready
                        /\ worker'[k].refused = worker[k].refused
      OBVIOUS
  <2>2. PICK W : W = worker[k] OBVIOUS
  <2>3. PICK q : q = Formed(S, W, n) OBVIOUS
  <2>4. PICK V : V = Fed(W, q) OBVIOUS
  <2>5. worker'[k] = V BY <1>1, <2>2, <2>3, <2>4
  <2>6. PICK t : t = traded' OBVIOUS
  <2>7. Sound(k, W, sealed, traded, polled) /\ Traded(sealed, traded) /\ t = traded \cup (S \X {n})
        /\ n = sealed + 1
      BY <2>2, <2>6, <1>1, <1>2, WorkerFacts DEF n
  <2>8. /\ Sound(k, V, n, t, polled) /\ V.pc = W.pc
        /\ V.asked = W.asked /\ V.kind = W.kind /\ V.cursor = W.cursor
        /\ V.ready = W.ready /\ V.refused = W.refused
      BY ONLY <2>3, <2>4, <2>7, <1>3, <1>4, SealedIsSound
  <2> QED BY <2>2, <2>5, <2>6, <2>8
<1>8. WorkersAreSound'
  <2>1. DOMAIN worker' = TaskKeys /\ worker' = [c \in TaskKeys |-> worker'[c]] BY <1>1
  <2> QED BY <2>1, <1>1, <1>7 DEF WorkersAreSound
<1>9. Clocked' BY <1>1, <1>5, <1>6 DEF BarsInv, Clocked
<1>10. Accounted'
  <2>1. expected \subseteq TaskKeys /\ \A k \in expected : Parent(k) \in TaskKeys
      BY KeyShape DEF BarsInv, Accounted, KeysAreCurrent
  <2>2. KeysAreCurrent' BY <1>1 DEF BarsInv, Accounted, KeysAreCurrent
  <2>3. ChildrenAreOwned' BY <2>1, <1>1, <1>7 DEF BarsInv, Accounted, ChildrenAreOwned
  <2>4. HealthIsEarned' BY <2>1, <1>1, <1>7 DEF BarsInv, Accounted, HealthIsEarned
  <2>5. AskedIsPlaced' BY <2>1, <1>1, <1>7 DEF BarsInv, Accounted, AskedIsPlaced, AtWork
  <2>6. SubscribedIsAsked' BY <2>1, <1>1, <1>7 DEF BarsInv, Accounted, SubscribedIsAsked
  <2> QED BY <2>2, <2>3, <2>4, <2>5, <2>6 DEF Accounted
<1>11. Marked' BY <1>1 DEF BarsInv, Marked
<1>12. Delivered'
  <2>1. SUFFICES ASSUME NEW j \in Instruments
                 PROVE  /\ \A m \in Due(j)' : m <= watermark[j] => m \in Sent(j)
                        /\ \A m \in Minutes : n < m /\ m <= watermark[j] => m \in skipped[j] \/ m <= base[j]
      BY <1>1 DEF BarsInv, Delivered, Sent
  <2>2. /\ \A m \in Due(j) : m <= watermark[j] => m \in Sent(j)
        /\ \A m \in Minutes : sealed < m /\ m <= watermark[j] => m \in skipped[j] \/ m <= base[j]
      BY DEF BarsInv, Delivered
  <2>3. ASSUME NEW m \in Minutes, n < m, m <= watermark[j] PROVE m \in skipped[j] \/ m <= base[j]
    <3>1. sealed < m BY <2>3, <1>2, <1>3, MinutesAreNumbers
    <3> QED BY <3>1, <2>2, <2>3
  <2>4. ASSUME NEW m \in Due(j)', m <= watermark[j] PROVE m \in Sent(j)
    <3>1. m \in Minutes /\ m \in Nat /\ <<j, m>> \in traded' /\ base[j] < m /\ m \notin skipped[j]
        BY <2>4, <1>1, MinutesAreNumbers DEF Due, Owed, Minutes
    <3>2. base[j] \in Nat BY MinutesAreNumbers DEF BarsInv, Marked
    <3>3. CASE <<j, m>> \in traded
      <4>1. m \in Due(j) BY <3>1, <3>3 DEF Due, Owed, Minutes
      <4> QED BY <4>1, <2>2, <2>4
    <3>4. CASE m = n
      <4>1. m \in skipped[j] \/ m <= base[j] BY <3>1, <3>4, <2>2, <2>4, <1>3
      <4> QED BY <4>1, <3>1, <3>2
    <3> QED BY <3>1, <3>3, <3>4, <1>1
  <2> QED BY <2>3, <2>4
<1>13. CursorsAreTight'
  <2>1. SUFFICES ASSUME NEW k \in expected PROVE TightOf(k, worker'[k], polled, watermark, minute')
      BY <1>1 DEF CursorsAreTight
  <2>2. k \in TaskKeys /\ polled \in SUBSET Instruments BY DEF BarsInv, Accounted, KeysAreCurrent, Clocked
  <2>3. TightOf(k, worker[k], polled, watermark, minute) /\ worker[k].cursor \in [Instruments -> 0..MaxMinute]
      BY <2>2, WorkerFacts
  <2>4. TightOf(k, worker[k], polled, watermark, minute') BY <2>2, <2>3, <1>2, <1>5, TightLater
  <2> QED BY <2>2, <2>4, <1>7 DEF TightOf
<1>14. ReadyIsMarked' BY <1>1 DEF BarsInv, ReadyIsMarked
<1> QED BY <1>8, <1>9, <1>10, <1>11, <1>12, <1>13, <1>14 DEF BarsInv

-----------------------------------------------------------------------------
\* The invariant of the bar streams

\* Nothing is scheduled at first.
LEMMA BarsStart == ASSUME BarsInit PROVE BarsInv
<1>1. /\ minute = 2 /\ sealed = 2 /\ traded = Instruments \X {2}
      /\ polled \in PollChoices /\ subscribed = Instruments /\ online = FALSE
      /\ generation = 0 /\ expected = {} /\ nonOp = {}
      /\ watermark = [i \in Instruments |-> 0] /\ published = [i \in Instruments |-> <<>>]
      /\ base = [i \in Instruments |-> 0] /\ skipped = [i \in Instruments |-> {}]
      /\ worker = [k \in TaskKeys |-> Idle]
      /\ readiness = [i \in Instruments |-> [state |-> "none", through |-> 0]]
    BY DEF BarsInit, FirstMinute
<1>2. 2 \in Minutes /\ MaxMinute \in Nat /\ MaxGeneration \in Nat /\ polled \subseteq Instruments
    BY <1>1, BarsAssumption DEF Minutes, FirstMinute
<1>3. WorkersAreSound BY <1>1, IdleIsSound DEF WorkersAreSound
<1>4. Clocked BY <1>1, <1>2 DEF Clocked, Traded
<1>5. Accounted BY <1>1, <1>2 DEF Accounted, KeysAreCurrent, ChildrenAreOwned, HealthIsEarned,
                                   AskedIsPlaced, SubscribedIsAsked
<1>6. Marked BY <1>1, <1>2 DEF Marked
<1>7. Delivered
  <2>1. SUFFICES ASSUME NEW j \in Instruments
                 PROVE  /\ \A m \in Due(j) : m <= watermark[j] => m \in Sent(j)
                        /\ \A m \in Minutes : sealed < m /\ m <= watermark[j] => m \in skipped[j] \/ m <= base[j]
                        /\ published[j] = <<>>
      BY DEF Delivered
  <2>2. watermark[j] = 0 /\ published[j] = <<>> BY <1>1
  <2>3. \A m \in Minutes : ~(m <= watermark[j]) BY <2>2, MinutesAreNumbers
  <2>4. \A m \in Due(j) : m \in Minutes BY DEF Due, Owed, Minutes
  <2> QED BY <2>2, <2>3, <2>4
<1>8. CursorsAreTight BY <1>1 DEF CursorsAreTight
<1>9. ReadyIsMarked BY <1>1 DEF ReadyIsMarked
<1> QED BY <1>3, <1>4, <1>5, <1>6, <1>7, <1>8, <1>9 DEF BarsInv

\* A stuttering step changes nothing.
LEMMA BarsStutter == ASSUME BarsInv, UNCHANGED barVars PROVE BarsInv'
<1>1. UNCHANGED <<minute, sealed, traded, polled, subscribed, online, generation, expected, nonOp,
                  watermark, published, base, skipped, worker, readiness>>
    BY DEF barVars, exchange, desired, health, data
<1>2. WorkersAreSound' BY <1>1 DEF BarsInv, WorkersAreSound
<1>3. Clocked' BY <1>1 DEF BarsInv, Clocked
<1>4. Accounted' BY <1>1 DEF BarsInv, Accounted, KeysAreCurrent, ChildrenAreOwned, HealthIsEarned,
                             AskedIsPlaced, SubscribedIsAsked
<1>5. Marked' BY <1>1 DEF BarsInv, Marked
<1>6. Delivered' BY <1>1 DEF BarsInv, Delivered, Due, Owed, Sent
<1>7. CursorsAreTight' BY <1>1 DEF BarsInv, CursorsAreTight
<1>8. ReadyIsMarked' BY <1>1 DEF BarsInv, ReadyIsMarked
<1> QED BY <1>2, <1>3, <1>4, <1>5, <1>6, <1>7, <1>8 DEF BarsInv

\* The inductive invariant of the streams, polls and marks, in every reachable
\* state, however snapshots, streams, retries, polls and failures interleave.
THEOREM BarsInvariant == BarsSpec => []BarsInv
<1>1. BarsInit => BarsInv BY BarsStart
<1>2. BarsInv /\ [BarsNext]_barVars => BarsInv'
  <2>1. SUFFICES ASSUME BarsInv, [BarsNext]_barVars PROVE BarsInv' OBVIOUS
  <2>2. CASE UNCHANGED barVars BY <2>1, <2>2, BarsStutter
  <2>3. CASE Tick BY <2>1, <2>3, TickKeepsInv
  <2>4. CASE Seal BY <2>1, <2>4, SealKeepsInv
  <2>5. CASE ChangeSubscriptions BY <2>1, <2>5, ChangeSubscriptionsKeepsInv
  <2>6. CASE Connect BY <2>1, <2>6, ConnectKeepsInv
  <2>7. CASE Disconnect BY <2>1, <2>7, DisconnectKeepsInv
  <2>8. ASSUME NEW k \in TaskKeys, Acknowledge(k) \/ StreamStep(k) \/ PollStep(k) \/ Failure(k)
        PROVE  BarsInv'
    <3>1. CASE Acknowledge(k) BY <2>1, <3>1, AcknowledgeKeepsInv
    <3>2. CASE StreamStep(k)
      <4>1. CASE Begin(k) BY <2>1, <4>1, BeginKeepsInv
      <4>2. CASE Open(k) BY <2>1, <4>2, OpenKeepsInv
      <4>3. CASE Reopen(k) BY <2>1, <4>3, ReopenKeepsInv
      <4>4. CASE Receive(k) BY <2>1, <4>4, ReceiveKeepsInv
      <4>5. CASE Superseded(k) BY <2>1, <4>5, SupersededKeepsInv
      <4>6. CASE Hold(k) BY <2>1, <4>6, HoldKeepsInv
      <4>7. CASE PublishLive(k) BY <2>1, <4>7, PublishLiveKeepsInv
      <4>8. CASE AcceptAll(k) BY <2>1, <4>8, AcceptAllKeepsInv
      <4>9. CASE AcceptSome(k) BY <2>1, <4>9, AcceptSomeKeepsInv
      <4>10. CASE RefuseAll(k) BY <2>1, <4>10, RefuseAllKeepsInv
      <4>11. CASE RefuseForGood(k) BY <2>1, <4>11, RefuseForGoodKeepsInv
      <4>12. CASE Fetch(k) BY <2>1, <4>12, FetchKeepsInv
      <4>13. CASE PublishBatch(k) BY <2>1, <4>13, PublishBatchKeepsInv
      <4>14. CASE Recovered(k) BY <2>1, <4>14, RecoveredKeepsInv
      <4>15. CASE NoticePanic(k) BY <2>1, <4>15, NoticePanicKeepsInv
      <4> QED BY <3>2, <4>1, <4>2, <4>3, <4>4, <4>5, <4>6, <4>7, <4>8, <4>9, <4>10, <4>11,
                 <4>12, <4>13, <4>14, <4>15 DEF StreamStep
    <3>3. CASE PollStep(k)
        BY <2>1, <3>3, PollLevelKeepsInv, PollKeepsInv, PollPublishedKeepsInv DEF PollStep
    <3>4. CASE Failure(k)
        BY <2>1, <3>4, InterruptedKeepsInv, FetchFailsKeepsInv, PermanentKeepsInv, PanicKeepsInv,
           PollPanicsKeepsInv DEF Failure
    <3> QED BY <2>8, <3>1, <3>2, <3>3, <3>4
  <2> QED BY <2>1, <2>2, <2>3, <2>4, <2>5, <2>6, <2>7, <2>8 DEF BarsNext
<1> QED BY <1>1, <1>2, PTL DEF BarsSpec

-----------------------------------------------------------------------------
\* What follows from it

\* The keys held against the session's health are keys of the current snapshot,
\* through retirements and panics, and buffers stay within MAX_PRE_ACK_MESSAGES.
THEOREM BarsTypeCorrect == BarsSpec => []BarsTypeOK
<1>1. BarsInv => BarsTypeOK
  <2>1. SUFFICES ASSUME BarsInv PROVE BarsTypeOK OBVIOUS
  <2>2. nonOp \subseteq expected /\ expected \subseteq TaskKeys BY <2>1 DEF BarsInv, Accounted, KeysAreCurrent
  <2>3. ASSUME NEW i \in Instruments
        PROVE  watermark[i] \in 0..MaxMinute /\ base[i] \in 0..MaxMinute /\ skipped[i] \subseteq 1..MaxMinute
      BY <2>1 DEF BarsInv, Marked, Minutes
  <2>4. ASSUME NEW k \in TaskKeys
        PROVE  /\ worker[k].asked \subseteq Instruments /\ worker[k].kind \subseteq worker[k].asked
               /\ Len(worker[k].buffer) <= MaxBuffer /\ Len(worker[k].hand) <= 1
      BY <2>1, WorkerFacts DEF Shaped, Queued
  <2> QED BY <2>2, <2>3, <2>4 DEF BarsTypeOK
<1> QED BY <1>1, BarsInvariant, PTL

\* The bars the host is sent of an instrument ascend: none comes twice and none
\* behind a later one, from whatever stream, buffer, recovered range or poll.
THEOREM BarsArriveInOrder == BarsSpec => []BarsInOrder
<1>1. BarsInv => BarsInOrder BY DEF BarsInv, Delivered, BarsInOrder
<1> QED BY <1>1, BarsInvariant, PTL

\* A source that is announced Ready through a minute has sent every bar that is
\* due up to it (CandleReadiness::ready_through).
THEOREM ReadyMeansComplete == BarsSpec => []ReadyIsComplete
<1>1. BarsInv => ReadyIsComplete
  <2>1. SUFFICES ASSUME BarsInv, NEW i \in Instruments, readiness[i].state = "Ready",
                        NEW m \in Due(i), m <= readiness[i].through
                 PROVE  m \in Sent(i)
      BY DEF ReadyIsComplete
  <2>2. PICK t : t = readiness[i].through OBVIOUS
  <2>3. t \in 0..MaxMinute /\ t <= watermark[i] /\ m <= t BY <2>1, <2>2 DEF BarsInv, ReadyIsMarked
  <2>4. m \in Minutes /\ m \in Nat BY MinutesAreNumbers DEF Due, Owed, Minutes
  <2>5. watermark[i] \in Nat /\ t \in Nat BY <2>1, <2>3, MarksAreNumbers, MinutesAreNumbers
  <2>6. m <= watermark[i] BY <2>3, <2>4, <2>5
  <2> QED BY <2>1, <2>6 DEF BarsInv, Delivered
<1> QED BY <1>1, BarsInvariant, PTL

\* What a worker holds of an instrument, as the property and as the proofs say it.
LEMMA CarriedIsHeld ==
    ASSUME NEW W, Queued(W), NEW i, NEW m, Has(W, i, m) PROVE Carries(W, i, m)
<1>1. DOMAIN W.wire = 1..Len(W.wire) /\ DOMAIN W.buffer = 1..Len(W.buffer) /\ DOMAIN W.hand = 1..Len(W.hand)
    BY DEF Queued
<1> QED BY <1>1 DEF Has, Holds, Carries, Range

\* While nothing is non-operational, a due bar of a streamed instrument has been
\* sent or is carried by a worker of the snapshot: no failure leaves a hole.
THEOREM HealthyMissesNothing == BarsSpec => []NothingIsMissed
<1>1. BarsInv => NothingIsMissed
  <2>1. SUFFICES ASSUME BarsInv, online, nonOp = {}, \A k \in expected : worker[k].pc # "crashed",
                        NEW i \in subscribed \ polled, NEW m \in Due(i), watermark[i] # 0, m \notin Sent(i)
                 PROVE  \E k \in expected : Carries(worker[k], i, m)
      BY DEF NothingIsMissed
  <2>2. i \in Instruments /\ m \in Minutes /\ m \in Nat /\ <<i, m>> \in traded
      BY <2>1, MinutesAreNumbers DEF BarsInv, Clocked, Due, Owed, Minutes
  <2>3. watermark[i] \in Nat BY <2>1, <2>2, MarksAreNumbers
  <2>4. m > watermark[i]
    <3>1. ~(m <= watermark[i]) BY <2>1, <2>2 DEF BarsInv, Delivered
    <3> QED BY <3>1, <2>2, <2>3
  <2>5. Group \notin polled /\ expected \subseteq TaskKeys
      BY <2>1, MarksAreNumbers DEF BarsInv, Accounted, KeysAreCurrent
  <2>6. ASSUME NEW k \in expected, k.role \notin polled, i \in worker[k].asked
        PROVE  /\ i \in worker[k].kind \/ (k.role = Group /\ Child(k, i) \in expected)
               /\ i \in worker[k].kind => Carries(worker[k], i, m)
    <3>1. k \in TaskKeys BY <2>5
    <3>2. worker[k].ready /\ ~worker[k].refused BY <2>1, <2>6, <3>1, WorkerFacts
    <3>3. worker[k].pc \in {"listening", "holding"} BY <2>1, <3>1, <3>2, WorkerFacts
    <3>4. /\ Covering(worker[k], traded) /\ Phased(k, worker[k], polled) /\ Queued(worker[k])
        BY <2>1, <3>1, WorkerFacts DEF Sound, Shaped
    <3>5. Accepted(worker[k]) /\ ~worker[k].failed /\ worker[k].jobs = {}
        BY <3>2, <3>3, <3>4 DEF Accepted, Phased
    <3>6. AtWork(worker[k]) BY <3>3 DEF AtWork
    <3>7. i \in worker[k].kind \/ (k.role = Group /\ Child(k, i) \in expected)
        BY <2>1, <2>6, <3>2, <3>6 DEF BarsInv, Accounted, AskedIsPlaced
    <3>8. ASSUME i \in worker[k].kind PROVE Carries(worker[k], i, m)
      <4>1. worker[k].cursor[i] = watermark[i] BY <2>1, <2>6, <3>8 DEF BarsInv, CursorsAreTight, TightOf
      <4>2. Has(worker[k], i, m) BY <2>1, <2>2, <2>4, <3>4, <3>5, <3>8, <4>1 DEF Covering
      <4> QED BY <4>2, <3>4, CarriedIsHeld
    <3> QED BY <3>7, <3>8
  <2>7. PICK k \in expected : k.role = Group /\ i \in worker[k].asked
      BY <2>1 DEF BarsInv, Accounted, SubscribedIsAsked
  <2>8. CASE i \in worker[k].kind BY <2>5, <2>6, <2>7, <2>8
  <2>9. CASE i \notin worker[k].kind
    <3>1. Child(k, i) \in expected BY <2>5, <2>6, <2>7, <2>9
    <3>2. Child(k, i).role = i /\ i # Group BY <2>2, <2>5, KeyShape, BarsAssumption
    <3>3. worker[Child(k, i)].asked = {i} BY <2>1, <3>1, <3>2 DEF BarsInv, Accounted, ChildrenAreOwned
    <3> QED BY <2>1, <2>6, <3>1, <3>2, <3>3
  <2> QED BY <2>8, <2>9
<1> QED BY <1>1, BarsInvariant, PTL

===============================================================================
