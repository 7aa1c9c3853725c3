------------------------ MODULE SubmitRecoveryProofs ------------------------
(***************************************************************************)
(* Proofs about SubmitRecovery, for any number of legs and of attempts: no *)
(* order the broker has is forgotten, and none the host was told is dead   *)
(* lives at the broker.                                                    *)
(***************************************************************************)
EXTENDS SubmitRecovery, TLAPS

Running == pc \notin {"done", "panicked"}

\* A leg the task has not recorded yet.
Ahead(l) == l > leg \/ (l = leg /\ pc \in {"prepare", "dispatch", "budget"})

\* How far the task is: nothing has happened to the legs ahead of it, and the
\* leg it works on is in the state its place in the code implies.
Frontier ==
    /\ Running => leg \in Legs
    /\ pc = "prepare" => leg = 1
    /\ Running => \A l \in Legs : Ahead(l) =>
          stage[l] = "none" /\ broker[l] = "none" /\ l \in route
    /\ pc = "budget" => told[leg] = "submitted"
    /\ pc = "send" => stage[leg] = "Submitted" /\ broker[leg] = "none" /\ told[leg] = "submitted"
    /\ pc \in {"rpc", "recover", "ladder"} => stage[leg] # "none"

Stages == Blocking \cup Confirmed \cup {"none"}
Pcs    == {"prepare", "dispatch", "budget", "send", "rpc", "recover", "ladder", "done",
            "panicked"}

\* TypeOK without the deadline's flag, which needs another prover.
DataOK ==
    /\ pc \in Pcs /\ leg \in 1 .. N + 1 /\ attempts \in 0 .. MaxAttempts
    /\ stage \in [Legs -> Stages]
    /\ route \in SUBSET Legs /\ mapped \in SUBSET Legs
    /\ told \in [Legs -> {"nothing", "denied", "submitted", "rejected", "reported"}]
    /\ broker \in [Legs -> BrokerStates]

IInv ==
    /\ DataOK
    /\ HeldOrderIsTracked
    /\ DeadMeansDead
    /\ UnknownIsRecoverable
    /\ DeniedHasNoRoute
    /\ Frontier

-----------------------------------------------------------------------------
\* A mark never leaves a leg without a stage, nor gives one to a leg without.
LEMMA MarkStageFacts ==
    ASSUME NEW l, NEW s \in Stages \ {"none"}, stage[l] \in Stages
    PROVE  /\ MarkStage(l, s) \in Stages
           /\ MarkStage(l, s) = "none" <=> stage[l] = "none"
           /\ MarkStage(l, s) \in {stage[l], s}
           /\ stage[l] \in Confirmed /\ s \notin Confirmed => MarkStage(l, s) = stage[l]
           /\ s \in Confirmed => MarkStage(l, s) \notin Blocking
BY DEF MarkStage, Stages, Blocking, Confirmed

\* What a report says of a leg whose order the broker has processed.
LEMMA ReportFacts ==
    ASSUME NEW l, NEW b \in BrokerStates, NEW status \in Reportable(b), stage[l] \in Stages
    PROVE  /\ b \in Processed
           /\ status = "refused" <=> b = "refused"
           /\ StageOfReport(l, status) \in Stages
           /\ StageOfReport(l, status) = "none" <=> stage[l] = "none"
           /\ StageOfReport(l, status) = "Rejected" /\ stage[l] # "Rejected" => b = "refused"
           /\ stage[l] \in Confirmed => StageOfReport(l, status) \in Confirmed
BY DEF Reportable, StageOfReport, Stages, Blocking, Confirmed, BrokerStates, Processed

\* What the properties say once a report of leg l has been applied.
Settled ==
    /\ stage' \in [Legs -> Stages]
    /\ told' \in [Legs -> {"nothing", "denied", "submitted", "rejected", "reported"}]
    /\ route' \in SUBSET Legs /\ mapped' \in SUBSET Legs
    /\ HeldOrderIsTracked' /\ DeadMeansDead' /\ UnknownIsRecoverable' /\ DeniedHasNoRoute'

\* A report of an order the broker processed keeps every property, and touches
\* the reported leg only.
LEMMA ReportSettles ==
    ASSUME IInv, NEW l \in Legs, NEW status \in Reportable(broker[l]),
           SetStage(l, StageOfReport(l, status)),
           Tell(l, IF status = "refused" THEN "rejected" ELSE "reported"),
           MapLeg(l), UNCHANGED broker
    PROVE  /\ Settled
           /\ broker[l] \in Processed
           /\ stage[l] # "none" => stage'[l] # "none"
           /\ \A k \in Legs \ {l} :
                 stage'[k] = stage[k] /\ told'[k] = told[k] /\ (k \in route' <=> k \in route)
<1> DEFINE s == StageOfReport(l, status)
           t == IF status = "refused" THEN "rejected" ELSE "reported"
<1>1. stage[l] \in Stages /\ broker[l] \in BrokerStates
  BY DEF IInv, DataOK
<1>2. /\ broker[l] \in Processed
      /\ status = "refused" <=> broker[l] = "refused"
      /\ s \in Stages
      /\ s = "none" <=> stage[l] = "none"
      /\ s = "Rejected" /\ stage[l] # "Rejected" => broker[l] = "refused"
  BY <1>1, ReportFacts, SMTT(30)
<1>3. /\ t \in {"rejected", "reported"}
      /\ t = "rejected" <=> broker[l] = "refused"
  BY <1>2
<1>4. stage' = [stage EXCEPT ![l] = s] /\ told' = [told EXCEPT ![l] = t]
  BY DEF SetStage, Tell
<1> HIDE DEF s, t
<1>5. Settled
  <2>1. /\ stage' \in [Legs -> Stages]
        /\ told' \in [Legs -> {"nothing", "denied", "submitted", "rejected", "reported"}]
        /\ route' \in SUBSET Legs /\ mapped' \in SUBSET Legs
    BY <1>2, <1>3, <1>4 DEF IInv, DataOK, MapLeg
  <2>2. HeldOrderIsTracked'
    BY <1>2, <1>4 DEF IInv, DataOK, HeldOrderIsTracked, Stages, Blocking, Confirmed
  <2>3. DeadMeansDead'
    BY <1>2, <1>3, <1>4 DEF IInv, DataOK, DeadMeansDead
  <2>4. UnknownIsRecoverable'
    BY <1>2, <1>4 DEF IInv, DataOK, UnknownIsRecoverable, MapLeg
  <2>5. DeniedHasNoRoute'
    BY <1>3, <1>4 DEF IInv, DataOK, DeniedHasNoRoute, MapLeg
  <2> QED BY <2>1, <2>2, <2>3, <2>4, <2>5 DEF Settled
<1>6. stage[l] # "none" => stage'[l] # "none"
  BY <1>2, <1>4 DEF IInv, DataOK
<1>7. \A k \in Legs \ {l} :
         stage'[k] = stage[k] /\ told'[k] = told[k] /\ (k \in route' <=> k \in route)
  BY <1>4 DEF IInv, DataOK, MapLeg
<1> QED BY <1>2, <1>5, <1>6, <1>7

\* A final rejection of an order the broker does not have keeps the invariant.
LEMMA RejectedIInv ==
    ASSUME IInv, Rejected, pc \in {"send", "rpc"}, stage[leg] # "none",
           broker[leg] \in {"none", "refused"}
    PROVE  IInv'
<1>1. leg \in Legs /\ stage[leg] \in Stages \ {"none"}
  BY DEF IInv, DataOK, Frontier, Running
<1>2. stage' = [stage EXCEPT ![leg] = "Rejected"]
  BY <1>1 DEF Rejected, SetStage, MarkStage, Confirmed
<1>3. DataOK'
  BY ParametersOK, <1>1, <1>2
  DEF IInv, DataOK, Rejected, Tell, NextLeg, Pcs, Stages, Confirmed, Legs
<1>4. HeldOrderIsTracked' /\ DeadMeansDead'
  BY <1>1, <1>2 DEF IInv, DataOK, HeldOrderIsTracked, DeadMeansDead, Rejected, Tell
<1>5. UnknownIsRecoverable' /\ DeniedHasNoRoute'
  BY <1>1, <1>2
  DEF IInv, DataOK, UnknownIsRecoverable, DeniedHasNoRoute, Rejected, Tell, Blocking
<1>6. Frontier'
  BY ParametersOK, <1>1, <1>2 DEF IInv, DataOK, Frontier, Running, Ahead, Rejected, NextLeg, Legs
<1> QED BY <1>3, <1>4, <1>5, <1>6 DEF IInv

LEMMA InitIInv == Init => IInv
<1> SUFFICES ASSUME Init PROVE IInv OBVIOUS
<1>1. DataOK
  BY ParametersOK DEF Init, DataOK, Pcs, Stages, Legs, BrokerStates
<1>2. HeldOrderIsTracked /\ DeadMeansDead /\ UnknownIsRecoverable /\ DeniedHasNoRoute
  BY DEF Init, HeldOrderIsTracked, DeadMeansDead, UnknownIsRecoverable, DeniedHasNoRoute, Blocking
<1>3. Frontier
  BY ParametersOK DEF Init, Frontier, Running, Legs
<1> QED BY <1>1, <1>2, <1>3 DEF IInv

\* One step of the submit task.
LEMMA TaskStepIInv == IInv /\ TaskStep => IInv'
<1> SUFFICES ASSUME IInv, TaskStep PROVE IInv' OBVIOUS
<1> USE ParametersOK DEF task
<1>1. CASE PrepareFails
  BY <1>1
  DEF IInv, DataOK, HeldOrderIsTracked, DeadMeansDead, UnknownIsRecoverable,
       DeniedHasNoRoute, Frontier, Running, Ahead, Legs, Pcs, PrepareFails,
       Deny, Stages, Blocking, Confirmed, BrokerStates
<1>2. CASE Prepared
  BY <1>2
  DEF IInv, DataOK, HeldOrderIsTracked, DeadMeansDead, UnknownIsRecoverable,
       DeniedHasNoRoute, Frontier, Running, Ahead, Legs, Pcs, Prepared,
       Stages, Blocking, Confirmed, BrokerStates
<1>3. CASE DenyRest
  <2>1. DataOK'
    BY <1>3
    DEF IInv, DataOK, HeldOrderIsTracked, DeadMeansDead, UnknownIsRecoverable,
        DeniedHasNoRoute, Frontier, Running, Ahead, Legs, Pcs, Stages, Blocking, Confirmed, BrokerStates,
        DenyRest, Deny
  <2>2. HeldOrderIsTracked'
    BY <1>3
    DEF IInv, DataOK, HeldOrderIsTracked, DeadMeansDead, UnknownIsRecoverable,
        DeniedHasNoRoute, Frontier, Running, Ahead, Legs, Pcs, Stages, Blocking, Confirmed, BrokerStates,
        DenyRest, Deny
  <2>3. DeadMeansDead'
    BY <1>3
    DEF IInv, DataOK, HeldOrderIsTracked, DeadMeansDead, UnknownIsRecoverable,
        DeniedHasNoRoute, Frontier, Running, Ahead, Legs, Pcs, Stages, Blocking, Confirmed, BrokerStates,
        DenyRest, Deny
  <2>4. UnknownIsRecoverable'
    BY <1>3
    DEF IInv, DataOK, HeldOrderIsTracked, DeadMeansDead, UnknownIsRecoverable,
        DeniedHasNoRoute, Frontier, Running, Ahead, Legs, Pcs, Stages, Blocking, Confirmed, BrokerStates,
        DenyRest, Deny
  <2>5. DeniedHasNoRoute'
    BY <1>3
    DEF IInv, DataOK, HeldOrderIsTracked, DeadMeansDead, UnknownIsRecoverable,
        DeniedHasNoRoute, Frontier, Running, Ahead, Legs, Pcs, Stages, Blocking, Confirmed, BrokerStates,
        DenyRest, Deny
  <2>6. Frontier'
    BY <1>3
    DEF IInv, DataOK, HeldOrderIsTracked, DeadMeansDead, UnknownIsRecoverable,
        DeniedHasNoRoute, Frontier, Running, Ahead, Legs, Pcs, Stages, Blocking, Confirmed, BrokerStates,
        DenyRest, Deny
  <2> QED BY <2>1, <2>2, <2>3, <2>4, <2>5, <2>6 DEF IInv
<1>4. CASE Dispatch
  BY <1>4
  DEF IInv, DataOK, HeldOrderIsTracked, DeadMeansDead, UnknownIsRecoverable,
       DeniedHasNoRoute, Frontier, Running, Ahead, Legs, Pcs, Dispatch,
       Tell, Stages, Blocking, Confirmed, BrokerStates
<1>5. CASE NoBudget
  BY <1>5
  DEF IInv, DataOK, HeldOrderIsTracked, DeadMeansDead, UnknownIsRecoverable,
       DeniedHasNoRoute, Frontier, Running, Ahead, Legs, Pcs, NoBudget,
       Tell, NextLeg, Stages, Blocking, Confirmed, BrokerStates
<1>6. CASE RecordPending
  BY <1>6
  DEF IInv, DataOK, HeldOrderIsTracked, DeadMeansDead, UnknownIsRecoverable,
       DeniedHasNoRoute, Frontier, Running, Ahead, Legs, Pcs, RecordPending,
       SetStage, Stages, Blocking, Confirmed, BrokerStates
<1>7. CASE NotSent
  BY <1>7, RejectedIInv DEF NotSent, IInv, Frontier, Running
<1>8. CASE Send
  BY <1>8
  DEF IInv, DataOK, HeldOrderIsTracked, DeadMeansDead, UnknownIsRecoverable,
       DeniedHasNoRoute, Frontier, Running, Ahead, Legs, Pcs, Send,
       Stages, Blocking, Confirmed, BrokerStates
<1>9. CASE VenueRejected
  BY <1>9, RejectedIInv DEF VenueRejected, IInv, Frontier, Running
<1>10. CASE Accepted
  <2>1. leg \in Legs /\ stage[leg] # "none" /\ MapLeg(leg) /\ UNCHANGED broker
    BY <1>10 DEF IInv, Frontier, Running, Accepted, Reported
  <2>2. CASE \E status \in Reportable(broker[leg]) :
                /\ SetStage(leg, StageOfReport(leg, status))
                /\ Tell(leg, IF status = "refused" THEN "rejected" ELSE "reported")
    <3>1. /\ Settled
          /\ \A k \in Legs \ {leg} : stage'[k] = stage[k] /\ (k \in route' <=> k \in route)
      BY <2>1, <2>2, ReportSettles
    <3>2. DataOK'
      BY <1>10, <2>1, <3>1 DEF IInv, DataOK, Settled, Accepted, Reported, NextLeg, Pcs, Legs
    <3>3. Frontier'
      BY <1>10, <2>1, <3>1 DEF IInv, DataOK, Frontier, Running, Ahead, Accepted, Reported, NextLeg, Legs
    <3> QED BY <3>1, <3>2, <3>3 DEF IInv, Settled
  <2>3. CASE /\ SetStage(leg, MarkStage(leg,
                     IF broker[leg] = "refused" THEN "Rejected" ELSE "Submitted"))
             /\ UNCHANGED told
    <3> DEFINE s == IF broker[leg] = "refused" THEN "Rejected" ELSE "Submitted"
    <3>0. s \in {"Rejected", "Submitted"} /\ (s = "Rejected" => broker[leg] = "refused")
      OBVIOUS
    <3> HIDE DEF s
    <3>m. stage' = [stage EXCEPT ![leg] = MarkStage(leg, s)]
      BY <2>3 DEF SetStage, s
    <3>1. DataOK'
      BY <1>10, <2>1, <2>3, <3>0, <3>m, MarkStageFacts
      DEF IInv, DataOK, HeldOrderIsTracked, DeadMeansDead, UnknownIsRecoverable,
          DeniedHasNoRoute, Frontier, Running, Ahead, Legs, Pcs, Stages, Blocking, Confirmed, BrokerStates,
          Accepted, Reported, Processed, SetStage, NextLeg, MapLeg
    <3>2. HeldOrderIsTracked'
      BY <1>10, <2>1, <2>3, <3>0, <3>m, MarkStageFacts
      DEF IInv, DataOK, HeldOrderIsTracked, DeadMeansDead, UnknownIsRecoverable,
          DeniedHasNoRoute, Frontier, Running, Ahead, Legs, Pcs, Stages, Blocking, Confirmed, BrokerStates,
          Accepted, Reported, Processed, SetStage, NextLeg, MapLeg
    <3>3. DeadMeansDead'
      BY <1>10, <2>1, <2>3, <3>0, <3>m, MarkStageFacts
      DEF IInv, DataOK, HeldOrderIsTracked, DeadMeansDead, UnknownIsRecoverable,
          DeniedHasNoRoute, Frontier, Running, Ahead, Legs, Pcs, Stages, Blocking, Confirmed, BrokerStates,
          Accepted, Reported, Processed, SetStage, NextLeg, MapLeg
    <3>4. UnknownIsRecoverable'
      BY <1>10, <2>1, <2>3, <3>0, <3>m, MarkStageFacts
      DEF IInv, DataOK, HeldOrderIsTracked, DeadMeansDead, UnknownIsRecoverable,
          DeniedHasNoRoute, Frontier, Running, Ahead, Legs, Pcs, Stages, Blocking, Confirmed, BrokerStates,
          Accepted, Reported, Processed, SetStage, NextLeg, MapLeg
    <3>5. DeniedHasNoRoute'
      BY <1>10, <2>1, <2>3, <3>0, <3>m, MarkStageFacts
      DEF IInv, DataOK, HeldOrderIsTracked, DeadMeansDead, UnknownIsRecoverable,
          DeniedHasNoRoute, Frontier, Running, Ahead, Legs, Pcs, Stages, Blocking, Confirmed, BrokerStates,
          Accepted, Reported, Processed, SetStage, NextLeg, MapLeg
    <3>6. Frontier'
      BY <1>10, <2>1, <2>3, <3>0, <3>m, MarkStageFacts
      DEF IInv, DataOK, HeldOrderIsTracked, DeadMeansDead, UnknownIsRecoverable,
          DeniedHasNoRoute, Frontier, Running, Ahead, Legs, Pcs, Stages, Blocking, Confirmed, BrokerStates,
          Accepted, Reported, Processed, SetStage, NextLeg, MapLeg
    <3> QED BY <3>1, <3>2, <3>3, <3>4, <3>5, <3>6 DEF IInv
  <2> QED BY <1>10, <2>2, <2>3 DEF Accepted, Reported
<1>11. CASE Ambiguous
  BY <1>11, MarkStageFacts
  DEF IInv, DataOK, HeldOrderIsTracked, DeadMeansDead, UnknownIsRecoverable,
       DeniedHasNoRoute, Frontier, Running, Ahead, Legs, Pcs, Ambiguous,
       SetStage, Stages, Blocking, Confirmed, BrokerStates, Processed
<1>12. CASE Resolved
  <2>1. PICK status \in Reportable(broker[leg]) :
           /\ SetStage(leg, StageOfReport(leg, status))
           /\ Tell(leg, IF status = "refused" THEN "rejected" ELSE "reported")
    BY <1>12 DEF Resolved, Reported
  <2>2. leg \in Legs /\ stage[leg] # "none" /\ MapLeg(leg) /\ UNCHANGED broker
    BY <1>12 DEF IInv, Frontier, Running, Resolved, Reported
  <2>3. /\ Settled
        /\ \A k \in Legs \ {leg} : stage'[k] = stage[k] /\ (k \in route' <=> k \in route)
    BY <2>1, <2>2, ReportSettles
  <2>4. DataOK'
    BY <1>12, <2>2, <2>3 DEF IInv, DataOK, Settled, Resolved, Reported, NextLeg, Pcs, Legs
  <2>5. Frontier'
    BY <1>12, <2>2, <2>3 DEF IInv, DataOK, Frontier, Running, Ahead, Resolved, Reported, NextLeg, Legs
  <2> QED BY <2>3, <2>4, <2>5 DEF IInv, Settled
<1>13. CASE Unresolved
  <2>1. DataOK'
    BY <1>13, MarkStageFacts
    DEF IInv, DataOK, HeldOrderIsTracked, DeadMeansDead, UnknownIsRecoverable,
        DeniedHasNoRoute, Frontier, Running, Ahead, Legs, Pcs, Stages, Blocking, Confirmed, BrokerStates,
        Unresolved, LookupEnds, SetStage, MapLeg, Processed
  <2>2. HeldOrderIsTracked'
    BY <1>13, MarkStageFacts
    DEF IInv, DataOK, HeldOrderIsTracked, DeadMeansDead, UnknownIsRecoverable,
        DeniedHasNoRoute, Frontier, Running, Ahead, Legs, Pcs, Stages, Blocking, Confirmed, BrokerStates,
        Unresolved, LookupEnds, SetStage, MapLeg, Processed
  <2>3. DeadMeansDead'
    BY <1>13, MarkStageFacts
    DEF IInv, DataOK, HeldOrderIsTracked, DeadMeansDead, UnknownIsRecoverable,
        DeniedHasNoRoute, Frontier, Running, Ahead, Legs, Pcs, Stages, Blocking, Confirmed, BrokerStates,
        Unresolved, LookupEnds, SetStage, MapLeg, Processed
  <2>4. UnknownIsRecoverable'
    BY <1>13, MarkStageFacts
    DEF IInv, DataOK, HeldOrderIsTracked, DeadMeansDead, UnknownIsRecoverable,
        DeniedHasNoRoute, Frontier, Running, Ahead, Legs, Pcs, Stages, Blocking, Confirmed, BrokerStates,
        Unresolved, LookupEnds, SetStage, MapLeg, Processed
  <2>5. DeniedHasNoRoute'
    BY <1>13, MarkStageFacts
    DEF IInv, DataOK, HeldOrderIsTracked, DeadMeansDead, UnknownIsRecoverable,
        DeniedHasNoRoute, Frontier, Running, Ahead, Legs, Pcs, Stages, Blocking, Confirmed, BrokerStates,
        Unresolved, LookupEnds, SetStage, MapLeg, Processed
  <2>6. Frontier'
    BY <1>13, MarkStageFacts
    DEF IInv, DataOK, HeldOrderIsTracked, DeadMeansDead, UnknownIsRecoverable,
        DeniedHasNoRoute, Frontier, Running, Ahead, Legs, Pcs, Stages, Blocking, Confirmed, BrokerStates,
        Unresolved, LookupEnds, SetStage, MapLeg, Processed
  <2> QED BY <2>1, <2>2, <2>3, <2>4, <2>5, <2>6 DEF IInv
<1>14. CASE RetryMisses
  <2>1. DataOK'
    <3>1. attempts' \in 0 .. MaxAttempts
      BY <1>14 DEF IInv, DataOK, RetryMisses
    <3>2. route' \in SUBSET Legs /\ mapped' \in SUBSET Legs
      BY <1>14 DEF IInv, DataOK, Frontier, Running, RetryMisses, LookupEnds, MapLeg
    <3> QED BY <1>14, <3>1, <3>2 DEF IInv, DataOK, RetryMisses, LookupEnds
  <2>2. HeldOrderIsTracked'
    BY <1>14
    DEF IInv, DataOK, HeldOrderIsTracked, DeadMeansDead, UnknownIsRecoverable,
        DeniedHasNoRoute, Frontier, Running, Ahead, Legs, Pcs, Stages, Blocking, Confirmed, BrokerStates,
        RetryMisses, LookupEnds, MapLeg, Processed
  <2>3. DeadMeansDead'
    BY <1>14
    DEF IInv, DataOK, HeldOrderIsTracked, DeadMeansDead, UnknownIsRecoverable,
        DeniedHasNoRoute, Frontier, Running, Ahead, Legs, Pcs, Stages, Blocking, Confirmed, BrokerStates,
        RetryMisses, LookupEnds, MapLeg, Processed
  <2>4. UnknownIsRecoverable'
    BY <1>14
    DEF IInv, DataOK, HeldOrderIsTracked, DeadMeansDead, UnknownIsRecoverable,
        DeniedHasNoRoute, Frontier, Running, Ahead, Legs, Pcs, Stages, Blocking, Confirmed, BrokerStates,
        RetryMisses, LookupEnds, MapLeg, Processed
  <2>5. DeniedHasNoRoute'
    BY <1>14
    DEF IInv, DataOK, HeldOrderIsTracked, DeadMeansDead, UnknownIsRecoverable,
        DeniedHasNoRoute, Frontier, Running, Ahead, Legs, Pcs, Stages, Blocking, Confirmed, BrokerStates,
        RetryMisses, LookupEnds, MapLeg, Processed
  <2>6. Frontier'
    BY <1>14
    DEF IInv, DataOK, HeldOrderIsTracked, DeadMeansDead, UnknownIsRecoverable,
        DeniedHasNoRoute, Frontier, Running, Ahead, Legs, Pcs, Stages, Blocking, Confirmed, BrokerStates,
        RetryMisses, LookupEnds, MapLeg, Processed
  <2> QED BY <2>1, <2>2, <2>3, <2>4, <2>5, <2>6 DEF IInv
<1>15. CASE LadderEnds
  BY <1>15, MarkStageFacts
  DEF IInv, DataOK, HeldOrderIsTracked, DeadMeansDead, UnknownIsRecoverable,
       DeniedHasNoRoute, Frontier, Running, Ahead, Legs, Pcs, LadderEnds,
       NextLeg, SetStage, Stages, Blocking, Confirmed, BrokerStates
<1> QED
  BY <1>1, <1>2, <1>3, <1>4, <1>5, <1>6, <1>7, <1>8, <1>9, <1>10, <1>11, <1>12, <1>13, <1>14, <1>15 DEF TaskStep

\* A panic, the deadline, the broker and the streams.
LEMMA AroundTaskIInv ==
    ASSUME IInv, Panic \/ DeadlinePasses \/ \E l \in Legs : BrokerMoves(l) \/ StreamReport(l)
    PROVE  IInv'
<1> USE ParametersOK DEF task
<1>1. CASE Panic
  <2>1. \A l \in Legs :
           /\ stage'[l] = MarkStage(l, "Unknown") /\ stage'[l] \in Stages
           /\ stage'[l] \in {stage[l], "Unknown"}
           /\ stage'[l] = "none" <=> stage[l] = "none"
           /\ stage[l] \in Confirmed => stage'[l] = stage[l]
    BY <1>1, MarkStageFacts DEF Panic, IInv, DataOK, Stages, Blocking, Confirmed
  <2>2. DataOK'
    BY <1>1, <2>1 DEF Panic, IInv, DataOK, Pcs
  <2>3. HeldOrderIsTracked' /\ DeadMeansDead'
    BY <1>1, <2>1
    DEF Panic, IInv, DataOK, HeldOrderIsTracked, DeadMeansDead, Blocking, Confirmed
  <2>4. UnknownIsRecoverable'
    BY <1>1, <2>1
    DEF Panic, IInv, DataOK, HeldOrderIsTracked, UnknownIsRecoverable, Stages, Blocking, Confirmed
  <2>5. DeniedHasNoRoute' /\ Frontier'
    BY <1>1 DEF Panic, IInv, DeniedHasNoRoute, Frontier, Running
  <2> QED BY <2>2, <2>3, <2>4, <2>5 DEF IInv
<1>2. CASE DeadlinePasses
  BY <1>2
  DEF IInv, DataOK, HeldOrderIsTracked, DeadMeansDead, UnknownIsRecoverable,
      DeniedHasNoRoute, Frontier, Running, Ahead, DeadlinePasses
<1>3. ASSUME NEW l \in Legs, BrokerMoves(l) PROVE IInv'
  <2>1. PICK b \in Processed :
           /\ broker[l] \in {"sent", "live", "triggered"}
           /\ b = "refused" => broker[l] = "sent"
           /\ broker' = [broker EXCEPT ![l] = b]
    BY <1>3 DEF BrokerMoves
  <2>2. DataOK'
    BY <1>3, <2>1 DEF IInv, DataOK, BrokerMoves, Processed
  <2>3. HeldOrderIsTracked' /\ DeadMeansDead'
    BY <1>3, <2>1 DEF IInv, DataOK, HeldOrderIsTracked, DeadMeansDead, BrokerMoves
  <2>4. UnknownIsRecoverable' /\ DeniedHasNoRoute'
    BY <1>3 DEF IInv, UnknownIsRecoverable, DeniedHasNoRoute, BrokerMoves
  <2>5. Frontier'
    BY <1>3, <2>1 DEF IInv, DataOK, Frontier, Running, Ahead, BrokerMoves
  <2> QED BY <2>2, <2>3, <2>4, <2>5 DEF IInv
<1>4. ASSUME NEW l \in Legs, StreamReport(l) PROVE IInv'
  <2>1. PICK status \in Reportable(broker[l]) :
           /\ SetStage(l, StageOfReport(l, status))
           /\ Tell(l, IF status = "refused" THEN "rejected" ELSE "reported")
    BY <1>4 DEF StreamReport, Reported
  <2>2. MapLeg(l) /\ UNCHANGED <<task, expired, broker>>
    BY <1>4 DEF StreamReport, Reported
  <2>3. /\ Settled
        /\ broker[l] \in Processed
        /\ stage[l] # "none" => stage'[l] # "none"
        /\ \A k \in Legs \ {l} :
              stage'[k] = stage[k] /\ told'[k] = told[k] /\ (k \in route' <=> k \in route)
    BY <2>1, <2>2, ReportSettles
  <2>4. DataOK'
    BY <2>2, <2>3 DEF IInv, DataOK, Settled
  <2>5. Frontier'
    <3>1. broker[l] # "none"
      BY <2>3 DEF Processed
    <3> QED BY <2>2, <2>3, <3>1 DEF IInv, DataOK, Frontier, Running, Ahead
  <2> QED BY <2>3, <2>4, <2>5 DEF IInv, Settled
<1> QED BY <1>1, <1>2, <1>3, <1>4

LEMMA StepIInv == IInv /\ [Next]_vars => IInv'
<1> SUFFICES ASSUME IInv, [Next]_vars PROVE IInv' OBVIOUS
<1>1. CASE Next
  BY <1>1, TaskStepIInv, AroundTaskIInv DEF Next
<1>2. CASE UNCHANGED vars
  BY <1>2
  DEF IInv, DataOK, HeldOrderIsTracked, DeadMeansDead, UnknownIsRecoverable,
      DeniedHasNoRoute, Frontier, Running, Ahead, vars, task
<1> QED BY <1>1, <1>2

-----------------------------------------------------------------------------
\* The inductive invariant holds in every reachable state.
THEOREM SubmitInvariant == Spec => []IInv
BY InitIInv, StepIInv, PTL DEF Spec

\* The state has its shape, for any number of legs and of recovery attempts.
THEOREM TypeCorrect == Spec => []TypeOK
<1>1. Init => expired \in BOOLEAN
  BY DEF Init
<1>2. expired \in BOOLEAN /\ [Next]_vars => (expired \in BOOLEAN)'
  BY DEF Next, TaskStep, PrepareFails, Deny, Prepared, DenyRest, Dispatch, NoBudget,
         RecordPending, NotSent, VenueRejected, Rejected, Send, Accepted, Ambiguous, Resolved, Reported,
         Unresolved, RetryMisses, LookupEnds, LadderEnds, Panic, DeadlinePasses, BrokerMoves,
         StreamReport, vars
<1>3. IInv /\ expired \in BOOLEAN => TypeOK
  BY DEF IInv, DataOK, TypeOK, Pcs, Stages
<1> QED BY <1>1, <1>2, <1>3, SubmitInvariant, PTL DEF Spec

\* No order the broker has, and no request that may still reach it, is dropped:
\* its submit blocks the reset or was confirmed by a report.
THEOREM OrdersAreTracked == Spec => []HeldOrderIsTracked
<1>1. IInv => HeldOrderIsTracked
  BY DEF IInv
<1> QED BY <1>1, SubmitInvariant, PTL

\* A submit whose outcome is unknown keeps what a later lookup finds it by, the
\* route or the identity, whatever gave up on it: a lost answer, the deadline,
\* an exhausted ladder or a panic (submit_order_with_recovery_deadline,
\* recover_submit_outcome).
THEOREM UnknownSubmitsAreRecoverable == Spec => []UnknownIsRecoverable
<1>1. IInv => UnknownIsRecoverable
  BY DEF IInv
<1> QED BY <1>1, SubmitInvariant, PTL

\* An order the host was told is denied or rejected never lives at the broker,
\* and one that was denied keeps no route.
THEOREM DeadOrdersAreDead == Spec => [](DeadMeansDead /\ DeniedHasNoRoute)
<1>1. IInv => DeadMeansDead /\ DeniedHasNoRoute
  BY DEF IInv
<1> QED BY <1>1, SubmitInvariant, PTL

\* Only another broker report replaces what a broker report confirmed: neither
\* a timeout, nor an exhausted ladder, nor a panic reopens a settled submit.
THEOREM ConfirmationsLast == Spec => ConfirmedStaysConfirmed
<1> DEFINE Kept == \A l \in Legs : stage[l] \in Confirmed => stage'[l] \in Confirmed
<1>1. ASSUME IInv, Next PROVE Kept
  <2>0. Running => leg \in Legs /\ stage[leg] \in Stages
    BY <1>1 DEF IInv, DataOK, Frontier, Running
  <2>1. CASE UNCHANGED stage
    BY <2>1
  <2>2. CASE RecordPending
    BY <1>1, <2>2, <2>0 DEF RecordPending, SetStage, IInv, DataOK, Frontier, Running, Ahead, Confirmed
  <2>3. ASSUME Running, NEW s \in Stages \ {"none"}, SetStage(leg, MarkStage(leg, s))
        PROVE  Kept
    BY <1>1, <2>3, <2>0, MarkStageFacts DEF SetStage, IInv, DataOK
  <2>4. ASSUME NEW l \in Legs, NEW status \in Reportable(broker[l]),
               SetStage(l, StageOfReport(l, status))
        PROVE  Kept
    <3>1. stage[l] \in Stages /\ broker[l] \in BrokerStates
      BY <1>1 DEF IInv, DataOK
    <3>2. stage[l] \in Confirmed => StageOfReport(l, status) \in Confirmed
      BY <3>1, ReportFacts
    <3> QED BY <1>1, <2>4, <3>2 DEF SetStage, IInv, DataOK
  <2>5. CASE TaskStep
    <3>1. CASE PrepareFails \/ Prepared \/ DenyRest \/ Dispatch \/ NoBudget \/ Send \/ RetryMisses
      BY <3>1, <2>1
      DEF PrepareFails, Prepared, DenyRest, Deny, Dispatch, NoBudget, Send, RetryMisses, LookupEnds
    <3>2. CASE NotSent \/ VenueRejected
      BY <3>2, <2>3 DEF Running, NotSent, VenueRejected, Rejected, Stages, Confirmed
    <3>3. CASE Accepted
      BY <3>3, <2>0, <2>3, <2>4 DEF Running, Accepted, Reported, Stages, Blocking, Confirmed
    <3>4. CASE Ambiguous
      BY <3>4, <2>1, <2>3 DEF Running, Ambiguous, Stages, Blocking
    <3>5. CASE Resolved
      BY <3>5, <2>0, <2>4 DEF Running, Resolved, Reported
    <3>6. CASE Unresolved \/ LadderEnds
      BY <3>6, <2>3 DEF Running, Unresolved, LookupEnds, LadderEnds, Stages, Blocking
    <3> QED BY <2>2, <2>5, <3>1, <3>2, <3>3, <3>4, <3>5, <3>6 DEF TaskStep
  <2>6. CASE Panic
    BY <1>1, <2>6, MarkStageFacts DEF Panic, IInv, DataOK, Stages, Blocking
  <2>7. CASE DeadlinePasses
    BY <2>7, <2>1 DEF DeadlinePasses
  <2>8. CASE \E l \in Legs : BrokerMoves(l) \/ StreamReport(l)
    BY <2>8, <2>1, <2>4 DEF BrokerMoves, StreamReport, Reported
  <2> QED BY <1>1, <2>5, <2>6, <2>7, <2>8 DEF Next
<1>2. IInv /\ [Next]_vars => [Kept]_vars
  BY <1>1
<1> QED BY <1>2, SubmitInvariant, PTL DEF Spec, ConfirmedStaysConfirmed
=============================================================================
