--------------------------- MODULE SubmitRecovery ---------------------------
(***************************************************************************)
(* Submitting the legs of an order list to the broker and recovering an    *)
(* ambiguous outcome (execution/client/submit.rs, execution/client.rs and  *)
(* execution/client/nautilus.rs).  One admitted task dispatches the legs   *)
(* in order under one deadline; the execution streams report the orders    *)
(* meanwhile.  submit_order is a list of one leg, whose first deadline     *)
(* check is the one inside submit_order_with_recovery_deadline.            *)
(*                                                                         *)
(* A request whose answer was lost may still reach the broker later, so    *)
(* the broker's side is part of the state.                                 *)
(***************************************************************************)
EXTENDS Naturals, FiniteSets

CONSTANTS
    N,            \* number of legs
    MaxAttempts   \* SUBMIT_OUTCOME_RECOVERY_ATTEMPTS

ASSUME ParametersOK == N \in Nat \ {0} /\ MaxAttempts \in Nat

Legs == 1 .. N

Blocking  == {"Submitted", "Unknown", "Unresolved"}           \* blocks_lifecycle_reset
Confirmed == {"Accepted", "Rejected", "Filled", "Cancelled"}  \* is_broker_confirmed

VARIABLES
    pc,        \* where the submit task is
    leg,       \* the leg it works on
    attempts,  \* recovery attempts for that leg
    expired,   \* the recovery deadline has passed
    stage,     \* pending_submits: the stage of each leg, "none" before it is recorded
    route,     \* the legs with a pending route in the order index
    mapped,    \* the legs whose broker identity the order index knows
    told,      \* the last thing the host was told of each leg
    broker     \* the order behind each leg as the broker has it

task   == <<pc, leg, attempts>>
vars   == <<task, expired, stage, route, mapped, told, broker>>

\* "sent" is a request on its way, which may also never arrive.
BrokerStates == {"none", "sent", "live", "triggered", "filled", "cancelled", "refused"}
Processed    == BrokerStates \ {"none", "sent"}

Init ==
    /\ pc = "prepare" /\ leg = 1 /\ attempts = 0 /\ expired = FALSE
    /\ stage = [l \in Legs |-> "none"]
    /\ route = Legs /\ mapped = {}
    /\ told = [l \in Legs |-> "nothing"]
    /\ broker = [l \in Legs |-> "none"]

-----------------------------------------------------------------------------
\* The stage of a pending submit

\* mutation: an unconfirmed stage overwrites a confirmed one
MarkStage_Overwrites(l, s) == IF stage[l] = "none" THEN "none" ELSE s

\* mark_pending_submit_stage and mark_pending_submit_terminal: the stage of leg
\* l after a mark; a stage the broker confirmed gives way to no other kind.
MarkStage(l, s) ==
    IF stage[l] = "none" \/ (stage[l] \in Confirmed /\ s \notin Confirmed) THEN stage[l] ELSE s

\* A report can be about any state the order has been in.
Reportable(b) ==
    CASE b = "refused" -> {"refused"}
      [] b \in Processed \ {"refused"} -> {"live", b}
      [] OTHER -> {}

\* mark_pending_submit_order_report: a triggered stop leaves the stage alone.
StageOfReport(l, status) ==
    IF stage[l] = "none" THEN "none"
    ELSE CASE status = "live"      -> "Accepted"
           [] status = "filled"    -> "Filled"
           [] status = "cancelled" -> "Cancelled"
           [] status = "refused"   -> "Rejected"
           [] OTHER                -> stage[l]

SetStage(l, s) == stage' = [stage EXCEPT ![l] = s]
Tell(l, e)     == told' = [told EXCEPT ![l] = e]

\* The broker's order is turned into a report, which settles the stage and is
\* told to the host.
Reported(l) ==
    \E status \in Reportable(broker[l]) :
        /\ SetStage(l, StageOfReport(l, status))
        /\ Tell(l, IF status = "refused" THEN "rejected" ELSE "reported")

\* The task goes on with the leg after this one.
NextLeg ==
    /\ leg' = leg + 1 /\ attempts' = 0
    /\ pc' = IF leg = N THEN "done" ELSE "dispatch"

-----------------------------------------------------------------------------
\* The submit task

Deny(legs) ==
    /\ route' = route \ legs
    /\ told' = [l \in Legs |-> IF l \in legs THEN "denied" ELSE told[l]]
    /\ pc' = "done"
    /\ UNCHANGED <<leg, attempts, expired, stage, mapped, broker>>

PrepareFails == pc = "prepare" /\ Deny(Legs)

Prepared ==
    /\ pc = "prepare" /\ ~expired
    /\ pc' = "dispatch"
    /\ UNCHANGED <<leg, attempts, expired, stage, route, mapped, told, broker>>

\* mutation: the legs after the one that met the deadline are forgotten
DenyRest_OnlyThisLeg == pc = "dispatch" /\ expired /\ Deny({leg})

\* No dispatch window is left: this leg and the remaining ones are denied.
DenyRest == pc = "dispatch" /\ expired /\ Deny({l \in Legs : l >= leg})

Dispatch ==
    /\ pc = "dispatch" /\ ~expired
    /\ Tell(leg, "submitted")
    /\ pc' = "budget"
    /\ UNCHANGED <<leg, attempts, expired, stage, route, mapped, broker>>

\* Refused before the pending submit is recorded.
NoBudget ==
    /\ pc = "budget"
    /\ route' = route \ {leg}
    /\ Tell(leg, "rejected")
    /\ NextLeg
    /\ UNCHANGED <<expired, stage, mapped, broker>>

RecordPending ==
    /\ pc = "budget" /\ ~expired
    /\ SetStage(leg, "Submitted")
    /\ pc' = "send"
    /\ UNCHANGED <<leg, attempts, expired, route, mapped, told, broker>>

\* The outcome is final: nothing was sent, or the broker refused the request.
Rejected ==
    /\ route' = route \ {leg}
    /\ SetStage(leg, MarkStage(leg, "Rejected"))
    /\ Tell(leg, "rejected")
    /\ NextLeg
    /\ UNCHANGED <<expired, mapped, broker>>

NotSent == pc = "send" /\ Rejected

Send ==
    /\ pc = "send"
    /\ broker' = [broker EXCEPT ![leg] = "sent"]
    /\ pc' = "rpc"
    /\ UNCHANGED <<leg, attempts, expired, stage, route, mapped, told>>

\* mutation: any failed RPC counts as a refusal
VenueRejected_OnAnyError == pc = "rpc" /\ Rejected

VenueRejected == pc = "rpc" /\ broker[leg] = "refused" /\ Rejected

\* record_mapping moves the order from the routes to the identities.
MapLeg(l) == route' = route \ {l} /\ mapped' = mapped \cup {l}

\* A usable response: the identity is mapped, and the response is turned into a
\* report, which can fail; the stage then stays as the response left it.
Accepted ==
    /\ pc = "rpc" /\ broker[leg] \in Processed
    /\ MapLeg(leg)
    /\ \/ Reported(leg)
       \/ /\ SetStage(leg, MarkStage(leg,
                   IF broker[leg] = "refused" THEN "Rejected" ELSE "Submitted"))
          /\ UNCHANGED told
    /\ NextLeg
    /\ UNCHANGED <<expired, broker>>

\* mutation: the route goes although the outcome is not known
Ambiguous_ForgetsRoute ==
    /\ pc = "rpc"
    /\ route' = route \ {leg}
    /\ pc' = "recover"
    /\ UNCHANGED <<leg, attempts, expired, stage, mapped, told, broker>>

\* A lost or ambiguous answer; one without an identity is marked at once.
Ambiguous ==
    /\ pc = "rpc"
    /\ \/ UNCHANGED stage
       \/ broker[leg] \in Processed /\ SetStage(leg, MarkStage(leg, "Unknown"))
    /\ pc' = "recover"
    /\ UNCHANGED <<leg, attempts, expired, route, mapped, told, broker>>

\* A reconciliation step found the order and reports it.
Resolved ==
    /\ pc \in {"recover", "ladder"} /\ ~expired
    /\ pc = "ladder" => attempts < MaxAttempts
    /\ MapLeg(leg)
    /\ Reported(leg)
    /\ NextLeg
    /\ UNCHANGED <<expired, broker>>

\* A step that found nothing, or was cut off after it had mapped the order.
LookupEnds ==
    \/ UNCHANGED <<route, mapped>>
    \/ broker[leg] \in Processed /\ MapLeg(leg)

\* The immediate step did not resolve the submit.
Unresolved ==
    /\ pc = "recover"
    /\ SetStage(leg, MarkStage(leg, "Unknown"))
    /\ pc' = "ladder"
    /\ LookupEnds
    /\ UNCHANGED <<leg, attempts, expired, told, broker>>

\* mutation: the ladder is not bounded by its number of attempts
RetryMisses_Unbounded ==
    /\ pc = "ladder" /\ ~expired
    /\ attempts' = attempts + 1
    /\ UNCHANGED <<pc, leg, expired, stage, route, mapped, told, broker>>

RetryMisses ==
    /\ pc = "ladder" /\ ~expired /\ attempts < MaxAttempts
    /\ attempts' = attempts + 1
    /\ LookupEnds
    /\ UNCHANGED <<pc, leg, expired, stage, told, broker>>

\* mutation: a submit the ladder did not find counts as rejected
LadderEnds_AsRejected == pc = "ladder" /\ (expired \/ attempts = MaxAttempts) /\ Rejected

LadderEnds ==
    /\ pc = "ladder"
    /\ expired \/ attempts = MaxAttempts
    /\ SetStage(leg, MarkStage(leg, "Unresolved"))
    /\ NextLeg
    /\ UNCHANGED <<expired, route, mapped, told, broker>>

\* The task panics: every leg already recorded becomes unknown.
Panic ==
    /\ pc \notin {"done", "panicked"}
    /\ stage' = [l \in Legs |-> MarkStage(l, "Unknown")]
    /\ pc' = "panicked"
    /\ UNCHANGED <<leg, attempts, expired, route, mapped, told, broker>>

TaskStep ==
    \/ PrepareFails \/ Prepared \/ DenyRest \/ Dispatch \/ NoBudget \/ RecordPending
    \/ NotSent \/ Send \/ VenueRejected \/ Accepted \/ Ambiguous
    \/ Resolved \/ Unresolved \/ RetryMisses \/ LadderEnds

-----------------------------------------------------------------------------
\* Around the task

DeadlinePasses ==
    /\ ~expired
    /\ expired' = TRUE
    /\ UNCHANGED <<task, stage, route, mapped, told, broker>>

\* The broker processes a request, and the order moves on.
BrokerMoves(l) ==
    /\ \E b \in Processed :
          /\ \/ broker[l] = "sent" /\ b \in {"live", "refused"}
             \/ broker[l] = "live" /\ b \in {"triggered", "filled", "cancelled"}
             \/ broker[l] = "triggered" /\ b \in {"filled", "cancelled"}
          /\ broker' = [broker EXCEPT ![l] = b]
    /\ UNCHANGED <<task, expired, stage, route, mapped, told>>

\* A stream or a reconnect reconciliation reports the order.
StreamReport(l) ==
    /\ Reported(l)
    /\ MapLeg(l)
    /\ UNCHANGED <<task, expired, broker>>

Next ==
    \/ TaskStep \/ Panic \/ DeadlinePasses
    \/ \E l \in Legs : BrokerMoves(l) \/ StreamReport(l)

Spec == Init /\ [][Next]_vars

\* Every await of the task is bounded by the deadline or by a timeout.
FairSpec == Spec /\ WF_vars(TaskStep) /\ WF_vars(DeadlinePasses)

-----------------------------------------------------------------------------
\* The state has its shape.
TypeOK ==
    /\ pc \in {"prepare", "dispatch", "budget", "send", "rpc", "recover", "ladder",
              "done", "panicked"}
    /\ leg \in 1 .. N + 1 /\ attempts \in 0 .. MaxAttempts /\ expired \in BOOLEAN
    /\ stage \in [Legs -> Blocking \cup Confirmed \cup {"none"}]
    /\ route \in SUBSET Legs /\ mapped \in SUBSET Legs
    /\ told \in [Legs -> {"nothing", "denied", "submitted", "rejected", "reported"}]
    /\ broker \in [Legs -> BrokerStates]

\* While the broker has the order, or a request for it that may still arrive,
\* its submit blocks a reset or has been confirmed by a report: a timeout, a
\* lost answer, an exhausted ladder or a panic never drops it.
HeldOrderIsTracked ==
    \A l \in Legs : broker[l] \notin {"none", "refused"} =>
        stage[l] \in Blocking \cup (Confirmed \ {"Rejected"})

\* The host is told that an order is denied or rejected only when the broker
\* never has it: no order lives on at the broker that the host thinks is dead.
DeadMeansDead ==
    \A l \in Legs : told[l] \in {"denied", "rejected"} => broker[l] \in {"none", "refused"}

\* A submit whose outcome is not known can be found again: by its pending
\* route, which the reconnect reconciliation looks up, or by its identity.
UnknownIsRecoverable ==
    \A l \in Legs : stage[l] \in Blocking => l \in route \cup mapped

\* No leg that was denied keeps a route for a cancel to wait on.
DeniedHasNoRoute == \A l \in Legs : told[l] = "denied" => l \notin route

\* Nothing but another broker report replaces what a broker report confirmed:
\* a late timeout or panic never reopens a submit the stream has settled.
ConfirmedStaysConfirmed ==
    [][\A l \in Legs : stage[l] \in Confirmed => stage'[l] \in Confirmed]_vars

\* Unless the task panics, every leg of the list gets an answer: an event for
\* the host, or a pending submit that a report settles or that blocks the reset.
EveryLegIsAnswered ==
    <>(pc # "panicked" =>
          \A l \in Legs : told[l] \in {"denied", "rejected", "reported"}
                         \/ stage[l] \in Blocking \cup Confirmed)

=============================================================================
