---------------------------- MODULE PendingCancel ----------------------------
(***************************************************************************)
(* Cancelling one client order whose broker identity may still be unknown  *)
(* (execution/client/nautilus.rs cancel_order, execution/client.rs and     *)
(* execution/broker_order_index.rs).  A cancel that finds no identity      *)
(* waits for one with a deadline; a submit response, a stream event or a   *)
(* reconciliation announces it, or the submission is rejected.  A cancel   *)
(* whose RPC outcome is ambiguous stays in unresolved_cancellations.       *)
(*                                                                         *)
(* A step is one critical section of the order index (with the sets that   *)
(* section also locks), of the waiters, of unresolved_cancellations, or    *)
(* one RPC answer.                                                         *)
(***************************************************************************)
EXTENDS Naturals, FiniteSets

CONSTANTS
    Cancels,   \* cancel tasks of this order: cancel_order, or one order of cancel_all_orders
    Mappers,   \* tasks that learn a broker identity of the order; each learns its own
    None       \* no identity, no task

ASSUME NoneIsNew == None \notin Cancels \cup Mappers \cup {"rejected"} /\ "rejected" \notin Mappers

Identities == Mappers      \* the identity a mapper announces carries its name

VARIABLES
    pc,          \* where each cancel is
    sweep,       \* the cancel comes from cancel_all_orders
    ident,       \* the identity each cancel has been told to cancel
    mailbox,     \* what was sent to each cancel's oneshot channel
    was,         \* was_unresolved, read before the RPC
    error,       \* class of the RPC error a reconciliation follows
    result,      \* how each cancel ended
    waiters,     \* pending_cancel_waiters of the order that are not closed
    route,       \* pending_route_by_client_order_id has the order
    known,       \* by_client_order_id: the identity mapped last
    pending,     \* pending_cancel_client_order_ids has the order
    claimed,     \* pending_cancel_identity_claims has the order
    unresolved,  \* unresolved_cancellations
    mapper,      \* where each mapper is
    submit,      \* the submission: "accepted", or the steps of its rejection
    closed,      \* a broker report has closed the order
    owner,       \* the cancel that recorded the pending entry last
    consumed,    \* the cancel whose pending entry a mapping has taken
    sent,        \* cancels whose RPC has been sent
    doubt        \* cancels with an ambiguous RPC nothing has cleared up since

index   == <<route, known, pending, claimed, owner, consumed>>
cancel  == <<pc, sweep, ident, mailbox, was, error, result, sent>>
marks   == <<unresolved, doubt, closed>>
vars    == <<index, cancel, marks, waiters, mapper, submit>>

Pcs == {"idle", "resolve", "lookup", "wait", "expire", "check", "mark", "rpc", "reconcile",
        "recover", "retry", "recheck", "ended"}

Results == {"none", "canceled", "refused", "active", "failed", "unsent", "rejected",
            "joined", "unknown", "unreconciled"}

\* The order has been submitted by this client, or is one of the host's that the
\* client has no route for.
Init ==
    /\ pc = [c \in Cancels |-> "idle"]
    /\ sweep = [c \in Cancels |-> FALSE]
    /\ ident = [c \in Cancels |-> None]
    /\ mailbox = [c \in Cancels |-> None]
    /\ was = [c \in Cancels |-> FALSE]
    /\ error = [c \in Cancels |-> "none"]
    /\ result = [c \in Cancels |-> "none"]
    /\ waiters = {}
    /\ route \in BOOLEAN /\ known = None /\ pending = FALSE /\ claimed = FALSE
    /\ unresolved = {}
    /\ mapper = [m \in Mappers |-> "idle"]
    /\ submit \in IF route THEN {"accepted", "refusing"} ELSE {"accepted"}
    /\ closed = FALSE
    /\ owner = None /\ consumed = None /\ sent = {} /\ doubt = {}

Goto(c, l) == pc' = [pc EXCEPT ![c] = l]

End(c, r) ==
    /\ Goto(c, "ended")
    /\ result' = [result EXCEPT ![c] = r]

\* The cancel goes on to the RPC with this identity.
CancelIdentity(c, i) ==
    /\ ident' = [ident EXCEPT ![c] = i]
    /\ Goto(c, "check")

\* The broker has told what became of the order under this identity.
Settle(i) ==
    /\ unresolved' = unresolved \ {i}
    /\ doubt' = {c \in doubt : ident[c] # i}

-----------------------------------------------------------------------------
\* cancel_order: register, resolve, wait

Register(c) ==
    /\ pc[c] = "idle"
    /\ waiters' = waiters \cup {c}
    /\ Goto(c, "resolve")
    /\ UNCHANGED <<index, marks, mapper, submit, sweep, ident, mailbox, was, error, result, sent>>

\* cancel_all_orders takes the identities from the broker's open orders.
Sweep(c) ==
    /\ pc[c] = "idle"
    /\ submit = "accepted"
    /\ \E i \in Identities : CancelIdentity(c, i)
    /\ sweep' = [sweep EXCEPT ![c] = TRUE]
    /\ UNCHANGED <<index, marks, waiters, mapper, submit, mailbox, was, error, result, sent>>

\* The order's identity is known, or the command names one that the index has or
\* that has only a route: the waiter is dropped and the cancel goes on.
ResolveKnown(c) ==
    /\ pc[c] = "resolve"
    /\ \E i \in Identities :
          /\ i = known \/ (submit = "accepted" /\ (known # None \/ route))
          /\ CancelIdentity(c, i)
    /\ waiters' = waiters \ {c}
    /\ UNCHANGED <<index, marks, mapper, submit, sweep, mailbox, was, error, result, sent>>

\* Only a route is known: the first cancel to record the pending entry owns it
\* and waits; a later one leaves it to the owner.
ResolvePending(c) ==
    /\ pc[c] = "resolve"
    /\ known = None /\ route
    /\ claimed' = FALSE
    /\ pending' = TRUE
    /\ IF pending
         THEN /\ End(c, "joined")
              /\ waiters' = waiters \ {c}
              /\ UNCHANGED owner
         ELSE /\ Goto(c, "wait")
              /\ owner' = c
              /\ UNCHANGED <<waiters, result>>
    /\ UNCHANGED <<route, known, consumed, marks, mapper, submit,
                   sweep, ident, mailbox, was, error, sent>>

ResolveNothing(c) ==
    /\ pc[c] = "resolve"
    /\ known = None /\ ~route
    /\ End(c, "unsent")
    /\ waiters' = waiters \ {c}
    /\ UNCHANGED <<index, marks, mapper, submit, sweep, ident, mailbox, was, error, sent>>

\* Nothing is known of the identity the command names: the broker is asked
\* whether it is a stop order, ...
AskForStop(c) ==
    /\ pc[c] = "resolve"
    /\ known = None /\ ~route /\ submit = "accepted"
    /\ Goto(c, "lookup")
    /\ UNCHANGED <<index, marks, waiters, mapper, submit, sweep, ident, mailbox, was, error,
                   result, sent>>

\* ... which decides the route of the cancel, unless the question fails.
AnswerStop(c) ==
    /\ pc[c] = "lookup"
    /\ \/ \E i \in Identities : CancelIdentity(c, i) /\ UNCHANGED result
       \/ End(c, "unsent") /\ UNCHANGED ident
    /\ waiters' = waiters \ {c}
    /\ UNCHANGED <<index, marks, mapper, submit, sweep, mailbox, was, error, sent>>

Receive(c) ==
    /\ pc[c] = "wait"
    /\ mailbox[c] # None
    /\ IF mailbox[c] = "rejected"
         THEN End(c, "rejected") /\ UNCHANGED ident
         ELSE CancelIdentity(c, mailbox[c]) /\ UNCHANGED result
    /\ UNCHANGED <<index, marks, waiters, mapper, submit, sweep, mailbox, was, error, sent>>

\* The deadline passes, possibly just as the identity is being sent.
TimeOut(c) ==
    /\ pc[c] = "wait"
    /\ Goto(c, "expire")
    /\ waiters' = waiters \ {c}
    /\ UNCHANGED <<index, marks, mapper, submit, sweep, ident, mailbox, was, error, result, sent>>

\* mutation: the deadline drops the pending cancel without looking for a mapping
Expire_WithoutLooking(c) ==
    /\ pc[c] = "expire"
    /\ pending' = FALSE
    /\ End(c, "unsent")
    /\ UNCHANGED <<claimed, unresolved, ident, route, known, owner, consumed, waiters,
                   mapper, submit, sweep, mailbox, was, error, sent, doubt, closed>>

\* mutation: the deadline goes on with whatever identity the index holds
Expire_WithoutIdentity(c) ==
    /\ pc[c] = "expire"
    /\ claimed' = TRUE
    /\ unresolved' = unresolved \cup {known}
    /\ CancelIdentity(c, known)
    /\ UNCHANGED <<pending, result, route, known, owner, consumed, waiters, mapper, submit,
                   sweep, mailbox, was, error, sent, doubt, closed>>

\* finish_pending_cancel_wait: a mapping that came in time wins.
Expire(c) ==
    /\ pc[c] = "expire"
    /\ IF known # None
         THEN /\ claimed' = TRUE
              /\ unresolved' = unresolved \cup {known}
              /\ CancelIdentity(c, known)
              /\ UNCHANGED <<pending, result>>
         ELSE /\ pending' = FALSE
              /\ End(c, "unsent")
              /\ UNCHANGED <<claimed, unresolved, ident>>
    /\ UNCHANGED <<route, known, owner, consumed, waiters, mapper, submit,
                   sweep, mailbox, was, error, sent, doubt, closed>>

-----------------------------------------------------------------------------
\* cancel_resolved_broker_order_admitted

Check(c) ==
    /\ pc[c] = "check"
    /\ was' = [was EXCEPT ![c] = ident[c] \in unresolved]
    /\ Goto(c, "mark")
    /\ UNCHANGED <<index, marks, waiters, mapper, submit, sweep, ident, mailbox, error, result, sent>>

Mark(c) ==
    /\ pc[c] = "mark"
    /\ unresolved' = unresolved \cup {ident[c]}
    /\ sent' = sent \cup {c}
    /\ Goto(c, "rpc")
    /\ UNCHANGED <<index, doubt, closed, waiters, mapper, submit, sweep, ident, mailbox, was,
                   error, result>>

AnswerCanceled(c) ==
    /\ pc[c] = "rpc"
    /\ Settle(ident[c])
    /\ End(c, "canceled")
    /\ UNCHANGED <<index, closed, waiters, mapper, submit, sweep, ident, mailbox, was, error, sent>>

\* An order known to be closed or cancelled is in no doubt any more.
Doubted(c) ==
    IF closed \/ \E d \in Cancels : result[d] = "canceled" THEN doubt ELSE doubt \cup {c}

\* No answer, or one that does not say whether the order was cancelled.
AnswerAmbiguous(c) ==
    /\ pc[c] = "rpc"
    /\ unresolved' = unresolved \cup {ident[c]}
    /\ doubt' = Doubted(c)
    /\ Goto(c, "recover")
    /\ UNCHANGED <<index, closed, waiters, mapper, submit, sweep, ident, mailbox, was, error,
                   result, sent>>

\* A failed command that was not ambiguous: cancel_order retries what was not
\* sent, cancel_all_orders does not; a refusal by the broker ends both.
GiveUp(c, e) ==
    IF e = "NotSent" /\ ~sweep[c]
    THEN Goto(c, "recover") /\ UNCHANGED result
    ELSE End(c, IF e = "NotSent" THEN "failed" ELSE "refused")

\* What is wrong with the request is found before it is sent, or by the broker.
Errors == {"NotSent", "VenueRejected"}

\* A refusal says nothing about an earlier cancel of the identity, which only
\* a reconciliation can settle; without one the mark goes.
AnswerError(c) ==
    /\ pc[c] = "rpc"
    /\ \E e \in Errors :
          /\ error' = [error EXCEPT ![c] = e]
          /\ IF was[c]
               THEN Goto(c, "reconcile") /\ UNCHANGED <<result, unresolved>>
               ELSE GiveUp(c, e) /\ unresolved' = unresolved \ {ident[c]}
    /\ UNCHANGED <<index, doubt, closed, waiters, mapper, submit, sweep, ident, mailbox, was, sent>>

\* The order was read: cancelled, or still there, whatever its state.
Reconciled(c) ==
    /\ pc[c] = "reconcile"
    /\ Settle(ident[c])
    /\ \/ End(c, "canceled")
       \/ GiveUp(c, error[c])
    /\ UNCHANGED <<index, closed, waiters, mapper, submit, sweep, ident, mailbox, was, error, sent>>

\* The order could not be read; the class of that error decides what follows.
ReconcileFails(c) ==
    /\ pc[c] = "reconcile"
    /\ \/ Goto(c, "recover") /\ UNCHANGED result            \* ambiguous, or NotSent
       \/ End(c, "unreconciled")                            \* refused, or a sweep's NotSent
    /\ UNCHANGED <<index, marks, waiters, mapper, submit, sweep, ident, mailbox, was, error, sent>>

-----------------------------------------------------------------------------
\* recover_ambiguous_cancel

\* mutation: the recovery trusts the mark to be there already
Recover_WithoutMark(c) ==
    /\ pc[c] = "recover"
    /\ Goto(c, "retry")
    /\ UNCHANGED <<index, marks, waiters, mapper, submit, sweep, ident, mailbox, was,
                   error, result, sent>>

Recover(c) ==
    /\ pc[c] = "recover"
    /\ unresolved' = unresolved \cup {ident[c]}
    /\ Goto(c, "retry")
    /\ UNCHANGED <<index, doubt, closed, waiters, mapper, submit, sweep, ident, mailbox, was,
                   error, result, sent>>

\* One of the CANCEL_OUTCOME_RECOVERY_ATTEMPTS; an ambiguous one may be the last.
RetryAmbiguous(c) ==
    /\ pc[c] = "retry"
    /\ doubt' = Doubted(c)
    /\ \/ End(c, "unknown")
       \/ UNCHANGED <<pc, result>>
    /\ UNCHANGED <<index, unresolved, closed, waiters, mapper, submit, sweep, ident, mailbox,
                   was, error, sent>>

RetryCanceled(c) ==
    /\ pc[c] = "retry"
    /\ Settle(ident[c])
    /\ End(c, "canceled")
    /\ UNCHANGED <<index, closed, waiters, mapper, submit, sweep, ident, mailbox, was, error, sent>>

RetryTerminal(c) ==
    /\ pc[c] = "retry"
    /\ Goto(c, "recheck")
    /\ UNCHANGED <<index, marks, waiters, mapper, submit, sweep, ident, mailbox, was,
                   error, result, sent>>

Rechecked(c) ==
    /\ pc[c] = "recheck"
    /\ \/ /\ Settle(ident[c])
          /\ \E r \in {"canceled", "active"} : End(c, r)
       \/ End(c, "unknown") /\ UNCHANGED <<unresolved, doubt>>
    /\ UNCHANGED <<index, closed, waiters, mapper, submit, sweep, ident, mailbox, was, error, sent>>

-----------------------------------------------------------------------------
\* The identity arrives

\* record_mapping takes the pending entry; only then is anybody notified.
Map(m) ==
    /\ mapper[m] = "idle"
    /\ submit = "accepted"
    /\ known' = m
    /\ route' = FALSE
    /\ pending' = FALSE
    /\ consumed' = IF pending THEN owner ELSE consumed
    /\ mapper' = [mapper EXCEPT ![m] = IF pending THEN "mapped" ELSE "done"]
    /\ UNCHANGED <<claimed, owner, cancel, marks, waiters, submit>>

Notify(m) ==
    /\ mapper[m] = "mapped"
    /\ claimed' = FALSE
    /\ unresolved' = IF claimed THEN unresolved ELSE unresolved \cup {m}
    /\ mapper' = [mapper EXCEPT ![m] = "notifying"]
    /\ UNCHANGED <<route, known, pending, owner, consumed, cancel, doubt, closed, waiters, submit>>

Send(message) ==
    /\ mailbox' = [c \in Cancels |-> IF c \in waiters THEN message ELSE mailbox[c]]
    /\ waiters' = {}

Deliver(m) ==
    /\ mapper[m] = "notifying"
    /\ Send(m)
    /\ mapper' = [mapper EXCEPT ![m] = "done"]
    /\ UNCHANGED <<index, marks, submit, pc, sweep, ident, was, error, result, sent>>

\* remove_unresolved_broker_order_route: the route and the pending entry go
\* first, the waiters are told next.
RemoveRoute ==
    /\ submit = "refusing"
    /\ submit' = "telling"
    /\ route' = FALSE
    /\ pending' = (pending /\ ~route)
    /\ claimed' = FALSE
    /\ UNCHANGED <<known, owner, consumed, cancel, marks, waiters, mapper>>

RejectWaiters ==
    /\ submit = "telling"
    /\ submit' = "refused"
    /\ Send("rejected")
    /\ UNCHANGED <<index, marks, mapper, pc, sweep, ident, was, error, result, sent>>

\* settle_order_report_mutation_state with a report that closes the order; the
\* identities are aliases of one another and go together.
SettleClosed ==
    /\ known # None /\ ~closed
    /\ closed' = TRUE
    /\ unresolved' = {}
    /\ doubt' = {}
    /\ UNCHANGED <<index, cancel, waiters, mapper, submit>>

-----------------------------------------------------------------------------
CancelStep(c) ==
    \/ ResolveKnown(c) \/ ResolvePending(c) \/ ResolveNothing(c)
    \/ AskForStop(c) \/ AnswerStop(c)
    \/ Receive(c) \/ TimeOut(c) \/ Expire(c) \/ Check(c) \/ Mark(c)
    \/ AnswerCanceled(c) \/ AnswerAmbiguous(c) \/ AnswerError(c)
    \/ Reconciled(c) \/ ReconcileFails(c) \/ Recover(c)
    \/ RetryAmbiguous(c) \/ RetryCanceled(c) \/ RetryTerminal(c) \/ Rechecked(c)

Next ==
    \/ \E c \in Cancels : Register(c) \/ Sweep(c) \/ CancelStep(c)
    \/ \E m \in Mappers : Map(m) \/ Notify(m) \/ Deliver(m)
    \/ RemoveRoute \/ RejectWaiters \/ SettleClosed

Spec == Init /\ [][Next]_vars

-----------------------------------------------------------------------------
\* The state has its shape.
TypeOK ==
    /\ pc \in [Cancels -> Pcs]
    /\ sweep \in [Cancels -> BOOLEAN] /\ was \in [Cancels -> BOOLEAN]
    /\ ident \in [Cancels -> Identities \cup {None}]
    /\ mailbox \in [Cancels -> Identities \cup {None, "rejected"}]
    /\ error \in [Cancels -> {"none", "NotSent", "VenueRejected"}]
    /\ result \in [Cancels -> Results]
    /\ waiters \in SUBSET Cancels /\ sent \in SUBSET Cancels /\ doubt \in SUBSET Cancels
    /\ route \in BOOLEAN /\ pending \in BOOLEAN /\ claimed \in BOOLEAN /\ closed \in BOOLEAN
    /\ known \in Identities \cup {None}
    /\ unresolved \in SUBSET Identities
    /\ mapper \in [Mappers -> {"idle", "mapped", "notifying", "done"}]
    /\ submit \in {"accepted", "refusing", "telling", "refused"}
    /\ owner \in Cancels \cup {None} /\ consumed \in Cancels \cup {None}

\* A pending entry of the index always belongs to a cancel that is still
\* waiting, and at most one cancel waits: no entry is left behind to cancel an
\* order nobody asks to cancel any more, or to block a reset for ever.
PendingIsOwned ==
    /\ pending => pc[owner] \in {"wait", "expire"}
    /\ \A c, d \in Cancels : pc[c] \in {"wait", "expire"} /\ pc[d] \in {"wait", "expire"} => c = d

\* Once a mapping has taken the pending entry, its cancel does not end without
\* having been sent to the broker, however the deadline, the notification and a
\* rejection race.
ConsumedCancelIsSent ==
    consumed # None /\ pc[consumed] = "ended" => consumed \in sent

\* A cancel that waits for its order's identity is settled once: by the deadline,
\* which takes its entry away, or by a mapping, which sends it.
PendingCancelIsSettled == PendingIsOwned /\ ConsumedCancelIsSent

\* When nothing is under way, the order's identity is still marked only because
\* a cancel could not find out what became of it: a late notification never
\* resurrects the mark of a cancel that has been dealt with.  (A mark under an
\* identity another one has replaced waits for the report that closes the order.)
MarksHaveCause ==
    /\ \A c \in Cancels : pc[c] \in {"idle", "ended"}
    /\ \A m \in Mappers : mapper[m] \notin {"mapped", "notifying"}
    => (known \in unresolved => \E c \in Cancels :
          ident[c] = known /\ result[c] \in {"unknown", "unreconciled"})

Doubtful(c) == result[c] = "unknown" /\ c \in doubt

\* Another cancel of the same identity was refused or not sent, or has read that
\* the order is active.
AnsweredBeside(c) ==
    \E d \in Cancels \ {c} :
        ident[d] = ident[c] /\ (error[d] # "none" \/ result[d] = "active")

\* A cancel that gave up on an ambiguous outcome, about which nothing has been
\* learnt since, is still in unresolved_cancellations, so that disconnect
\* reports it and reset waits for it; only the answer to another cancel of the
\* same identity can have taken the mark away.
AmbiguousCancelRetained ==
    \A c \in Cancels : Doubtful(c) => ident[c] \in unresolved \/ AnsweredBeside(c)

\* unresolved_cancellations holds what it should: no mark without a cancel that
\* is in doubt, and no such cancel without its mark.
MarksAreExact == MarksHaveCause /\ AmbiguousCancelRetained

=============================================================================
