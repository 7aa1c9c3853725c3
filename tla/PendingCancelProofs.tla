-------------------------- MODULE PendingCancelProofs --------------------------
(***************************************************************************)
(* The cancels of an order whose identity is still unknown, for any number *)
(* of cancels and of tasks that learn an identity: proofs about            *)
(* PendingCancel.                                                          *)
(***************************************************************************)
EXTENDS PendingCancel, TLAPS

Waiting(c)  == pc[c] \in {"wait", "expire"}
Calling(c)  == pc[c] \in {"rpc", "reconcile", "recover", "retry", "recheck"}

\* A cancel that has gone on to the RPC has an identity.
CallersHaveIdentity ==
    \A c \in Cancels : pc[c] \in {"check", "mark"} \/ Calling(c) => ident[c] # None

\* The pending entry belongs to the only cancel that waits.
EntryIsOwned ==
    /\ pending => known = None /\ owner \in Cancels /\ Waiting(owner)
    /\ \A c \in Cancels : Waiting(c) => (pending /\ owner = c) \/ known # None \/ ~route
    /\ \A c, d \in Cancels : Waiting(c) /\ Waiting(d) => c = d

\* Nobody is told before the entry has been taken away for good.
ToldIsTaken ==
    /\ \A c \in Cancels : mailbox[c] # None => ~pending /\ (known # None \/ ~route)
    /\ \A m \in Mappers : mapper[m] \in {"mapped", "notifying"} => known # None

\* The submission is refused only before an identity is known.
RefusedIsUnknown ==
    /\ submit = "refusing" => route
    /\ submit \in {"telling", "refused"} => ~route /\ ~pending
    /\ known # None => submit = "accepted"
    /\ \A c \in Cancels : mailbox[c] = "rejected" => submit = "refused"

\* The cancel whose entry was taken waits, or goes on to the RPC.
ConsumedGoesOn ==
    /\ consumed # None => known # None /\ pc[consumed] \notin {"idle", "resolve", "lookup"}
    /\ \A c \in Cancels : Calling(c) => c \in sent
    /\ ConsumedCancelIsSent

IInv == /\ TypeOK /\ CallersHaveIdentity /\ EntryIsOwned /\ ToldIsTaken
        /\ RefusedIsUnknown /\ ConsumedGoesOn

LEMMA InitIInv == Init => IInv
<1> SUFFICES ASSUME Init PROVE IInv OBVIOUS
<1> USE NoneIsNew
<1>1. TypeOK BY DEF Init, TypeOK, Pcs, Results, Identities
<1>2. \A c \in Cancels : pc[c] = "idle" /\ mailbox[c] = None BY DEF Init
<1>3. CallersHaveIdentity BY <1>2 DEF CallersHaveIdentity, Calling
<1>4. EntryIsOwned BY <1>2 DEF EntryIsOwned, Waiting, Init
<1>5. ToldIsTaken BY <1>2 DEF ToldIsTaken, Init
<1>6. RefusedIsUnknown BY <1>2 DEF RefusedIsUnknown, Init
<1>7. ConsumedGoesOn BY <1>2 DEF ConsumedGoesOn, ConsumedCancelIsSent, Calling, Init
<1> QED BY <1>1, <1>3, <1>4, <1>5, <1>6, <1>7 DEF IInv

LEMMA TypeStep == ASSUME IInv, [Next]_vars PROVE TypeOK'
<1> USE DEF index, cancel, marks, TypeOK, Pcs, Results, Identities
<1>1. TypeOK /\ CallersHaveIdentity BY DEF IInv
<1>2. ASSUME NEW c \in Cancels, Register(c) \/ Sweep(c) PROVE TypeOK'
    BY <1>1, <1>2, ZenonT(60) DEF Register, Sweep, Goto, CancelIdentity
<1>3. ASSUME NEW c \in Cancels, CancelStep(c) PROVE TypeOK'
  <2> USE DEF Goto, End, CancelIdentity, Settle
  <2>1. CASE ResolveKnown(c) \/ ResolveNothing(c) \/ AskForStop(c) \/ AnswerStop(c)
             \/ TimeOut(c) \/ Check(c)
    <3>1. CASE ResolveKnown(c) BY <1>1, <3>1 DEF ResolveKnown
    <3>2. CASE ResolveNothing(c) BY <1>1, <3>2 DEF ResolveNothing
    <3>3. CASE TimeOut(c) BY <1>1, <3>3 DEF TimeOut
    <3>4. CASE Check(c) BY <1>1, <3>4 DEF Check
    <3>5. CASE AskForStop(c) BY <1>1, <3>5 DEF AskForStop
    <3>6. CASE AnswerStop(c) BY <1>1, <3>6 DEF AnswerStop
    <3> QED BY <2>1, <3>1, <3>2, <3>3, <3>4, <3>5, <3>6
  <2>2. CASE ResolvePending(c) BY <1>1, <2>2 DEF ResolvePending
  <2>3. CASE Receive(c) BY <1>1, <2>3 DEF Receive
  <2>4. CASE Expire(c)
    <3>1. CASE known # None BY <1>1, <2>4, <3>1 DEF Expire
    <3>2. CASE known = None BY <1>1, <2>4, <3>2 DEF Expire
    <3> QED BY <3>1, <3>2
  <2>5. CASE pc[c] = "mark" \/ Calling(c)
    <3>1. ident[c] \in Mappers BY <1>1, <2>5 DEF CallersHaveIdentity
    <3>2. CASE Mark(c) \/ Recover(c) BY <1>1, <3>1, <3>2 DEF Mark, Recover
    <3>3. CASE AnswerCanceled(c) \/ RetryCanceled(c)
        BY <1>1, <3>3 DEF AnswerCanceled, RetryCanceled
    <3>4. CASE AnswerAmbiguous(c) \/ RetryAmbiguous(c)
        BY <1>1, <3>1, <3>4 DEF AnswerAmbiguous, RetryAmbiguous, Doubted
    <3>5. CASE AnswerError(c) BY <1>1, <3>5 DEF AnswerError, Errors, GiveUp
    <3>6. CASE Reconciled(c) BY <1>1, <3>6 DEF Reconciled, GiveUp
    <3>7. CASE ReconcileFails(c) \/ RetryTerminal(c) \/ Rechecked(c)
        BY <1>1, <3>7 DEF ReconcileFails, RetryTerminal, Rechecked
    <3>8. ~(ResolveKnown(c) \/ ResolvePending(c) \/ ResolveNothing(c) \/ AskForStop(c)
            \/ AnswerStop(c) \/ Receive(c) \/ TimeOut(c) \/ Expire(c) \/ Check(c))
        BY <2>5 DEF Calling, ResolveKnown, ResolvePending, ResolveNothing, AskForStop, AnswerStop, Receive, TimeOut,
            Expire, Check
    <3> QED BY <1>3, <3>2, <3>3, <3>4, <3>5, <3>6, <3>7, <3>8 DEF CancelStep
  <2> QED
      BY <1>3, <2>1, <2>2, <2>3, <2>4, <2>5 DEF CancelStep, Calling, Mark, AnswerCanceled,
          AnswerAmbiguous, AnswerError, Reconciled, ReconcileFails, Recover, RetryAmbiguous,
          RetryCanceled, RetryTerminal, Rechecked
<1>4. ASSUME NEW m \in Mappers, Map(m) \/ Notify(m) \/ Deliver(m) PROVE TypeOK'
  <2>1. CASE Map(m) BY <1>1, <2>1 DEF Map
  <2>2. CASE Notify(m) BY <1>1, <2>2 DEF Notify
  <2>3. CASE Deliver(m) BY <1>1, <2>3 DEF Deliver, Send
  <2> QED BY <1>4, <2>1, <2>2, <2>3
<1>5. CASE RemoveRoute \/ RejectWaiters \/ SettleClosed
    BY <1>1, <1>5, ZenonT(60) DEF RemoveRoute, RejectWaiters, SettleClosed, Send
<1>6. CASE UNCHANGED vars BY <1>1, <1>6 DEF vars
<1> QED BY <1>2, <1>3, <1>4, <1>5, <1>6 DEF Next

\* A cancel moves on without touching the order index.
LEMMA QuietStep ==
    ASSUME IInv, TypeOK', NEW c \in Cancels,
           UNCHANGED <<route, known, pending, owner, consumed, mailbox, mapper, submit>>,
           \A d \in Cancels \ {c} : pc'[d] = pc[d] /\ ident'[d] = ident[d],
           sent \subseteq sent',
           (Waiting(c))' => Waiting(c),
           Waiting(c) /\ ~(Waiting(c))' => ~pending,
           pc'[c] \in {"check", "mark"} \/ (Calling(c))' => ident'[c] # None,
           pc'[c] \in {"idle", "resolve", "lookup"} => pc[c] \in {"idle", "resolve", "lookup"},
           (Calling(c))' => c \in sent',
           pc'[c] = "ended" /\ consumed = c => c \in sent'
    PROVE  IInv'
<1>1. CallersHaveIdentity'
  <2>1. \A d \in Cancels \ {c} : (Calling(d))' = Calling(d) BY DEF Calling
  <2> QED BY <2>1 DEF IInv, CallersHaveIdentity
<1>2. EntryIsOwned'
  <2>1. \A d \in Cancels : (Waiting(d))' => Waiting(d) BY DEF Waiting
  <2>2. pending => (Waiting(owner))'
    <3> SUFFICES ASSUME pending PROVE (Waiting(owner))' OBVIOUS
    <3>1. owner \in Cancels /\ Waiting(owner) BY DEF IInv, EntryIsOwned
    <3> QED BY <3>1 DEF Waiting
  <2> QED BY <2>1, <2>2 DEF IInv, EntryIsOwned
<1>3. ToldIsTaken' BY DEF IInv, ToldIsTaken
<1>4. RefusedIsUnknown' BY DEF IInv, RefusedIsUnknown
<1>5. ConsumedGoesOn'
  <2>1. consumed # None => consumed \in Cancels BY DEF IInv, TypeOK
  <2>2. consumed # None => known # None /\ pc'[consumed] \notin {"idle", "resolve", "lookup"}
      BY <2>1 DEF IInv, ConsumedGoesOn
  <2>3. ASSUME NEW d \in Cancels, (Calling(d))' PROVE d \in sent'
      BY <2>3 DEF IInv, ConsumedGoesOn, Calling
  <2>4. consumed # None /\ pc'[consumed] = "ended" => consumed \in sent'
      BY <2>1 DEF IInv, ConsumedGoesOn, ConsumedCancelIsSent
  <2> QED BY <2>2, <2>3, <2>4 DEF ConsumedGoesOn, ConsumedCancelIsSent
<1> QED BY <1>1, <1>2, <1>3, <1>4, <1>5 DEF IInv

\* A cancel on its way through the RPC has been sent and stays so.
LEMMA CallingStep ==
    ASSUME IInv, TypeOK', NEW c \in Cancels, Calling(c),
           UNCHANGED <<index, mailbox, mapper, submit, ident, sent>>,
           \A d \in Cancels \ {c} : pc'[d] = pc[d],
           (Calling(c))' \/ pc'[c] = "ended"
    PROVE  IInv'
<1>1. ident[c] # None /\ c \in sent
    BY DEF IInv, CallersHaveIdentity, ConsumedGoesOn
<1>2. ~(Waiting(c))' /\ ~Waiting(c) /\ pc'[c] \notin {"idle", "resolve", "lookup"}
    BY DEF Waiting, Calling
<1> QED BY <1>1, <1>2, QuietStep DEF index

LEMMA CancelKeepsIInv == ASSUME IInv, TypeOK', NEW c \in Cancels, CancelStep(c) PROVE IInv'
<1> USE DEF index, marks, Goto, End, CancelIdentity
<1>1. TypeOK BY DEF IInv
<1>2. CASE ResolveKnown(c)
  <2>1. pc[c] = "resolve" /\ pc'[c] = "check" /\ ident'[c] # None
        /\ \A d \in Cancels \ {c} : pc'[d] = pc[d] /\ ident'[d] = ident[d]
      BY <1>1, <1>2, NoneIsNew DEF ResolveKnown, TypeOK, Identities
  <2> QED BY <1>2, <2>1, QuietStep DEF ResolveKnown, Waiting, Calling
<1>3. CASE ResolvePending(c)
  <2>1. pc[c] = "resolve" /\ known = None /\ route /\ pending'
        /\ (\A d \in Cancels \ {c} : pc'[d] = pc[d])
        /\ UNCHANGED <<route, known, consumed, mailbox, mapper, submit, ident, sent>>
      BY <1>1, <1>3 DEF ResolvePending, TypeOK
  <2>2. consumed = None BY <2>1 DEF IInv, ConsumedGoesOn
  <2>3. CallersHaveIdentity' /\ ConsumedGoesOn'
    <3>1. pc'[c] \in {"ended", "wait"} BY <1>1, <1>3 DEF ResolvePending, TypeOK
    <3>2. \A d \in Cancels : (Calling(d))' => Calling(d) BY <2>1, <3>1 DEF Calling
    <3> QED BY <2>1, <2>2, <3>1, <3>2 DEF IInv, CallersHaveIdentity, ConsumedGoesOn,
        ConsumedCancelIsSent
  <2>4. ToldIsTaken'
      BY <2>1 DEF IInv, ToldIsTaken
  <2>5. RefusedIsUnknown' BY <2>1 DEF IInv, RefusedIsUnknown
  <2>6. CASE pending
    <3>1. pc'[c] = "ended" /\ owner' = owner BY <1>1, <1>3, <2>6 DEF ResolvePending, TypeOK
    <3>2. \A d \in Cancels : (Waiting(d))' <=> Waiting(d) BY <2>1, <3>1 DEF Waiting
    <3>3. EntryIsOwned' BY <2>1, <2>6, <3>1, <3>2 DEF IInv, EntryIsOwned
    <3> QED BY <2>3, <2>4, <2>5, <3>3 DEF IInv
  <2>7. CASE ~pending
    <3>1. pc'[c] = "wait" /\ owner' = c BY <1>1, <1>3, <2>7 DEF ResolvePending, TypeOK
    <3>2. \A d \in Cancels : (Waiting(d))' <=> d = c
        BY <2>1, <2>7, <3>1 DEF IInv, EntryIsOwned, Waiting
    <3>3. EntryIsOwned' BY <2>1, <3>1, <3>2 DEF EntryIsOwned
    <3> QED BY <2>3, <2>4, <2>5, <3>3 DEF IInv
  <2> QED BY <2>6, <2>7
<1>4. CASE ResolveNothing(c)
  <2>1. pc[c] = "resolve" /\ pc'[c] = "ended" /\ \A d \in Cancels \ {c} : pc'[d] = pc[d]
      BY <1>1, <1>4 DEF ResolveNothing, TypeOK
  <2>2. consumed # c BY <2>1, NoneIsNew DEF IInv, ConsumedGoesOn
  <2> QED BY <1>4, <2>1, <2>2, QuietStep DEF ResolveNothing, Waiting, Calling
<1>5. CASE Receive(c)
  <2>1. pc[c] = "wait" /\ mailbox[c] # None /\ ~pending
      BY <1>5 DEF Receive, IInv, ToldIsTaken
  <2>2. CASE mailbox[c] = "rejected"
    <3>1. pc'[c] = "ended" /\ \A d \in Cancels \ {c} : pc'[d] = pc[d]
        BY <1>1, <1>5, <2>2 DEF Receive, TypeOK
    <3>2. consumed # c BY <2>2, NoneIsNew DEF IInv, RefusedIsUnknown, ConsumedGoesOn
    <3> QED BY <1>5, <2>1, <2>2, <3>1, <3>2, QuietStep DEF Receive, Waiting, Calling
  <2>3. CASE mailbox[c] # "rejected"
    <3>1. pc'[c] = "check" /\ ident'[c] # None
          /\ \A d \in Cancels \ {c} : pc'[d] = pc[d] /\ ident'[d] = ident[d]
        BY <1>1, <1>5, <2>1, <2>3 DEF Receive, TypeOK
    <3> QED BY <1>5, <2>1, <3>1, QuietStep DEF Receive, Waiting, Calling
  <2> QED BY <2>2, <2>3
<1>6. CASE TimeOut(c)
  <2>1. pc[c] = "wait" /\ pc'[c] = "expire" /\ \A d \in Cancels \ {c} : pc'[d] = pc[d]
      BY <1>1, <1>6 DEF TimeOut, TypeOK
  <2> QED BY <1>6, <2>1, QuietStep DEF TimeOut, Waiting, Calling
<1>7. CASE Expire(c)
  <2>1. CASE known # None
    <3>1. pc[c] = "expire" /\ pc'[c] = "check" /\ ident'[c] # None /\ ~pending /\ ~pending'
          /\ \A d \in Cancels \ {c} : pc'[d] = pc[d] /\ ident'[d] = ident[d]
        BY <1>1, <1>7, <2>1 DEF Expire, TypeOK, IInv, EntryIsOwned
    <3> QED BY <1>7, <2>1, <3>1, QuietStep DEF Expire, Waiting, Calling
  <2>2. CASE known = None
    <3>1. /\ pc[c] = "expire" /\ pc'[c] = "ended" /\ ~pending'
          /\ \A d \in Cancels \ {c} : pc'[d] = pc[d]
          /\ UNCHANGED <<route, known, owner, consumed, mailbox, mapper, submit, ident, sent>>
        BY <1>1, <1>7, <2>2 DEF Expire, TypeOK
    <3>2. consumed = None BY <2>2 DEF IInv, ConsumedGoesOn
    <3>3. \A d \in Cancels : (Waiting(d))' <=> FALSE
        BY <3>1 DEF IInv, EntryIsOwned, Waiting
    <3>4. \A d \in Cancels : (Calling(d))' => Calling(d) BY <3>1 DEF Calling
    <3>5. EntryIsOwned' BY <3>1, <3>3 DEF EntryIsOwned
    <3>6. ToldIsTaken' /\ RefusedIsUnknown' BY <3>1 DEF IInv, ToldIsTaken, RefusedIsUnknown
    <3>7. CallersHaveIdentity' /\ ConsumedGoesOn'
        BY <3>1, <3>2, <3>4 DEF IInv, CallersHaveIdentity, ConsumedGoesOn, ConsumedCancelIsSent
    <3> QED BY <3>5, <3>6, <3>7 DEF IInv
  <2> QED BY <2>1, <2>2
<1>8. CASE Check(c)
  <2>1. pc[c] = "check" /\ pc'[c] = "mark" /\ \A d \in Cancels \ {c} : pc'[d] = pc[d]
      BY <1>1, <1>8 DEF Check, TypeOK
  <2>2. ident[c] # None BY <2>1 DEF IInv, CallersHaveIdentity
  <2> QED BY <1>8, <2>1, <2>2, QuietStep DEF Check, Waiting, Calling
<1>9. CASE Mark(c)
  <2>1. pc[c] = "mark" /\ pc'[c] = "rpc" /\ \A d \in Cancels \ {c} : pc'[d] = pc[d]
      BY <1>1, <1>9 DEF Mark, TypeOK
  <2>2. ident[c] # None BY <2>1 DEF IInv, CallersHaveIdentity
  <2> QED BY <1>9, <2>1, <2>2, QuietStep DEF Mark, Waiting, Calling
<1>10. CASE AnswerCanceled(c) \/ RetryCanceled(c) \/ AnswerAmbiguous(c) \/ Recover(c)
  <2>1. Calling(c) /\ ((Calling(c))' \/ pc'[c] = "ended") /\ \A d \in Cancels \ {c} : pc'[d] = pc[d]
      BY <1>1, <1>10 DEF AnswerCanceled, RetryCanceled, AnswerAmbiguous, Recover, TypeOK, Calling
  <2> QED BY <1>10, <2>1, CallingStep
      DEF AnswerCanceled, RetryCanceled, AnswerAmbiguous, Recover
<1>11. CASE RetryAmbiguous(c) \/ RetryTerminal(c) \/ Rechecked(c) \/ ReconcileFails(c)
  <2>1. Calling(c) /\ ((Calling(c))' \/ pc'[c] = "ended") /\ \A d \in Cancels \ {c} : pc'[d] = pc[d]
      BY <1>1, <1>11 DEF RetryAmbiguous, RetryTerminal, Rechecked, ReconcileFails, TypeOK, Calling
  <2> QED BY <1>11, <2>1, CallingStep
      DEF RetryAmbiguous, RetryTerminal, Rechecked, ReconcileFails
<1>12. CASE AnswerError(c) \/ Reconciled(c)
  <2>1. Calling(c) /\ ((Calling(c))' \/ pc'[c] = "ended") /\ \A d \in Cancels \ {c} : pc'[d] = pc[d]
      BY <1>1, <1>12 DEF AnswerError, Errors, Reconciled, GiveUp, TypeOK, Calling
  <2> QED BY <1>12, <2>1, CallingStep DEF AnswerError, Reconciled
<1>13. CASE AskForStop(c)
  <2>1. pc[c] = "resolve" /\ pc'[c] = "lookup" /\ \A d \in Cancels \ {c} : pc'[d] = pc[d]
      BY <1>1, <1>13 DEF AskForStop, TypeOK
  <2> QED BY <1>13, <2>1, QuietStep DEF AskForStop, Waiting, Calling
<1>14. CASE AnswerStop(c)
  <2>1. /\ pc[c] = "lookup" /\ pc'[c] \in {"check", "ended"}
        /\ pc'[c] = "check" => ident'[c] # None
        /\ \A d \in Cancels \ {c} : pc'[d] = pc[d] /\ ident'[d] = ident[d]
      BY <1>1, <1>14, NoneIsNew DEF AnswerStop, TypeOK, Identities
  <2>2. consumed # c BY <2>1, NoneIsNew DEF IInv, ConsumedGoesOn
  <2> QED BY <1>14, <2>1, <2>2, QuietStep DEF AnswerStop, Waiting, Calling
<1> QED
    BY <1>2, <1>3, <1>4, <1>5, <1>6, <1>7, <1>8, <1>9, <1>10, <1>11, <1>12, <1>13, <1>14
    DEF CancelStep

\* What happens beside the cancels: no cancel moves.
LEMMA BesideKeepsIInv ==
    ASSUME IInv, TypeOK', UNCHANGED <<pc, ident, sent>>, EntryIsOwned', ToldIsTaken',
           RefusedIsUnknown',
           consumed' = consumed \/ (known' # None /\ (consumed' # None => Waiting(consumed'))),
           known # None => known' # None
    PROVE  IInv'
<1>1. CallersHaveIdentity' BY DEF IInv, CallersHaveIdentity, Calling
<1>2. ConsumedGoesOn'
  <2>1. \A c \in Cancels : (Calling(c))' => c \in sent' BY DEF IInv, ConsumedGoesOn, Calling
  <2>2. consumed' # None => known' # None /\ pc'[consumed'] \notin {"idle", "resolve", "lookup"}
        /\ (pc'[consumed'] = "ended" => consumed' \in sent')
      BY DEF IInv, ConsumedGoesOn, ConsumedCancelIsSent, Waiting
  <2> QED BY <2>1, <2>2 DEF ConsumedGoesOn, ConsumedCancelIsSent
<1> QED BY <1>1, <1>2 DEF IInv

LEMMA OthersKeepIInv ==
    ASSUME IInv, TypeOK',
           (\E m \in Mappers : Map(m) \/ Notify(m) \/ Deliver(m))
           \/ RemoveRoute \/ RejectWaiters \/ SettleClosed
    PROVE  IInv'
<1> USE NoneIsNew DEF index, cancel, marks
<1>1. ASSUME NEW m \in Mappers, Map(m) PROVE IInv'
  <2>1. known' # None /\ ~pending' /\ submit' = "accepted" /\ UNCHANGED <<pc, ident, sent, mailbox, submit>>
      BY <1>1 DEF Map
  <2>2. EntryIsOwned' BY <2>1 DEF IInv, EntryIsOwned, Waiting
  <2>3. ToldIsTaken' BY <2>1 DEF ToldIsTaken
  <2>4. RefusedIsUnknown' BY <2>1 DEF IInv, RefusedIsUnknown
  <2>5. consumed' = consumed \/ (consumed' # None => Waiting(consumed'))
      BY <1>1 DEF Map, IInv, EntryIsOwned
  <2> QED BY <2>1, <2>2, <2>3, <2>4, <2>5, BesideKeepsIInv
<1>2. ASSUME NEW m \in Mappers, Notify(m) PROVE IInv'
  <2>1. known # None /\ UNCHANGED <<route, known, pending, owner, consumed, pc, ident, sent, mailbox, submit>>
      BY <1>2 DEF Notify, IInv, ToldIsTaken
  <2>2. EntryIsOwned' /\ ToldIsTaken' /\ RefusedIsUnknown'
      BY <2>1 DEF IInv, EntryIsOwned, Waiting, ToldIsTaken, RefusedIsUnknown
  <2> QED BY <2>1, <2>2, BesideKeepsIInv
<1>3. ASSUME NEW m \in Mappers, Deliver(m) PROVE IInv'
  <2>1. known # None /\ UNCHANGED <<route, known, pending, owner, consumed, pc, ident, sent, submit>>
      BY <1>3 DEF Deliver, IInv, ToldIsTaken
  <2>2. \A c \in Cancels : mailbox'[c] = mailbox[c] \/ mailbox'[c] = m
      BY <1>3 DEF Deliver, Send, IInv, TypeOK
  <2>3. ~pending BY <2>1 DEF IInv, EntryIsOwned
  <2>4. EntryIsOwned' BY <2>1 DEF IInv, EntryIsOwned, Waiting
  <2>5. ToldIsTaken' BY <2>1, <2>3 DEF ToldIsTaken
  <2>6. RefusedIsUnknown' BY <2>1, <2>2 DEF IInv, RefusedIsUnknown
  <2> QED BY <2>1, <2>4, <2>5, <2>6, BesideKeepsIInv
<1>4. CASE RemoveRoute
  <2>1. /\ route /\ ~route' /\ ~pending' /\ submit' = "telling" /\ known = None
        /\ UNCHANGED <<known, owner, consumed, pc, ident, sent, mailbox, mapper>>
      BY <1>4 DEF RemoveRoute, IInv, RefusedIsUnknown
  <2>2. EntryIsOwned' BY <2>1 DEF IInv, EntryIsOwned, Waiting
  <2>3. ToldIsTaken' BY <2>1 DEF IInv, ToldIsTaken
  <2>4. RefusedIsUnknown' BY <1>4, <2>1 DEF RemoveRoute, IInv, RefusedIsUnknown
  <2> QED BY <2>1, <2>2, <2>3, <2>4, BesideKeepsIInv
<1>5. CASE RejectWaiters
  <2>1. /\ ~route /\ ~pending /\ submit' = "refused" /\ known = None
        /\ UNCHANGED <<route, known, pending, owner, consumed, pc, ident, sent, mapper>>
      BY <1>5 DEF RejectWaiters, IInv, RefusedIsUnknown
  <2>2. EntryIsOwned' BY <2>1 DEF IInv, EntryIsOwned, Waiting
  <2>3. ToldIsTaken' BY <2>1 DEF IInv, ToldIsTaken
  <2>4. RefusedIsUnknown' BY <2>1 DEF RefusedIsUnknown
  <2> QED BY <2>1, <2>2, <2>3, <2>4, BesideKeepsIInv
<1>6. CASE SettleClosed
  <2>1. UNCHANGED <<route, known, pending, owner, consumed, pc, ident, sent, mailbox, mapper, submit>>
      BY <1>6 DEF SettleClosed
  <2>2. EntryIsOwned' /\ ToldIsTaken' /\ RefusedIsUnknown'
      BY <2>1 DEF IInv, EntryIsOwned, Waiting, ToldIsTaken, RefusedIsUnknown
  <2> QED BY <2>1, <2>2, BesideKeepsIInv
<1> QED BY <1>1, <1>2, <1>3, <1>4, <1>5, <1>6

LEMMA NextIInv == IInv /\ [Next]_vars => IInv'
<1> SUFFICES ASSUME IInv, [Next]_vars PROVE IInv' OBVIOUS
<1>1. TypeOK' BY TypeStep
<1>2. ASSUME NEW c \in Cancels, Register(c) \/ Sweep(c) PROVE IInv'
  <2>1. /\ pc[c] = "idle" /\ pc'[c] \in {"resolve", "check"}
        /\ pc'[c] = "check" => ident'[c] # None
        /\ \A d \in Cancels \ {c} : pc'[d] = pc[d] /\ ident'[d] = ident[d]
        /\ UNCHANGED <<index, mailbox, mapper, submit, sent>>
      BY <1>2, NoneIsNew
      DEF Register, Sweep, Goto, CancelIdentity, IInv, TypeOK, Identities
  <2> QED BY <1>1, <2>1, QuietStep DEF index, Waiting, Calling
<1>3. CASE UNCHANGED vars
    BY <1>1, <1>3 DEF vars, index, cancel, marks, IInv, CallersHaveIdentity, Calling,
        EntryIsOwned, Waiting, ToldIsTaken, RefusedIsUnknown, ConsumedGoesOn,
        ConsumedCancelIsSent
<1> QED BY <1>1, <1>2, <1>3, CancelKeepsIInv, OthersKeepIInv DEF Next

-----------------------------------------------------------------------------

\* The state of the cancels has its shape.
THEOREM TypeCorrect == Spec => []TypeOK
<1>1. IInv => TypeOK BY DEF IInv
<1> QED BY InitIInv, NextIInv, <1>1, PTL DEF Spec

\* For any number of cancels and mappings: the pending entry always belongs to
\* the only cancel that waits, and the cancel whose entry a mapping has taken
\* does not end without having been sent.
THEOREM CancelIsSettledOnce == Spec => []PendingCancelIsSettled
<1>1. IInv => PendingCancelIsSettled
  <2>1. IInv => PendingIsOwned BY DEF IInv, EntryIsOwned, Waiting, PendingIsOwned
  <2>2. IInv => ConsumedCancelIsSent BY DEF IInv, ConsumedGoesOn
  <2> QED BY <2>1, <2>2 DEF PendingCancelIsSettled
<1> QED BY InitIInv, NextIInv, <1>1, PTL DEF Spec

-----------------------------------------------------------------------------
\* The marks of unresolved_cancellations

\* A cancel in the waiters' list has not been told anything, and one that
\* resolves or waits is in the list or has been told.
WaitersListen ==
    /\ \A c \in waiters : pc[c] \in {"resolve", "lookup", "wait"} /\ mailbox[c] = None
    /\ \A c \in Cancels : pc[c] \in {"resolve", "lookup", "wait"} => c \in waiters \/ mailbox[c] # None
    /\ \A c \in Cancels : pc[c] = "idle" => mailbox[c] = None

\* One mapping at a time takes an entry and tells it.
MappersTell ==
    /\ \A m \in Mappers : mapper[m] # "idle" => known # None
    /\ \A m, n \in Mappers : mapper[m] \in {"mapped", "notifying"}
                             /\ mapper[n] \in {"mapped", "notifying"} => m = n
    /\ \A c \in Cancels : mailbox[c] \in Mappers => mapper[mailbox[c]] # "idle"
    /\ \A m \in Mappers : mapper[m] = "mapped" =>
          /\ consumed \in Cancels
          /\ claimed \/ pc[consumed] = "expire" \/ (pc[consumed] = "wait" /\ consumed \in waiters)

\* What a cancel has learnt, it has learnt by an RPC.
AnswersAreLate ==
    \A c \in Cancels :
        /\ error[c] # "none" => pc[c] \in {"reconcile", "recover", "retry", "recheck", "ended"}
        /\ pc[c] = "reconcile" => error[c] # "none"
        /\ result[c] # "none" => pc[c] = "ended"
        /\ c \in doubt => pc[c] \in {"recover", "retry", "recheck", "ended"}

\* Something told what became of the order since.
Told == closed \/ \E d \in Cancels : result[d] = "canceled"

DoubtIsMarked ==
    \A c \in Cancels : pc[c] \in {"retry", "recheck"} \/ Doubtful(c) =>
        ident[c] \in unresolved \/ AnsweredBeside(c) \/ (c \notin doubt /\ Told)

\* A cancel on behalf of identity i is under way, or is its mark's cause.
Handles(c, i) ==
    /\ ident[c] = i
    /\ pc[c] \in {"check", "mark"} \/ Calling(c) \/ result[c] \in {"unknown", "unreconciled"}

\* The cancel whose entry was taken is about to learn identity i.
Expects(c, i) ==
    /\ c \in Cancels /\ consumed = c /\ mapper[i] # "idle"
    /\ \/ pc[c] = "expire"
       \/ pc[c] = "wait" /\ (mailbox[c] = i \/ (c \in waiters /\ mapper[i] = "notifying"))

EveryMarkIsHandled ==
    \A i \in unresolved :
        \/ \E c \in Cancels : Handles(c, i)
        \/ Expects(consumed, i)
        \/ mapper[i] # "idle" /\ i # known

MInv == WaitersListen /\ MappersTell /\ AnswersAreLate /\ DoubtIsMarked /\ EveryMarkIsHandled

LEMMA InitMInv == Init => MInv
<1> SUFFICES ASSUME Init PROVE MInv OBVIOUS
<1>1. /\ waiters = {} /\ unresolved = {} /\ doubt = {}
      /\ \A c \in Cancels : pc[c] = "idle" /\ mailbox[c] = None /\ error[c] = "none" /\ result[c] = "none"
      /\ \A m \in Mappers : mapper[m] = "idle"
    BY DEF Init
<1>2. WaitersListen /\ AnswersAreLate /\ EveryMarkIsHandled
    BY <1>1 DEF WaitersListen, AnswersAreLate, EveryMarkIsHandled
<1>3. MappersTell BY <1>1, NoneIsNew DEF MappersTell
<1>4. DoubtIsMarked BY <1>1 DEF DoubtIsMarked, Doubtful
<1> QED BY <1>2, <1>3, <1>4 DEF MInv

\* What a step of one cancel leaves alone.
LEMMA CancelMoves ==
    ASSUME TypeOK, NEW c \in Cancels, Register(c) \/ Sweep(c) \/ CancelStep(c)
    PROVE  /\ UNCHANGED <<mailbox, mapper, submit, consumed, known, closed, route>>
           /\ \A d \in Cancels \ {c} :
                 /\ pc'[d] = pc[d] /\ ident'[d] = ident[d] /\ error'[d] = error[d]
                 /\ result'[d] = result[d] /\ (d \in waiters' <=> d \in waiters)
           /\ pc[c] \notin {"idle", "resolve", "lookup", "wait", "expire"} => ident'[c] = ident[c]
<1> USE DEF TypeOK, index, cancel, marks, Goto, End, CancelIdentity, Settle
<1>1. CASE Register(c) \/ Sweep(c) BY <1>1 DEF Register, Sweep
<1>2. CASE ResolveKnown(c) \/ ResolveNothing(c) \/ AskForStop(c) \/ AnswerStop(c) BY <1>2
        DEF ResolveKnown, ResolveNothing, AskForStop, AnswerStop
<1>3. CASE ResolvePending(c) BY <1>3 DEF ResolvePending
<1>4. CASE Receive(c) \/ TimeOut(c) BY <1>4 DEF Receive, TimeOut
<1>5. CASE Expire(c) BY <1>5 DEF Expire
<1>6. CASE Check(c) \/ Mark(c) \/ Recover(c) BY <1>6 DEF Check, Mark, Recover
<1>7. CASE AnswerCanceled(c) \/ AnswerAmbiguous(c) BY <1>7 DEF AnswerCanceled, AnswerAmbiguous
<1>8. CASE AnswerError(c) BY <1>8 DEF AnswerError, Errors, GiveUp
<1>9. CASE Reconciled(c) \/ ReconcileFails(c) BY <1>9 DEF Reconciled, GiveUp, ReconcileFails
<1>10. CASE RetryAmbiguous(c) \/ RetryCanceled(c) BY <1>10 DEF RetryAmbiguous, RetryCanceled
<1>11. CASE RetryTerminal(c) \/ Rechecked(c) BY <1>11 DEF RetryTerminal, Rechecked
<1> QED
    BY <1>1, <1>2, <1>3, <1>4, <1>5, <1>6, <1>7, <1>8, <1>9, <1>10, <1>11 DEF CancelStep

\* Where a step of a cancel takes it, if it is in the waiters' list only while
\* it has not been told anything.
LEMMA CancelGoes ==
    ASSUME TypeOK, WaitersListen, NEW c \in Cancels, Register(c) \/ Sweep(c) \/ CancelStep(c)
    PROVE  /\ pc'[c] # "idle"
           /\ c \in waiters' => pc'[c] \in {"resolve", "lookup", "wait"} /\ mailbox[c] = None
           /\ pc'[c] \in {"resolve", "lookup", "wait"} => c \in waiters' \/ mailbox[c] # None
           /\ pc[c] = "wait" => pc'[c] = "expire" \/ mailbox[c] # None
<1> USE DEF TypeOK, WaitersListen, index, cancel, marks, Goto, End, CancelIdentity
<1>1. CASE Register(c) \/ Sweep(c) BY <1>1 DEF Register, Sweep
<1>2. CASE ResolveKnown(c) \/ ResolveNothing(c) \/ AskForStop(c) \/ AnswerStop(c) BY <1>2
        DEF ResolveKnown, ResolveNothing, AskForStop, AnswerStop
<1>3. CASE ResolvePending(c) BY <1>3 DEF ResolvePending
<1>4. CASE Receive(c) \/ TimeOut(c) BY <1>4 DEF Receive, TimeOut
<1>5. CASE Expire(c) BY <1>5 DEF Expire
<1>6. CASE Check(c) \/ Mark(c) \/ Recover(c) BY <1>6 DEF Check, Mark, Recover
<1>7. CASE AnswerCanceled(c) \/ AnswerAmbiguous(c) BY <1>7 DEF AnswerCanceled, AnswerAmbiguous
<1>8. CASE AnswerError(c) BY <1>8 DEF AnswerError, Errors, GiveUp
<1>9. CASE Reconciled(c) \/ ReconcileFails(c) BY <1>9 DEF Reconciled, GiveUp, ReconcileFails
<1>10. CASE RetryAmbiguous(c) \/ RetryCanceled(c) BY <1>10 DEF RetryAmbiguous, RetryCanceled
<1>11. CASE RetryTerminal(c) \/ Rechecked(c) BY <1>11 DEF RetryTerminal, Rechecked
<1> QED
    BY <1>1, <1>2, <1>3, <1>4, <1>5, <1>6, <1>7, <1>8, <1>9, <1>10, <1>11 DEF CancelStep

LEMMA WaitersStep == ASSUME IInv, WaitersListen, [Next]_vars PROVE WaitersListen'
<1>1. TypeOK BY DEF IInv
<1>2. ASSUME NEW c \in Cancels, Register(c) \/ Sweep(c) \/ CancelStep(c) PROVE WaitersListen'
  <2>1. waiters' \subseteq Cancels BY TypeStep DEF TypeOK
  <2> QED BY <1>1, <1>2, <2>1, CancelMoves, CancelGoes DEF WaitersListen
<1>3. ASSUME NEW m \in Mappers, Map(m) \/ Notify(m) PROVE WaitersListen'
    BY <1>3 DEF Map, Notify, WaitersListen, cancel
<1>4. ASSUME NEW x, x # None,
             waiters' = {}, pc' = pc,
             mailbox' = [c \in Cancels |-> IF c \in waiters THEN x ELSE mailbox[c]]
      PROVE  WaitersListen'
    BY <1>4 DEF WaitersListen
<1>5. ASSUME NEW m \in Mappers, Deliver(m) PROVE WaitersListen'
    BY <1>4, <1>5, NoneIsNew DEF Deliver, Send
<1>6. CASE RejectWaiters BY <1>4, <1>6, NoneIsNew DEF RejectWaiters, Send
<1>7. CASE RemoveRoute \/ SettleClosed
    BY <1>7 DEF RemoveRoute, SettleClosed, WaitersListen, cancel
<1>8. CASE UNCHANGED vars BY <1>8 DEF vars, cancel, WaitersListen
<1> QED BY <1>2, <1>3, <1>5, <1>6, <1>7, <1>8 DEF Next

LEMMA MappersStep ==
    ASSUME IInv, WaitersListen, MappersTell, [Next]_vars
    PROVE  MappersTell'
<1> USE NoneIsNew
<1>1. TypeOK BY DEF IInv
<1>2. ASSUME NEW c \in Cancels, Register(c) \/ Sweep(c) \/ CancelStep(c) PROVE MappersTell'
  <2>1. UNCHANGED <<mailbox, mapper, consumed, known>> BY <1>1, <1>2, CancelMoves
  <2>2. ASSUME NEW m \in Mappers, mapper[m] = "mapped"
        PROVE  claimed' \/ pc'[consumed] = "expire" \/ (pc'[consumed] = "wait" /\ consumed \in waiters')
    <3>1. known # None /\ consumed \in Cancels BY <2>2 DEF MappersTell
    <3>2. claimed => claimed'
      <4>1. ~ResolvePending(c) BY <3>1 DEF ResolvePending
      <4> QED BY <1>2, <3>1, <4>1 DEF CancelStep, Register, Sweep, ResolveKnown, ResolveNothing, AskForStop,
            AnswerStop, Receive,
            TimeOut, Expire, Check, Mark, AnswerCanceled, AnswerAmbiguous, AnswerError, Reconciled,
            ReconcileFails, Recover, RetryAmbiguous, RetryCanceled, RetryTerminal, Rechecked, index
    <3>3. CASE claimed BY <3>2, <3>3
    <3>4. CASE consumed # c
      <4>1. pc'[consumed] = pc[consumed] /\ (consumed \in waiters' <=> consumed \in waiters)
          BY <1>1, <1>2, <3>1, <3>4, CancelMoves
      <4> QED BY <2>2, <3>2, <4>1 DEF MappersTell
    <3>5. CASE consumed = c /\ pc[c] = "wait" /\ c \in waiters
      <4>1. mailbox[c] = None BY <3>5 DEF WaitersListen
      <4> QED BY <1>1, <1>2, <3>5, <4>1, CancelGoes
    <3>6. CASE consumed = c /\ pc[c] = "expire"
      <4>1. Expire(c) BY <1>2, <3>6 DEF CancelStep, Register, Sweep, ResolveKnown, ResolvePending,
            ResolveNothing, AskForStop, AnswerStop, Receive, TimeOut, Check, Mark, AnswerCanceled, AnswerAmbiguous, AnswerError,
            Reconciled, ReconcileFails, Recover, RetryAmbiguous, RetryCanceled, RetryTerminal, Rechecked
      <4> QED BY <3>1, <4>1 DEF Expire
    <3> QED BY <2>2, <3>3, <3>4, <3>5, <3>6 DEF MappersTell
  <2> QED BY <2>1, <2>2 DEF MappersTell
<1>3. ASSUME NEW m \in Mappers, Map(m) PROVE MappersTell'
  <2>1. /\ known' = m /\ mapper[m] = "idle" /\ mapper' = [mapper EXCEPT ![m] = IF pending THEN "mapped" ELSE "done"]
        /\ UNCHANGED <<claimed, waiters, pc, mailbox>>
        /\ consumed' = IF pending THEN owner ELSE consumed
      BY <1>3 DEF Map, cancel
  <2>2. CASE pending
    <3>1. known = None /\ owner \in Cancels /\ pc[owner] \in {"wait", "expire"}
        BY <2>2 DEF IInv, EntryIsOwned, Waiting
    <3>2. \A n \in Mappers : mapper[n] = "idle" BY <3>1 DEF MappersTell
    <3>3. mailbox[owner] = None BY <2>2, <3>1 DEF IInv, ToldIsTaken
    <3>4. pc[owner] = "wait" => owner \in waiters BY <3>1, <3>3 DEF WaitersListen
    <3>5. \A n \in Mappers : mapper'[n] = IF n = m THEN "mapped" ELSE "idle"
        BY <1>1, <2>1, <2>2, <3>2 DEF TypeOK
    <3>6. \A c \in Cancels : mailbox[c] \notin Mappers BY <3>2 DEF MappersTell
    <3> QED BY <2>1, <2>2, <3>1, <3>4, <3>5, <3>6 DEF MappersTell
  <2>3. CASE ~pending
    <3>1. \A n \in Mappers : mapper'[n] = IF n = m THEN "done" ELSE mapper[n]
        BY <1>1, <2>1, <2>3 DEF TypeOK
    <3> QED BY <2>1, <2>3, <3>1 DEF MappersTell
  <2> QED BY <2>2, <2>3
<1>4. ASSUME NEW m \in Mappers, Notify(m) PROVE MappersTell'
  <2>1. /\ \A n \in Mappers : mapper'[n] = IF n = m THEN "notifying" ELSE mapper[n]
        /\ mapper[m] = "mapped" /\ UNCHANGED <<known, consumed, mailbox>>
      BY <1>1, <1>4 DEF TypeOK, Notify, cancel
  <2>2. \A n \in Mappers : mapper'[n] # "mapped" BY <2>1 DEF MappersTell
  <2> QED BY <2>1, <2>2 DEF MappersTell
<1>5. ASSUME NEW m \in Mappers, Deliver(m) PROVE MappersTell'
  <2>1. /\ \A n \in Mappers : mapper'[n] = IF n = m THEN "done" ELSE mapper[n]
        /\ mapper[m] = "notifying" /\ UNCHANGED <<known, consumed>>
        /\ \A c \in Cancels : mailbox'[c] \in {m, mailbox[c]}
      BY <1>1, <1>5 DEF TypeOK, Deliver, Send, index
  <2>2. \A n \in Mappers : mapper'[n] # "mapped" BY <2>1 DEF MappersTell
  <2> QED BY <2>1, <2>2 DEF MappersTell
<1>6. CASE RemoveRoute \/ RejectWaiters
  <2>1. /\ known = None /\ UNCHANGED <<known, mapper>>
        /\ \A c \in Cancels : mailbox'[c] \in {"rejected", mailbox[c]}
      BY <1>1, <1>6 DEF RemoveRoute, RejectWaiters, Send, IInv, RefusedIsUnknown, TypeOK, cancel, index
  <2>2. \A n \in Mappers : mapper[n] = "idle" BY <2>1 DEF MappersTell
  <2> QED BY <2>1, <2>2 DEF MappersTell
<1>7. CASE SettleClosed \/ UNCHANGED vars
    BY <1>7 DEF SettleClosed, vars, index, cancel, MappersTell
<1> QED BY <1>2, <1>3, <1>4, <1>5, <1>6, <1>7 DEF Next

LEMMA AnswersStep == ASSUME IInv, AnswersAreLate, [Next]_vars PROVE AnswersAreLate'
<1>1. TypeOK BY DEF IInv
<1>2. ASSUME NEW c \in Cancels, Register(c) \/ Sweep(c) \/ CancelStep(c) PROVE AnswersAreLate'
  <2>1. ASSUME NEW d \in Cancels \ {c}
        PROVE  pc'[d] = pc[d] /\ error'[d] = error[d] /\ result'[d] = result[d]
               /\ (d \in doubt' => d \in doubt)
    <3>1. d \in doubt' => d \in doubt
        BY <1>2 DEF CancelStep, Register, Sweep, ResolveKnown, ResolvePending,
            ResolveNothing, AskForStop, AnswerStop, Receive, TimeOut, Expire, Check, Mark, AnswerCanceled, AnswerAmbiguous,
            AnswerError, Reconciled, ReconcileFails, Recover, RetryAmbiguous, RetryCanceled,
            RetryTerminal, Rechecked, Settle, Doubted, marks
    <3> QED BY <1>1, <1>2, <3>1, CancelMoves
  <2>2. /\ error'[c] # "none" => pc'[c] \in {"reconcile", "recover", "retry", "recheck", "ended"}
        /\ pc'[c] = "reconcile" => error'[c] # "none"
        /\ result'[c] # "none" => pc'[c] = "ended"
        /\ c \in doubt' => pc'[c] \in {"recover", "retry", "recheck", "ended"}
    <3> USE <1>1 DEF TypeOK, AnswersAreLate, index, cancel, marks, Goto, End, CancelIdentity, Settle
    <3>1. CASE Register(c) \/ Sweep(c) BY <3>1 DEF Register, Sweep
    <3>2. CASE ResolveKnown(c) \/ ResolveNothing(c) \/ AskForStop(c) \/ AnswerStop(c) BY <3>2
        DEF ResolveKnown, ResolveNothing, AskForStop, AnswerStop
    <3>3. CASE ResolvePending(c) BY <3>3 DEF ResolvePending
    <3>4. CASE Receive(c) \/ TimeOut(c) BY <3>4 DEF Receive, TimeOut
    <3>5. CASE Expire(c) BY <3>5 DEF Expire
    <3>6. CASE Check(c) \/ Mark(c) \/ Recover(c) BY <3>6 DEF Check, Mark, Recover
    <3>7. CASE AnswerCanceled(c) BY <3>7 DEF AnswerCanceled
    <3>8. CASE AnswerAmbiguous(c) BY <3>8 DEF AnswerAmbiguous
    <3>9. CASE AnswerError(c) BY <3>9 DEF AnswerError, Errors, GiveUp
    <3>10. CASE Reconciled(c) BY <3>10 DEF Reconciled, GiveUp
    <3>11. CASE ReconcileFails(c) BY <3>11 DEF ReconcileFails
    <3>12. CASE RetryAmbiguous(c) BY <3>12 DEF RetryAmbiguous
    <3>13. CASE RetryCanceled(c) \/ RetryTerminal(c) BY <3>13 DEF RetryCanceled, RetryTerminal
    <3>14. CASE Rechecked(c) BY <3>14 DEF Rechecked
    <3> QED BY <1>2, <3>1, <3>2, <3>3, <3>4, <3>5, <3>6, <3>7, <3>8, <3>9, <3>10, <3>11, <3>12,
        <3>13, <3>14 DEF CancelStep
  <2> QED BY <2>1, <2>2 DEF AnswersAreLate
<1>3. CASE UNCHANGED <<pc, error, result>> /\ doubt' \subseteq doubt
    BY <1>3 DEF AnswersAreLate
<1>4. ASSUME NEW m \in Mappers, Map(m) \/ Notify(m) \/ Deliver(m) PROVE AnswersAreLate'
    BY <1>3, <1>4 DEF Map, Notify, Deliver, cancel, marks
<1>5. CASE RemoveRoute \/ RejectWaiters \/ SettleClosed \/ UNCHANGED vars
    BY <1>3, <1>5 DEF RemoveRoute, RejectWaiters, SettleClosed, vars, cancel, marks
<1> QED BY <1>2, <1>4, <1>5 DEF Next

\* What a step of one cancel may do to the marks and the doubts of the others.
LEMMA CancelSettles ==
    ASSUME IInv, AnswersAreLate, NEW c \in Cancels, Register(c) \/ Sweep(c) \/ CancelStep(c)
    PROVE  /\ pc[c] = "ended" => FALSE
           /\ \A d \in Cancels \ {c} : d \in doubt' => d \in doubt
           /\ error[c] # "none" => error'[c] # "none"
           /\ \/ unresolved \subseteq unresolved'
              \/ /\ Calling(c) /\ unresolved \ {ident[c]} \subseteq unresolved'
                 /\ \/ error'[c] # "none"
                    \/ /\ result'[c] \in {"canceled", "active"}
                       /\ \A d \in doubt' : ident[d] # ident[c]
<1>1. TypeOK /\ pc[c] \in Pcs BY DEF IInv, TypeOK
<1> USE <1>1 DEF TypeOK, AnswersAreLate, index, cancel, marks, Goto, End, CancelIdentity, Settle, Calling
<1>2. CASE Register(c) \/ Sweep(c) BY <1>2 DEF Register, Sweep
<1>3. CASE ResolveKnown(c) \/ ResolveNothing(c) \/ AskForStop(c) \/ AnswerStop(c) BY <1>3
        DEF ResolveKnown, ResolveNothing, AskForStop, AnswerStop
<1>4. CASE ResolvePending(c) BY <1>4 DEF ResolvePending
<1>5. CASE Receive(c) \/ TimeOut(c) BY <1>5 DEF Receive, TimeOut
<1>6. CASE Expire(c) BY <1>6 DEF Expire
<1>7. CASE Check(c) \/ Mark(c) \/ Recover(c) BY <1>7 DEF Check, Mark, Recover
<1>8. CASE AnswerCanceled(c) BY <1>8 DEF AnswerCanceled
<1>9. CASE AnswerAmbiguous(c) BY <1>9 DEF AnswerAmbiguous, Doubted
<1>10. CASE AnswerError(c) BY <1>10 DEF AnswerError, Errors, GiveUp
<1>11. CASE Reconciled(c) BY <1>11 DEF Reconciled, GiveUp
<1>12. CASE ReconcileFails(c) BY <1>12 DEF ReconcileFails
<1>13. CASE RetryAmbiguous(c) BY <1>13 DEF RetryAmbiguous, Doubted
<1>14. CASE RetryCanceled(c) \/ RetryTerminal(c) BY <1>14 DEF RetryCanceled, RetryTerminal
<1>15. CASE Rechecked(c) BY <1>15 DEF Rechecked
<1> QED BY <1>2, <1>3, <1>4, <1>5, <1>6, <1>7, <1>8, <1>9, <1>10, <1>11, <1>12,
    <1>13, <1>14, <1>15 DEF CancelStep

\* A cancel that was answered keeps its identity and its answer.
LEMMA AnsweredStays ==
    ASSUME IInv, AnswersAreLate, NEW c \in Cancels, NEW d \in Cancels,
           Register(c) \/ Sweep(c) \/ CancelStep(c), AnsweredBeside(d),
           ident'[d] = ident[d]
    PROVE  (AnsweredBeside(d))'
<1>1. PICK e \in Cancels \ {d} : ident[e] = ident[d] /\ (error[e] # "none" \/ result[e] = "active")
    BY DEF AnsweredBeside
<1>2. CASE e # c
    BY <1>1, <1>2, CancelMoves DEF AnsweredBeside, IInv
<1>3. CASE e = c
  <2>1. pc[c] # "ended" /\ (error[c] # "none" => error'[c] # "none") BY CancelSettles
  <2>2. error[c] # "none" /\ pc[c] \notin {"idle", "resolve", "lookup", "wait", "expire"}
      BY <1>1, <1>3, <2>1 DEF AnswersAreLate
  <2>3. ident'[c] = ident[c] BY <2>2, CancelMoves DEF IInv
  <2> QED BY <1>1, <1>3, <2>1, <2>2, <2>3 DEF AnsweredBeside
<1> QED BY <1>2, <1>3

LEMMA ToldStays ==
    ASSUME IInv, AnswersAreLate, NEW c \in Cancels, Register(c) \/ Sweep(c) \/ CancelStep(c), Told
    PROVE  Told'
<1>1. result[c] # "canceled" BY CancelSettles DEF AnswersAreLate
<1> QED BY <1>1, CancelMoves DEF Told, IInv

LEMMA DoubtStep ==
    ASSUME IInv, AnswersAreLate, DoubtIsMarked, [Next]_vars
    PROVE  DoubtIsMarked'
<1>1. TypeOK BY DEF IInv
<1>2. ASSUME NEW c \in Cancels, Register(c) \/ Sweep(c) \/ CancelStep(c) PROVE DoubtIsMarked'
  <2>1. SUFFICES ASSUME NEW d \in Cancels, pc'[d] \in {"retry", "recheck"} \/ (Doubtful(d))'
                 PROVE  \/ ident'[d] \in unresolved' \/ (AnsweredBeside(d))'
                        \/ d \notin doubt' /\ Told'
      BY DEF DoubtIsMarked
  <2>2. CASE d # c
    <3>1. pc'[d] = pc[d] /\ ident'[d] = ident[d] /\ result'[d] = result[d]
        BY <1>1, <1>2, <2>2, CancelMoves
    <3>2. d \in doubt' => d \in doubt BY <1>2, <2>2, CancelSettles
    <3>3. ident[d] \in unresolved \/ AnsweredBeside(d) \/ (d \notin doubt /\ Told)
        BY <2>1, <3>1, <3>2 DEF DoubtIsMarked, Doubtful
    <3>4. CASE AnsweredBeside(d) BY <1>2, <3>1, <3>4, AnsweredStays
    <3>5. CASE d \notin doubt /\ Told BY <1>2, <3>2, <3>5, ToldStays
    <3>6. CASE ident[d] \in unresolved /\ ident[d] \notin unresolved'
      <4>1. /\ Calling(c) /\ ident[d] = ident[c]
            /\ \/ error'[c] # "none"
               \/ result'[c] \in {"canceled", "active"} /\ d \notin doubt'
          BY <1>2, <3>1, <3>6, CancelSettles
      <4>2. ident'[c] = ident[c] BY <1>1, <1>2, <4>1, CancelMoves DEF Calling
      <4> QED BY <2>2, <3>1, <4>1, <4>2 DEF AnsweredBeside, Told
    <3> QED BY <3>1, <3>3, <3>4, <3>5, <3>6
  <2>3. CASE d = c
    <3>1. (Recover(c) \/ RetryTerminal(c) \/ RetryAmbiguous(c) \/ Rechecked(c))
          /\ UNCHANGED ident
      <4> USE <1>1, <2>1, <2>3 DEF TypeOK, AnswersAreLate, Doubtful, index, cancel, marks, Goto, End, CancelIdentity
      <4>1. ~Register(c) /\ ~Sweep(c) BY DEF Register, Sweep
      <4>2. ~ResolveKnown(c) /\ ~ResolvePending(c) /\ ~ResolveNothing(c) /\ ~AskForStop(c) /\ ~AnswerStop(c)
          BY DEF ResolveKnown, ResolvePending, ResolveNothing, AskForStop, AnswerStop
      <4>3. ~Receive(c) /\ ~TimeOut(c) /\ ~Expire(c) BY DEF Receive, TimeOut, Expire
      <4>4. ~Check(c) /\ ~Mark(c) BY DEF Check, Mark
      <4>5. ~AnswerCanceled(c) /\ ~AnswerAmbiguous(c) /\ ~RetryCanceled(c)
          BY DEF AnswerCanceled, AnswerAmbiguous, RetryCanceled
      <4>6. ~AnswerError(c) BY DEF AnswerError, Errors, GiveUp
      <4>7. ~Reconciled(c) BY DEF Reconciled, GiveUp
      <4>8. ~ReconcileFails(c) BY DEF ReconcileFails
      <4>9. Recover(c) \/ RetryTerminal(c) \/ RetryAmbiguous(c) \/ Rechecked(c)
          BY <1>2, <4>1, <4>2, <4>3, <4>4, <4>5, <4>6, <4>7, <4>8 DEF CancelStep
      <4> QED BY <4>9 DEF Recover, RetryTerminal, RetryAmbiguous, Rechecked
    <3>2. CASE Recover(c) BY <2>3, <3>1, <3>2 DEF Recover
    <3>3. CASE ~Recover(c)
      <4>1. pc[c] \in {"retry", "recheck"} BY <3>1, <3>3 DEF RetryTerminal, RetryAmbiguous, Rechecked
      <4>2. ident[c] \in unresolved \/ AnsweredBeside(c) \/ (c \notin doubt /\ Told)
          BY <4>1 DEF DoubtIsMarked
      <4>3. CASE AnsweredBeside(c) BY <1>2, <2>3, <3>1, <4>3, AnsweredStays
      <4>4. CASE c \notin doubt /\ Told
        <5>1. c \notin doubt'
            BY <3>1, <3>3, <4>4 DEF RetryTerminal, RetryAmbiguous, Rechecked, Doubted, Told, Settle, marks
        <5> QED BY <1>2, <2>3, <4>4, <5>1, ToldStays
      <4>5. CASE ident[c] \in unresolved
        <5>1. unresolved' = unresolved
          <6>1. CASE RetryTerminal(c) \/ RetryAmbiguous(c)
              BY <6>1 DEF RetryTerminal, RetryAmbiguous, marks
          <6>2. CASE Rechecked(c) /\ ~UNCHANGED unresolved
            <7>1. PICK r \in {"canceled", "active"} : End(c, r) BY <6>2 DEF Rechecked
            <7>2. pc'[c] = "ended" /\ result'[c] # "unknown"
                BY <1>1, <7>1 DEF End, Goto, TypeOK
            <7> QED BY <2>1, <2>3, <7>2 DEF Doubtful
          <6> QED BY <3>1, <3>3, <6>1, <6>2
        <5> QED BY <2>3, <3>1, <4>5, <5>1
      <4> QED BY <4>2, <4>3, <4>4, <4>5
    <3> QED BY <3>2, <3>3
  <2> QED BY <2>2, <2>3
<1>3. CASE UNCHANGED <<cancel, doubt, closed>> /\ unresolved \subseteq unresolved'
    BY <1>3 DEF cancel, DoubtIsMarked, Doubtful, AnsweredBeside, Told
<1>4. ASSUME NEW m \in Mappers, Map(m) \/ Notify(m) PROVE DoubtIsMarked'
    BY <1>3, <1>4 DEF Map, Notify, marks
<1>5. CASE UNCHANGED <<pc, ident, error, result, doubt, closed, unresolved>>
    BY <1>5 DEF DoubtIsMarked, Doubtful, AnsweredBeside, Told
<1>6. ASSUME NEW m \in Mappers, Deliver(m) PROVE DoubtIsMarked'
    BY <1>5, <1>6 DEF Deliver, marks
<1>7. CASE RemoveRoute \/ RejectWaiters
    BY <1>5, <1>7 DEF RemoveRoute, RejectWaiters, cancel, marks
<1>8. CASE SettleClosed BY <1>8 DEF SettleClosed, cancel, DoubtIsMarked, Doubtful, Told
<1>9. CASE UNCHANGED vars BY <1>5, <1>9 DEF vars, cancel, marks
<1> QED BY <1>2, <1>4, <1>6, <1>7, <1>8, <1>9 DEF Next

\* Which marks a step of one cancel leaves, and for whom it goes on.
LEMMA CancelHandles ==
    ASSUME IInv, AnswersAreLate, NEW c \in Cancels, Register(c) \/ Sweep(c) \/ CancelStep(c),
           NEW i \in unresolved'
    PROVE  /\ i \in unresolved \/ (Handles(c, i))'
           /\ Handles(c, i) => (Handles(c, i))'
<1>1. TypeOK BY DEF IInv
<1> USE <1>1 DEF TypeOK, AnswersAreLate, Handles, Calling, index, cancel, marks, Goto, End,
                 CancelIdentity, Settle
<1>2. CASE Register(c) \/ Sweep(c) BY <1>2 DEF Register, Sweep
<1>3. CASE ResolveKnown(c) \/ ResolveNothing(c) \/ AskForStop(c) \/ AnswerStop(c) BY <1>3
        DEF ResolveKnown, ResolveNothing, AskForStop, AnswerStop
<1>4. CASE ResolvePending(c) BY <1>4 DEF ResolvePending
<1>5. CASE Receive(c) \/ TimeOut(c) BY <1>5 DEF Receive, TimeOut
<1>6. CASE Expire(c) BY <1>6 DEF Expire
<1>7. CASE Check(c) \/ Mark(c) \/ Recover(c) BY <1>7 DEF Check, Mark, Recover
<1>8. CASE AnswerCanceled(c) BY <1>8 DEF AnswerCanceled
<1>9. CASE AnswerAmbiguous(c) BY <1>9 DEF AnswerAmbiguous
<1>10. CASE AnswerError(c) BY <1>10 DEF AnswerError, Errors, GiveUp
<1>11. CASE Reconciled(c) BY <1>11 DEF Reconciled, GiveUp
<1>12. CASE ReconcileFails(c) BY <1>12 DEF ReconcileFails
<1>13. CASE RetryAmbiguous(c) BY <1>13 DEF RetryAmbiguous
<1>14. CASE RetryCanceled(c) \/ RetryTerminal(c) BY <1>14 DEF RetryCanceled, RetryTerminal
<1>15. CASE Rechecked(c) BY <1>15 DEF Rechecked
<1> QED BY <1>2, <1>3, <1>4, <1>5, <1>6, <1>7, <1>8, <1>9, <1>10, <1>11, <1>12,
    <1>13, <1>14, <1>15 DEF CancelStep

\* The cancel whose entry was taken handles the identity it expects, or another
\* identity has replaced it.
LEMMA ExpectedIsHandled ==
    ASSUME IInv, WaitersListen, MappersTell, NEW c \in Cancels,
           Register(c) \/ Sweep(c) \/ CancelStep(c),
           NEW i \in Mappers, Expects(c, i)
    PROVE  (Handles(c, i))' \/ (Expects(c, i))' \/ (mapper'[i] # "idle" /\ i # known')
<1>1. TypeOK BY DEF IInv
<1>2. UNCHANGED <<mailbox, mapper, consumed, known>> BY <1>1, CancelMoves
<1>3. consumed = c /\ mapper[i] # "idle" /\ known # None /\ submit = "accepted"
    BY NoneIsNew DEF Expects, IInv, ConsumedGoesOn, RefusedIsUnknown
<1>4. CASE pc[c] = "expire"
  <2>1. Expire(c)
      BY <1>4 DEF CancelStep, Register, Sweep, ResolveKnown, ResolvePending,
         ResolveNothing, AskForStop, AnswerStop, Receive, TimeOut, Check, Mark, AnswerCanceled, AnswerAmbiguous, AnswerError,
         Reconciled, ReconcileFails, Recover, RetryAmbiguous, RetryCanceled, RetryTerminal, Rechecked
  <2>2. ident'[c] = known /\ pc'[c] = "check"
      BY <1>1, <1>3, <2>1 DEF Expire, CancelIdentity, Goto, TypeOK
  <2> QED BY <1>2, <1>3, <2>2 DEF Handles
<1>5. CASE pc[c] = "wait" /\ (mailbox[c] = i \/ (c \in waiters /\ mapper[i] = "notifying"))
  <2>1. CASE Receive(c)
    <3>1. mailbox[c] = i BY <1>5, <2>1 DEF Receive, WaitersListen
    <3>2. ident'[c] = i /\ pc'[c] = "check"
        BY <1>1, <2>1, <3>1, NoneIsNew DEF Receive, CancelIdentity, Goto, TypeOK
    <3> QED BY <3>2 DEF Handles
  <2>2. CASE TimeOut(c)
    <3>1. pc'[c] = "expire" BY <1>1, <2>2 DEF TimeOut, Goto, TypeOK
    <3> QED BY <1>2, <1>3, <3>1 DEF Expects
  <2>3. Receive(c) \/ TimeOut(c)
      BY <1>5 DEF CancelStep, Register, Sweep, ResolveKnown, ResolvePending,
         ResolveNothing, AskForStop, AnswerStop, Expire, Check, Mark, AnswerCanceled, AnswerAmbiguous, AnswerError,
         Reconciled, ReconcileFails, Recover, RetryAmbiguous, RetryCanceled, RetryTerminal, Rechecked
  <2> QED BY <2>1, <2>2, <2>3
<1> QED BY <1>4, <1>5 DEF Expects

LEMMA HandledStep ==
    ASSUME IInv, MInv, [Next]_vars
    PROVE  EveryMarkIsHandled'
<1>1. TypeOK BY DEF IInv
<1>2. ASSUME NEW c \in Cancels, Register(c) \/ Sweep(c) \/ CancelStep(c) PROVE EveryMarkIsHandled'
  <2> SUFFICES ASSUME NEW i \in unresolved'
               PROVE  \/ \E d \in Cancels : (Handles(d, i))'
                      \/ (Expects(consumed, i))'
                      \/ mapper'[i] # "idle" /\ i # known'
      BY DEF EveryMarkIsHandled
  <2>1. UNCHANGED <<mailbox, mapper, consumed, known>> BY <1>1, <1>2, CancelMoves
  <2>2. i \in unresolved \/ (Handles(c, i))' BY <1>2, CancelHandles DEF MInv
  <2>3. CASE \E d \in Cancels : Handles(d, i)
    <3>1. PICK d \in Cancels : Handles(d, i) BY <2>3
    <3>2. CASE d = c BY <1>2, <3>1, <3>2, CancelHandles DEF MInv
    <3>3. CASE d # c
      <4>1. pc'[d] = pc[d] /\ ident'[d] = ident[d] /\ result'[d] = result[d]
          BY <1>1, <1>2, <3>3, CancelMoves
      <4> QED BY <3>1, <4>1 DEF Handles, Calling
    <3> QED BY <3>2, <3>3
  <2>4. CASE Expects(consumed, i)
    <3>1. i \in Mappers /\ consumed \in Cancels
        BY <2>4, TypeStep DEF TypeOK, Identities, Expects
    <3>2. CASE consumed = c BY <1>2, <2>1, <2>4, <3>1, <3>2, ExpectedIsHandled DEF MInv
    <3>3. CASE consumed # c
      <4>1. pc'[consumed] = pc[consumed] /\ (consumed \in waiters' <=> consumed \in waiters)
          BY <1>1, <1>2, <3>1, <3>3, CancelMoves
      <4> QED BY <2>1, <2>4, <4>1 DEF Expects
    <3> QED BY <3>2, <3>3
  <2> QED BY <2>1, <2>2, <2>3, <2>4 DEF MInv, EveryMarkIsHandled
<1>3. ASSUME NEW m \in Mappers, Map(m) PROVE EveryMarkIsHandled'
  <2>1. /\ UNCHANGED <<pc, ident, result, mailbox, waiters, unresolved>> /\ mapper[m] = "idle"
        /\ known' = m /\ consumed' = IF pending THEN owner ELSE consumed
        /\ \A n \in Mappers : mapper'[n] = IF n = m THEN IF pending THEN "mapped" ELSE "done" ELSE mapper[n]
      BY <1>1, <1>3 DEF Map, cancel, marks, TypeOK
  <2>2. unresolved \subseteq Mappers BY <1>1 DEF TypeOK, Identities
  <2>3. pending => \A i \in Mappers : mapper[i] = "idle"
      BY DEF IInv, EntryIsOwned, MInv, MappersTell
  <2> SUFFICES ASSUME NEW i \in unresolved
               PROVE  \/ \E d \in Cancels : (Handles(d, i))'
                      \/ (Expects(consumed, i))'
                      \/ mapper'[i] # "idle" /\ i # known'
      BY <2>1 DEF EveryMarkIsHandled
  <2>4. CASE \E d \in Cancels : Handles(d, i) BY <2>1, <2>4 DEF Handles, Calling
  <2>5. CASE Expects(consumed, i)
    <3>1. mapper[i] # "idle" /\ consumed' = consumed BY <2>1, <2>2, <2>3, <2>5 DEF Expects
    <3> QED BY <2>1, <2>2, <2>5, <3>1
  <2>6. CASE mapper[i] # "idle" BY <2>1, <2>2, <2>6
  <2> QED BY <2>4, <2>5, <2>6 DEF MInv, EveryMarkIsHandled
<1>4. ASSUME NEW m \in Mappers, Notify(m) PROVE EveryMarkIsHandled'
  <2>1. /\ UNCHANGED <<pc, ident, result, mailbox, waiters, known, consumed>>
        /\ mapper[m] = "mapped"
        /\ unresolved' = IF claimed THEN unresolved ELSE unresolved \cup {m}
        /\ \A n \in Mappers : mapper'[n] = IF n = m THEN "notifying" ELSE mapper[n]
      BY <1>1, <1>4 DEF Notify, cancel, TypeOK
  <2>2. unresolved \subseteq Mappers BY <1>1 DEF TypeOK, Identities
  <2>3. \A i \in unresolved : mapper[i] # "idle" => mapper'[i] # "idle" BY <2>1, <2>2
  <2>4. \A i \in unresolved : mapper[i] = "notifying" => mapper'[i] = "notifying" BY <2>1, <2>2
  <2>5. ~claimed => (Expects(consumed, m))'
      BY <2>1 DEF Expects, MInv, MappersTell
  <2>6. ASSUME NEW i \in unresolved
        PROVE  \/ \E d \in Cancels : (Handles(d, i))'
               \/ (Expects(consumed, i))'
               \/ mapper'[i] # "idle" /\ i # known'
    <3>1. CASE \E d \in Cancels : Handles(d, i) BY <2>1, <3>1 DEF Handles, Calling
    <3>2. CASE Expects(consumed, i) BY <2>1, <2>3, <2>4, <3>2 DEF Expects
    <3>3. CASE mapper[i] # "idle" /\ i # known BY <2>1, <2>3, <3>3
    <3> QED BY <3>1, <3>2, <3>3 DEF MInv, EveryMarkIsHandled
  <2> QED BY <2>1, <2>5, <2>6 DEF EveryMarkIsHandled
<1>5. ASSUME NEW m \in Mappers, Deliver(m) PROVE EveryMarkIsHandled'
  <2>1. /\ UNCHANGED <<pc, ident, result, known, consumed, unresolved>>
        /\ mapper[m] = "notifying"
        /\ \A c \in Cancels : mailbox'[c] = IF c \in waiters THEN m ELSE mailbox[c]
        /\ \A n \in Mappers : mapper'[n] = IF n = m THEN "done" ELSE mapper[n]
      BY <1>1, <1>5 DEF Deliver, Send, marks, index, TypeOK
  <2>2. unresolved \subseteq Mappers BY <1>1 DEF TypeOK, Identities
  <2>3. \A i \in unresolved : mapper[i] # "idle" => mapper'[i] # "idle" BY <2>1, <2>2
  <2> SUFFICES ASSUME NEW i \in unresolved
               PROVE  \/ \E d \in Cancels : (Handles(d, i))'
                      \/ (Expects(consumed, i))'
                      \/ mapper'[i] # "idle" /\ i # known'
      BY <2>1 DEF EveryMarkIsHandled
  <2>4. CASE \E d \in Cancels : Handles(d, i) BY <2>1, <2>4 DEF Handles, Calling
  <2>5. CASE Expects(consumed, i)
    <3>1. CASE pc[consumed] = "expire" BY <2>1, <2>3, <2>5, <3>1 DEF Expects
    <3>2. CASE consumed \in waiters /\ mapper[i] = "notifying"
      <4>1. i = m BY <2>1, <2>2, <3>2 DEF MInv, MappersTell
      <4> QED BY <2>1, <2>3, <2>5, <3>2, <4>1, NoneIsNew DEF Expects, MInv, WaitersListen
    <3>3. CASE mailbox[consumed] = i
      <4>1. consumed \notin waiters
          BY <2>2, <3>3, NoneIsNew DEF MInv, WaitersListen
      <4> QED BY <2>1, <2>3, <2>5, <3>3, <4>1 DEF Expects
    <3> QED BY <2>5, <3>1, <3>2, <3>3 DEF Expects
  <2>6. CASE mapper[i] # "idle" /\ i # known BY <2>1, <2>3, <2>6
  <2> QED BY <2>4, <2>5, <2>6 DEF MInv, EveryMarkIsHandled
<1>6. CASE RemoveRoute \/ RejectWaiters
  <2>1. UNCHANGED <<pc, ident, result, known, consumed, unresolved, mapper>> /\ consumed = None
      BY <1>6 DEF RemoveRoute, RejectWaiters, index, cancel, marks, IInv, RefusedIsUnknown, ConsumedGoesOn
  <2>2. \A i : ~Expects(consumed, i) BY <2>1, NoneIsNew DEF Expects
  <2> QED BY <2>1, <2>2 DEF MInv, EveryMarkIsHandled, Handles, Calling
<1>7. CASE SettleClosed BY <1>7 DEF SettleClosed, EveryMarkIsHandled
<1>8. CASE UNCHANGED vars
    BY <1>8 DEF vars, index, cancel, marks, MInv, EveryMarkIsHandled, Handles, Expects, Calling
<1> QED BY <1>2, <1>3, <1>4, <1>5, <1>6, <1>7, <1>8 DEF Next

\* For any number of cancels and mappings: no mark is left without a cause, and
\* no cancel in doubt without its mark.
THEOREM MarksAreRight == Spec => []MarksAreExact
<1>1. IInv /\ MInv /\ [Next]_vars => MInv'
    BY WaitersStep, MappersStep, AnswersStep, DoubtStep, HandledStep DEF MInv
<1>2. IInv /\ MInv => MarksHaveCause
  <2> SUFFICES ASSUME IInv, MInv, \A c \in Cancels : pc[c] \in {"idle", "ended"},
                      known \in unresolved
               PROVE  \E c \in Cancels :
                         ident[c] = known /\ result[c] \in {"unknown", "unreconciled"}
      BY DEF MarksHaveCause
  <2>1. ~Expects(consumed, known) BY DEF Expects
  <2> QED BY <2>1 DEF MInv, EveryMarkIsHandled, Handles, Calling
<1>3. MInv => AmbiguousCancelRetained
    BY DEF MInv, DoubtIsMarked, Doubtful, AmbiguousCancelRetained
<1>4. IInv /\ MInv => MarksAreExact BY <1>2, <1>3 DEF MarksAreExact
<1> QED BY InitIInv, NextIInv, InitMInv, <1>1, <1>4, PTL DEF Spec

=============================================================================
