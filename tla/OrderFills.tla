----------------------------- MODULE OrderFills -----------------------------
(***************************************************************************)
(* What the adapter promises the host of one order's fills: whatever it    *)
(* hears of the executions, from whatever source and in whatever order, it *)
(* sends the lots it has heard of, takes none back, and sends none twice   *)
(* while it can be trusted to tell the executions apart.                   *)
(***************************************************************************)
EXTENDS Integers, FiniteSets

CONSTANTS Trades, Lots

VARIABLES
    executed,    \* how many executions the broker has made
    heard,       \* the trades and the cumulative lots heard of
    published,   \* lots sent to the host
    trusted      \* all that was heard of was known to be of one order

vars == <<executed, heard, published, trusted>>

Made == {t \in Trades : t <= executed}

Init == executed = 0 /\ heard = [trades |-> {}, lots |-> 0] /\ published = 0 /\ trusted = TRUE

Execute == executed' = executed + 1 /\ UNCHANGED <<heard, published, trusted>>

\* Nothing heard of is left unsent, nothing that was not executed is sent.
Settled ==
    /\ Lots[heard'.trades] <= published'
    /\ heard'.lots <= published'
    /\ trusted' => published' <= Lots[Made]

Hear ==
    /\ heard'.trades \in SUBSET Made /\ heard.trades \subseteq heard'.trades
    /\ heard'.lots >= heard.lots
    /\ published' >= published
    /\ trusted' => trusted
    /\ Settled
    /\ UNCHANGED executed

Next == Execute \/ Hear

Spec == Init /\ [][Next]_vars
=============================================================================
