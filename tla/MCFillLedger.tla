---------------------------- MODULE MCFillLedger ----------------------------
(* An order of two executions for TLC.  The first is the larger one, so that  *)
(* the second, heard of alone, costs more than a state of the first.  The     *)
(* commission is even: the code matches fills and trades by lots alone, and   *)
(* with uneven commissions a trade heard of out of order takes another's.     *)
EXTENDS FillLedger

MCTrades == 1 .. 2
Measure(m) == [S \in SUBSET MCTrades |-> SumFunction([t \in S |-> m[t]])]
MCLots  == Measure(<<2, 1>>)
MCWorth == Measure(<<2, 4>>)
MCFee   == Measure(<<4, 2>>)
=============================================================================
