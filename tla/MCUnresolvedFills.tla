--------------------------- MODULE MCUnresolvedFills ---------------------------
(***************************************************************************)
(* Instance for TLC: two fills of one order.                               *)
(***************************************************************************)
EXTENDS UnresolvedFills, TLC

MCOrderOf == (1 :> "v") @@ (2 :> "v")

=============================================================================
