-------------------------- MODULE MCPendingCancel --------------------------
(* Instances of PendingCancel for TLC. *)
EXTENDS PendingCancel, TLC

\* Cancels are interchangeable, and so are mappers.
Symmetry == Permutations(Cancels) \cup Permutations(Mappers)
=============================================================================
