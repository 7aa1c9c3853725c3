-------------------------- MODULE MCExecLifecycle --------------------------
(* Small instance of ExecLifecycle for TLC. *)
EXTENDS ExecLifecycle, TLC

Symmetry == Permutations(Ops) \cup Permutations(Workers)

=============================================================================
