------------------------ MODULE MCHistoricalRecovery ------------------------
(* Small instance of HistoricalRecovery for TLC. *)
EXTENDS HistoricalRecovery, TLC

Symmetry == Permutations(Callers) \cup Permutations(Keys) \cup Permutations(Flights)

=============================================================================
