------------------------ MODULE MCRemediationEngine ------------------------
(***************************************************************************)
(* Instances of RemediationEngine for TLC.                                 *)
(***************************************************************************)
EXTENDS RemediationEngine, TLC

\* Every incident belongs to the one check.
SameCheck == [i \in Incidents |-> AnyCheck]
Interchangeable == Permutations(Runs) \cup Permutations(Attempts)

=============================================================================
