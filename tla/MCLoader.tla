------------------------------ MODULE MCLoader ------------------------------
(* Instances of Loader, with its history, for TLC. *)
EXTENDS LoaderHistory

CONSTANTS u1, u2, s1, s2, a, b, broken

\* A bound of the run: a disk that fails is not combined with other faults.
FaultsApart == diskFailures = 0 \/ failures + crashes = 0

MCSpec ==
  /\ LoaderHistoryInit
  /\ [][LoaderHistoryNext /\ FaultsApart']_loaderHistoryVars
  /\ LoaderFairness
=============================================================================
