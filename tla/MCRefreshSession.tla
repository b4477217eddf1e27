-------------------------- MODULE MCRefreshSession --------------------------
(***************************************************************************)
(* Instances of RefreshSession for TLC.                                    *)
(***************************************************************************)
EXTENDS RefreshSession, TLC

MCSymmetry ==
  Permutations(Sessions) \cup Permutations(Selectors) \cup Permutations(Requests)

=============================================================================
