------------------------ MODULE MCContractDetailPage ------------------------
(***************************************************************************)
(* Instances of ContractDetailPage for TLC.                                *)
(***************************************************************************)
EXTENDS ContractDetailPage

=============================================================================
