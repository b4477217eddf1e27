------------------------- MODULE MCWorkspaceSeeding -------------------------
(***************************************************************************)
(* Instance of WorkspaceSeeding for TLC: the requests of                   *)
(* MCContractWorkspace that take their locks in every order.               *)
(***************************************************************************)
EXTENDS WorkspaceSeeding, MCContractWorkspace

CONSTANT t2

\* The script has two workspaces with an Admin and a Member each.
TwoWorkspaces == <<t1, t2>>
TwoUsers == <<"admin", "member">>

=============================================================================
