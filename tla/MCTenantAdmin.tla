--------------------------- MODULE MCTenantAdmin ---------------------------
(***************************************************************************)
(* Instances of TenantAdmin for TLC.                                       *)
(***************************************************************************)
EXTENDS TenantAdmin, TLC

CallerSymmetry == Permutations(Callers)
=============================================================================
