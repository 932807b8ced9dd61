----------------------------- MODULE MCBilling -----------------------------
(***************************************************************************)
(* An instance of Billing for TLC: the balance covers either request, not  *)
(* both, until a refund or the purchase comes.                             *)
(***************************************************************************)
EXTENDS Billing, TLC

CONSTANTS learner, pro, starter

MCRequests == {learner, pro}
MCCost == learner :> 1 @@ pro :> 5
MCPurchases == {starter}
MCPack == starter :> 10
=============================================================================
