----------------------------- MODULE MCPurchase -----------------------------
(***************************************************************************)
(* Small purchases: at most two payers, two queriers and two refunds.      *)
(***************************************************************************)
EXTENDS Purchase, TLC

CONSTANTS Querier1, Querier2

OneQuerier == {Querier1}
TwoQueriers == {Querier1, Querier2}
Alike == Permutations(TwoQueriers)
=============================================================================
