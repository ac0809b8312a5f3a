------------------------------ MODULE MCReserve ------------------------------
(***************************************************************************)
(* Small reserves: a credit of 3 becomes a coin that costs 2 and one that  *)
(* costs 1; a second transfer may follow.                                  *)
(***************************************************************************)
EXTENDS Reserve, TLC

CONSTANT Withdrawer1, Withdrawer2

OneTransfer == <<3>>
TwoTransfers == <<2, 1>>
OneWithdrawer == {Withdrawer1}
TwoWithdrawers == {Withdrawer1, Withdrawer2}
Alike == Permutations(TwoWithdrawers)
=============================================================================
