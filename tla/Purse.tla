-------------------------------- MODULE Purse --------------------------------
(***************************************************************************)
(* What the wallet promises its user about money: a purse with a balance.  *)
(* A payment takes its price; making change costs at most the fees of one  *)
(* refresh; nothing else changes the balance, and nothing adds to it.      *)
(* Failures, retries and restarts are not even visible.                    *)
(***************************************************************************)
EXTENDS Naturals

CONSTANTS Deposit, MaxFee

VARIABLES balance, paid

Init == balance = Deposit /\ paid = 0

Pay == \E n \in 1..balance : balance' = balance - n /\ paid' = paid + n

MakeChange == /\ \E fee \in 1..MaxFee : fee <= balance /\ balance' = balance - fee
              /\ UNCHANGED paid

Next == Pay \/ MakeChange

Spec == Init /\ [][Next]_<<balance, paid>>
=============================================================================
