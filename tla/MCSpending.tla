----------------------------- MODULE MCSpending -----------------------------
(***************************************************************************)
(* Small wallets for Spending and its refinement of Purse.  Each coin is   *)
(* named after its value.                                                  *)
(***************************************************************************)
EXTENDS Balance, TLC

CONSTANTS c4, c3, n2, n1, o1, p1, p2

\* Two coins; what is left of them makes new coins worth 2 and 1.
TwoCoins == {c4, c3}
TwoCoinsAndNew == TwoCoins \cup {n2, n1, o1}
\* One coin, whose change makes a coin of 2 that can be spent again.
OneCoin == {c4}
OneCoinAndNew == OneCoin \cup {n2, n1, o1}

MCValue == [c \in Coins |->
  CASE c = c4 -> 4 [] c = c3 -> 3 [] c = n2 -> 2 [] OTHER -> 1]
\* p1 takes a part of one coin, p2 all of the first and a part of the second.
MCPrice == [p \in Proposals |-> IF p = p1 THEN 1 ELSE 5]

\* Runs are alike, calls are alike, and so are the new coins worth 1.
Alike == Permutations(Runs) \cup Permutations(Calls) \cup Permutations({n1, o1})
=============================================================================
