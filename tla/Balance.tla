------------------------------ MODULE Balance ------------------------------
(***************************************************************************)
(* The balance the wallet shows (operations/balance.ts), computed from the   *)
(* records of Spending at any time: one exchange and one currency, so that    *)
(* an entry of byCurrency is the one of byExchange.                          *)
(***************************************************************************)
EXTENDS SpendingPurse

\* "available": what fresh coins hold.
Available == Sum([c \in Coins |-> coin[c].amount], Fresh)

\* Mutant: a group that is finished is counted, too.
InGroup(g) == olds[g] # {}
\* A refresh group is finished when it is finished with each of its coins.
Unfinished(g) == olds[g] # finished[g]

\* "pendingIncomingRefresh", a part of "pendingIncoming": what the sessions of unfinished
\* groups give, those that have given it included.
Incoming(g, c) == Sum(Value, session[g][c].new)
PendingIncomingRefresh ==
  Sum([g \in Groups |-> Sum([c \in Coins |-> Incoming(g, c)], olds[g])],
      {g \in Groups : Unfinished(g)})

----------------------------------------------------------------------------
\* What is shown as available and as coming in never exceeds what the wallet has: the coins
\* that were withdrawn, less what was taken for payments ("Don't count finished refreshes,
\* since the refresh already resulted in coins being added to the wallet").  Does not hold
\* in a group of several coins: a session that gave its coins is counted beside them until
\* the last coin of the group is finished (balance.ts:85).
ShownIsThere == Available + PendingIncomingRefresh + PaidOut <= Sum(Value, Withdrawn)
=============================================================================
