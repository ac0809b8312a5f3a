---------------------------- MODULE SpendingPurse ----------------------------
(***************************************************************************)
(* Spending implements Purse.  The balance is what a restart of the wallet *)
(* would find again in the database: what is left on the coins, and the    *)
(* new coins of the sessions in slots that are not finished yet.           *)
(***************************************************************************)
EXTENDS Spending

OpenSlots == {s \in Groups \X Coins : s[2] \in olds[s[1]] \ finished[s[1]]}

Recoverable ==
  Sum([c \in Coins |-> coin[c].amount], Coins)
  + Sum([s \in Groups \X Coins |-> Sum(Value, session[s[1]][s[2]].new)], OpenSlots)

PaidOut ==
  Sum([k \in Calls |-> Sum(chosen[k], Coins)], {k \in Calls : Recorded(k)})

ThePurse == INSTANCE Purse WITH
  Deposit <- Sum(Value, Withdrawn),
  MaxFee <- FeeRefresh + FeeWithdraw * Cardinality(Coins),
  balance <- Recoverable,
  paid <- PaidOut

\* No interleaving, failure or restart creates money or loses more of it than
\* the fees: every step of Spending is a step of the purse or leaves it alone.
ImplementsPurse == ThePurse!Spec

-----------------------------------------------------------------------------
(* When that is so, and why                                                *)

\* What the coins and the sessions on record come to, whatever the flags of
\* their slots say.
OnRecord ==
  Sum([c \in Coins |-> coin[c].amount], Coins)
  + Sum([s \in Groups \X Coins |-> Sum(Value, session[s[1]][s[2]].new)],
        {s \in Groups \X Coins : ~session[s[1]][s[2]].revealed})

RecordedPurse == INSTANCE Purse WITH
  Deposit <- Sum(Value, Withdrawn),
  MaxFee <- FeeRefresh + FeeWithdraw * Cardinality(Coins),
  balance <- OnRecord,
  paid <- PaidOut

\* No step creates money, or takes more of it from the records than a payment
\* or the fees of one refresh: the records are a purse even while several runs
\* work on one slot (processRefreshGroup rejects while other runs go on).
KeepsOnRecord == RecordedPurse!Spec

\* Whoever works on a slot, works on one of its group's; it marks the slot as
\* finished when the coin is too small; and the session it stores is worth its
\* fees.
RunInOrder(r) ==
  /\ run[r].pc # "idle" => run[r].old \in olds[run[r].group]
  /\ run[r].pc = "small" => TooSmall(coin[run[r].old].amount)
  /\ run[r].pc = "store" => /\ run[r].input = Cost(run[r].new) + FeeRefresh
                            /\ ~TooSmall(run[r].input)

\* "If a coin can't be refreshed (remaining value too small), it will be marked
\* as finished, but no refresh session will be created."
\* (RefreshGroupRecord.finishedPerCoin): a slot that is finished without a
\* session has such a coin, and one whose session gave its coins is finished.
SlotInOrder(g, c) ==
  /\ session[g][c] # NoSession => c \in olds[g]
  /\ session[g][c].revealed => c \in finished[g]
  /\ c \in finished[g] => /\ c \in olds[g]
                          /\ session[g][c] = NoSession => TooSmall(coin[c].amount)

\* Both hold however many runs work on one slot.
SlotsKept == /\ \A r \in Runs : RunInOrder(r)
             /\ \A g \in Groups, c \in Coins : SlotInOrder(g, c)

\* What goes wrong between two runs on one slot: one takes the coin's value
\* into its session, the other finds the coin too small and has the slot marked
\* as finished.  Nobody will look at that session again.
LosesSession(r) ==
  LET s == session[run[r].group][run[r].old] IN
  MarkTooSmall(r) /\ s # NoSession /\ ~s.revealed
SessionLost == \E r \in Runs : LosesSession(r)
=============================================================================
