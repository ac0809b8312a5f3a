--------------------------- MODULE ReserveHistory ---------------------------
(***************************************************************************)
(* The wallet's view of a reserve's transactions                           *)
(* (util/reserveHistoryUtil.ts).  A local history is a sequence of items;  *)
(* each may expect an amount and may have been matched with a transaction  *)
(* of the exchange.  A transaction is known by its id (the wire reference  *)
(* of a credit, the blinded coin of a withdrawal, ...).                    *)
(***************************************************************************)
EXTENDS Integers, Sequences, SequencesExt

Types == {"credit", "withdraw", "closing", "recoup"}
Transactions == [id: Nat \ {0}, type: Types, amount: Nat]

\* No amount is expected; no transaction was matched.
Nothing == 0
Unmatched == [id |-> 0, type |-> "none", amount |-> 0]

Items == [type: Types, expected: Nat, matched: Transactions \cup {Unmatched}]
Expect(type, amount) ==
  [type |-> type, expected |-> amount, matched |-> Unmatched]

-----------------------------------------------------------------------------
(* reconcileReserveHistory *)

MatchedIds(local) == {local[i].matched.id : i \in DOMAIN local} \ {0}

\* Otherwise: "previously matched reserve history item now unmatched".
StillMatched(local, remote) ==
  MatchedIds(local) \subseteq {remote[j].id : j \in DOMAIN remote}

\* A local item matches a transaction of the same kind with the amount it
\* expects; a closing is never expected.
IsLocalRemoteMatch(item, transaction) ==
  /\ item.type = transaction.type
  /\ item.type # "closing"
  /\ item.expected # Nothing
  /\ item.expected = transaction.amount

\* Mutant: a transaction that was matched before may match once more.
CandidatesAll(local, remote, i) ==
  {j \in DOMAIN remote : IsLocalRemoteMatch(local[i], remote[j])}
Candidates(local, remote, i) ==
  {j \in DOMAIN remote : /\ remote[j].id \notin MatchedIds(local)
                         /\ IsLocalRemoteMatch(local[i], remote[j])}

\* Each local item in turn takes the first transaction that is left for it.
MatchItem(local, remote, i) ==
  IF local[i].matched # Unmatched \/ Candidates(local, remote, i) = {}
  THEN local
  ELSE [local EXCEPT ![i].matched = remote[Min(Candidates(local, remote, i))]]
MatchItems(local, remote) ==
  FoldLeft(LAMBDA l, i : MatchItem(l, remote, i), local,
           [i \in DOMAIN local |-> i])

\* The transactions nobody expected become items of their own.
Added(local, remote) ==
  LET push(items, t) ==
        IF t.id \in MatchedIds(local) THEN items
        ELSE Append(items, [type |-> t.type, expected |-> Nothing, matched |-> t])
  IN FoldLeft(push, <<>>, remote)
Reconcile(local, remote) ==
  LET matched == MatchItems(local, remote)
  IN matched \o Added(matched, remote)

\* Whether there are new matches or new items.
MatchedItems(local) == {i \in DOMAIN local : local[i].matched # Unmatched}
\* Mutant: only items nobody expected are news.
OnlyAddedIsNews(local, remote) == Len(Reconcile(local, remote)) > Len(local)
HasNews(local, remote) == MatchedItems(Reconcile(local, remote)) # MatchedItems(local)

-----------------------------------------------------------------------------
(* summarizeReserveHistory *)

Total(amounts) == FoldLeft(LAMBDA a, b : a + b, 0, amounts)
SumMatched(local, types) ==
  Total([i \in DOMAIN local |->
    IF local[i].type \in types THEN local[i].matched.amount ELSE 0])
SumExpected(local, types) ==
  Total([i \in DOMAIN local |->
    IF local[i].type \in types /\ local[i].matched = Unmatched
    THEN local[i].expected ELSE 0])

\* Amounts.sub saturates.
Minus(a, b) == IF a < b THEN 0 ELSE a - b

Positive(local) == SumMatched(local, {"credit", "recoup"})
Negative(local) == SumMatched(local, {"withdraw", "closing"})
ComputedBalance(local) == Minus(Positive(local), Negative(local))
Unclaimed(local) ==
  Minus(Positive(local), Negative(local) + SumExpected(local, {"withdraw"}))
Awaited(local) ==
  Minus(SumExpected(local, {"credit"}), SumExpected(local, {"withdraw"}))
WithdrawnAmount(local) == SumMatched(local, {"withdraw"})
=============================================================================
