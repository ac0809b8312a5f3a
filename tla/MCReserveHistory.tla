-------------------------- MODULE MCReserveHistory --------------------------
(***************************************************************************)
(* A wallet and an exchange that go on writing their histories of one      *)
(* reserve, and the wallet's reconciliation of the two.                    *)
(***************************************************************************)
EXTENDS ReserveHistory, FiniteSets, TLC

CONSTANTS Credits, MaxItems, MaxTransactions

VARIABLES local, remote, rejected
hvars == <<local, remote, rejected>>

\* createReserve expects one credit.
HistoryInit == /\ local \in {<<Expect("credit", n)>> : n \in Credits}
               /\ remote = <<>>
               /\ rejected = FALSE

Balance(r) ==
  LET signed(t) == IF t.type \in {"credit", "recoup"} THEN t.amount ELSE -t.amount
  IN FoldLeft(LAMBDA b, t : b + signed(t), 0, r)

\* depleteReserve expects a withdrawal of what is unclaimed.
Claim == /\ Len(local) < MaxItems
         /\ \E n \in Credits : /\ n <= Unclaimed(local)
                               /\ local' = Append(local, Expect("withdraw", n))
         /\ UNCHANGED <<remote, rejected>>

\* The exchange never pays out more than it has.
Book == /\ Len(remote) < MaxTransactions
        /\ \E type \in Types, n \in Credits :
             LET r == Append(remote, [id |-> Len(remote) + 1, type |-> type,
                                      amount |-> n])
             IN Balance(r) >= 0 /\ remote' = r
        /\ UNCHANGED <<local, rejected>>

\* updateReserve with an answer that may have been on its way for a while.
Update == \E n \in 1..Len(remote) :
  LET answer == SubSeq(remote, 1, n) IN
  /\ IF StillMatched(local, answer)
     THEN local' = Reconcile(local, answer) /\ UNCHANGED rejected
     ELSE rejected' = TRUE /\ UNCHANGED local
  /\ UNCHANGED remote

HistoryNext == Claim \/ Book \/ Update
HistorySpec == HistoryInit /\ [][HistoryNext]_hvars

-----------------------------------------------------------------------------
\* "Balance computed by the wallet, should match the balance computed by the
\* reserve" (ReserveHistorySummary): the matched items are the transactions
\* the exchange reported, each once, whatever was expected before.
BalanceAgrees ==
  LET n == Cardinality(MatchedIds(local))
  IN /\ MatchedIds(local) = 1..n
     /\ ComputedBalance(local) = Balance(SubSeq(remote, 1, n))

\* The greedy matching finds as many matches as any matching could, so that
\* no transaction that was expected is taken for one that nobody expected.
Count(s, P(_)) == Cardinality({i \in DOMAIN s : P(s[i])})
MatchesAreMaximal ==
  \A n \in 0..Len(remote) :
    LET answer == SubSeq(remote, 1, n) IN
    StillMatched(local, answer) =>
      \A type \in {"credit", "withdraw"}, a \in Credits :
        LET wanted == Count(local, LAMBDA i : /\ i.type = type /\ i.expected = a
                                              /\ i.matched = Unmatched)
            new == Count(answer, LAMBDA t : /\ t.type = type /\ t.amount = a
                                            /\ t.id \notin MatchedIds(local))
            left == Count(Reconcile(local, answer),
                          LAMBDA i : /\ i.type = type /\ i.expected = a
                                     /\ i.matched = Unmatched)
        IN left = wanted - (IF wanted < new THEN wanted ELSE new)

\* Reconciling is idempotent: the same answer read twice (by two runs of
\* processReserve, or after a restart) brings no news.
NoNewsTwice ==
  \A n \in 0..Len(remote) :
    LET answer == SubSeq(remote, 1, n) IN
    StillMatched(local, answer) => ~HasNews(Reconcile(local, answer), answer)

\* "Amount that we're still expecting to come into the reserve"
\* (ReserveHistorySummary.awaitedReserveAmount).
AwaitedIsExpected == Awaited(local) = SumExpected(local, {"credit"})
=============================================================================
