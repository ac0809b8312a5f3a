------------------------------ MODULE History ------------------------------
(***************************************************************************)
(* The events the wallet tells its history with (operations/history.ts).    *)
(* A wallet is a record of its stores, each a set of records; amounts are     *)
(* naturals.  Every event has its type, the key that makes its eventId, and   *)
(* the time they are sorted by; what only names or describes it is left out.  *)
(***************************************************************************)
EXTENDS Amounts, FiniteSetsExt

Event(type, key, timestamp, more) ==
  [eventId |-> <<type, key>>, timestamp |-> timestamp, amounts |-> more]
NoAmounts == <<>>

\* The record of a store with a key, or nothing.
Find(store, Has(_)) == {r \in store : Has(r)}
Proposal(db, id) == Find(db.proposals, LAMBDA p : p.proposalId = id)
Purchase(db, id) == Find(db.purchases, LAMBDA p : p.proposalId = id)

\* getOrderShortInfo: there is none for a proposal that was not downloaded.
HasOrder(p) == p.downloaded

SumUp(f(_), S) == MapThenSumSet(f, S)

----------------------------------------------------------------------------
(* collectProposalHistory *)
OrderAccepted(db) ==
  {Event("order-accepted", p.proposalId, p.timestamp, NoAmounts) :
     p \in {q \in db.proposals : q.status = "accepted" /\ HasOrder(q)}}
OrderRefused(db) ==
  {Event("order-refused", p.proposalId, p.timestamp, NoAmounts) :
     p \in {q \in db.proposals : q.status = "refused" /\ HasOrder(q)}}
OrderRedirected(db) ==
  {Event("order-redirected", p.proposalId, p.timestamp, NoAmounts) :
     p \in {q \in db.proposals : /\ q.status = "repurchase"
                                 /\ HasOrder(q)
                                 /\ \E paid \in Proposal(db, q.repurchaseOf) : HasOrder(paid)}}

----------------------------------------------------------------------------
(* getHistory *)
ExchangeAdded(db) == {Event("exchange-added", e.baseUrl, e.timestampAdded, NoAmounts) : e \in db.exchanges}
ExchangeUpdated(db) == {Event("exchange-updated", e.baseUrl, e.timestamp, NoAmounts) : e \in db.exchangeUpdatedEvents}

Withdrawn(db) ==
  {Event("withdrawn", w.withdrawalGroupId, w.timestampFinish, [raw |-> w.rawWithdrawalAmount, effective |-> w.totalCoinValue]) :
     w \in {x \in db.withdrawalGroups : x.timestampFinish # Undef}}

\* A payment is told with what its coins contribute.
PaymentSent(db) ==
  {Event("payment-sent", pe.proposalId, pe.timestamp,
         [paid |-> SumUp(LAMBDA p : FoldLeft(LAMBDA a, b : a + b, 0, p.contributions), Purchase(db, pe.proposalId))]) :
     pe \in {x \in db.payEvents : /\ Purchase(db, x.proposalId) # {}
                                   /\ \E p \in Proposal(db, x.proposalId) : HasOrder(p)}}

\* A refresh group that is finished: what its sessions took, and what is left on its coins;
\* and what its sessions gave.
Session(rg, i) == rg.sessions[i]
\* Mutant: what the sessions took is left out.
RefreshedLeft(db) ==
  {Event("refreshed", rg.refreshGroupId, rg.timestampFinished,
         [raw |-> SumUp(LAMBDA i : rg.left[i], DOMAIN rg.sessions),
          effective |-> SumUp(LAMBDA i : Session(rg, i).output, {i \in DOMAIN rg.sessions : Session(rg, i) # Undef}),
          numInputCoins |-> Len(rg.sessions), numRefreshedInputCoins |-> Len(rg.sessions)]) :
     rg \in {x \in db.refreshGroups : x.timestampFinished # Undef}}
Refreshed(db) ==
  LET slots(rg) == DOMAIN rg.sessions
      withSession(rg) == {i \in slots(rg) : Session(rg, i) # Undef}
  IN {Event("refreshed", rg.refreshGroupId, rg.timestampFinished,
            [raw |-> SumUp(LAMBDA i : rg.left[i], slots(rg)) + SumUp(LAMBDA i : Session(rg, i).input, withSession(rg)),
             effective |-> SumUp(LAMBDA i : Session(rg, i).output, withSession(rg)),
             numInputCoins |-> Cardinality(slots(rg)),
             numRefreshedInputCoins |-> Cardinality(withSession(rg)),
             numOutputCoins |-> SumUp(LAMBDA i : Session(rg, i).newCoins, withSession(rg))]) :
        rg \in {x \in db.refreshGroups : x.timestampFinished # Undef}}

ReserveBalanceUpdated(db) ==
  {Event("reserve-balance-updated", ru.reserveUpdateId, ru.timestamp, NoAmounts) :
     ru \in {x \in db.reserveUpdatedEvents : \E r \in db.reserves : r.reservePub = x.reservePub}}

TipAccepted(db) ==
  {Event("tip-accepted", t.tipId, t.acceptedTimestamp, [raw |-> t.amount]) :
     t \in {x \in db.tips : x.acceptedTimestamp # Undef}}

\* The permissions of one group: those that were done, one after the other, then those
\* that failed, whose fees are taken off too; what is taken off never gets below zero.
OfGroup(permissions, group) == SelectSeq(permissions, LAMBDA r : r.refundGroupId = group)
Effective(done, failed) ==
  LET less(a, b) == IF a < b THEN 0 ELSE a - b
      credited == FoldLeft(LAMBDA sum, r : less(sum + r.amount, r.fee), 0, done)
  IN FoldLeft(LAMBDA sum, r : less(sum, r.fee), credited, failed)
AmountOf(permissions) == FoldLeft(LAMBDA sum, r : sum + r.amount, 0, permissions)
RefundAmounts(purchase, group) ==
  LET done == OfGroup(purchase.refundsDone, group)
      failed == OfGroup(purchase.refundsFailed, group)
  IN [raw |-> AmountOf(done) + AmountOf(failed), invalid |-> AmountOf(failed), effective |-> Effective(done, failed)]
Refund(db) ==
  UNION {{Event("refund", re.refundGroupId, re.timestamp, RefundAmounts(p, re.refundGroupId)) :
            p \in {q \in Purchase(db, re.proposalId) : \E o \in Proposal(db, re.proposalId) : HasOrder(o)}} :
          re \in db.refundEvents}

FundsRecouped(db) ==
  {Event("funds-recouped", rg.recoupGroupId, rg.timestampFinished, NoAmounts) :
     rg \in {x \in db.recoupGroups : x.timestampFinished # Undef}}

Events(db) ==
  UNION {ExchangeAdded(db), ExchangeUpdated(db), Withdrawn(db), OrderAccepted(db), OrderRefused(db), OrderRedirected(db),
         PaymentSent(db), Refreshed(db), ReserveBalanceUpdated(db), TipAccepted(db), Refund(db), FundsRecouped(db)}

----------------------------------------------------------------------------
(* acceptRefundResponse (operations/refund.ts), which writes the refund        *)
(* events: groups is the set of groups that have one.                        *)

\* getRefundKey: the same for every permission.
RefundKey(permission) == "{d.coin_pub}-{d.rtransaction_id}"
HasKey(permissions, key) == \E i \in DOMAIN permissions : permissions[i].key = key
Granted(r, group) == [key |-> RefundKey(r), amount |-> r.amount, fee |-> r.fee, refundGroupId |-> group]
IsFailure(r) == r.status >= 400 /\ r.status < 400
IsDone(r) == r.status = 200

AcceptPending(p, r, group) ==
  IF HasKey(p.refundsPending, RefundKey(r)) THEN p ELSE [p EXCEPT !.refundsPending = Append(@, Granted(r, group))]
\* It is the group of the permission that was pending that has changed.
AcceptDone(p, r, group) ==
  LET IsIt(x) == x.key = RefundKey(r)
  IN IF HasKey(p.refundsDone, RefundKey(r)) THEN p
     ELSE [p EXCEPT !.refundsDone = Append(@, Granted(r, group)),
                    !.changed = @ \cup {x.refundGroupId : x \in ToSet(SelectSeq(p.refundsPending, IsIt))},
                    !.refundsPending = SelectSeq(@, LAMBDA x : ~IsIt(x))]
\* A permission that failed is not pending any more; its group has changed.
AcceptFailed(p, r, group) ==
  LET IsIt(x) == x.key = RefundKey(r)
  IN IF HasKey(p.refundsFailed, RefundKey(r)) THEN p
     ELSE [p EXCEPT !.refundsFailed = Append(@, Granted(r, group)),
                    !.changed = @ \cup {group} \cup {x.refundGroupId : x \in ToSet(SelectSeq(p.refundsPending, IsIt))},
                    !.refundsPending = SelectSeq(@, LAMBDA x : ~IsIt(x))]

\* A group that has changed has its event when nothing of it is pending.
AcceptRefundResponse(p, refunds, group) ==
  LET Accept(Do(_, _, _), q, Is(_)) == FoldLeft(LAMBDA acc, r : Do(acc, r, group), q, SelectSeq(refunds, Is))
      failed == Accept(AcceptFailed, [p EXCEPT !.changed = {}], IsFailure)
      unfinished == Accept(AcceptPending, failed, LAMBDA r : ~IsDone(r) /\ ~IsFailure(r))
      accepted == Accept(AcceptDone, unfinished, IsDone)
      isOver(g) == \A x \in ToSet(accepted.refundsPending) : x.refundGroupId # g
  IN [accepted EXCEPT !.groups = @ \cup {g \in accepted.changed : isOver(g)}]
=============================================================================
