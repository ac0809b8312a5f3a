--------------------------- MODULE PurchaseProofs ---------------------------
(***************************************************************************)
(* The maps of refunds in a purchase stay maps whatever overwrites the     *)
(* record.  What the record has as applied was added to its coin, and the  *)
(* two agree until submitPay puts back a copy without an applied refund.   *)
(* A purchase is submitted until it was paid, though payments and queries  *)
(* put old copies of it back.                                              *)
(***************************************************************************)
EXTENDS Purchase, TLAPS

Statuses == [Refunds -> {0, 200, 404, 500}]
Payings == [pc : {"idle", "prepared", "submit", "posted", "accepted"},
            session : Sessions \cup {NoSession}]
WellFormed(p) == p \in Records /\ OnePerKey(p.pending) /\ OnePerKey(p.done)

\* The parts of the type invariant that the steps of submitPay, of the refund
\* query and of the environment change.
PayTyped == /\ payer \in [Payers -> Payings]
            /\ paid \subseteq Sessions \cup {NoSession} /\ told \subseteq Sessions
QueryTyped == /\ querier \in [Queriers -> {"idle", "query", "asking", "answered"}]
              /\ answer \in [Queriers -> Statuses]
              /\ accepted \subseteq Refunds
RecordsTyped == /\ WellFormed(purchase)
                /\ copy \in [Payers -> Records]
                /\ \A a \in Payers : WellFormed(copy[a])
RestTyped == /\ credited \in [Refunds -> Nat]
             /\ status \in Statuses
             /\ crashes \in 0..MaxCrashes
Typed == PayTyped /\ QueryTyped /\ RecordsTyped /\ RestTyped

LEMMA TypedIsTypeOK == Typed <=> TypeOK
  BY DEF Typed, TypeOK, PayTyped, QueryTyped, RecordsTyped, RestTyped, WellFormed,
         Statuses, Payings

-----------------------------------------------------------------------------
(* What one loop of acceptRefundResponse does to a map                     *)

\* The refunds that a loop adds have keys of their own, which the map lacked.
LEMMA NewKeysAreNew ==
  ASSUME NEW S, S \subseteq Refunds, NEW T
  PROVE  /\ NewKeys(S, T) \subseteq S
         /\ OnePerKey(NewKeys(S, T))
         /\ \A r \in NewKeys(S, T), q \in T : GetRefundKey(q) # GetRefundKey(r)
  <1>1. \A q, r \in S : q <= r /\ r <= q => q = r
    BY RefundsAssumption
  <1>. QED
    BY <1>1 DEF NewKeys, SameKey, OnePerKey

\* So a map is one after the loop, too.
LEMMA AddingKeepsKeys ==
  ASSUME NEW S, S \subseteq Refunds, NEW T, T \subseteq Refunds, OnePerKey(T)
  PROVE  OnePerKey(T \cup NewKeys(S, T)) /\ T \cup NewKeys(S, T) \subseteq Refunds
  BY NewKeysAreNew DEF OnePerKey

LEMMA RemovingKeepsKeys ==
  ASSUME NEW S, S \subseteq Refunds, NEW T, OnePerKey(S)
  PROVE  OnePerKey(Without(S, T)) /\ Without(S, T) \subseteq Refunds
  BY DEF Without, OnePerKey

-----------------------------------------------------------------------------
(* Type correctness                                                        *)

LEMMA InitTyped ==
  ASSUME Init
  PROVE  Typed
  <1>1. WellFormed(Confirmed)
    BY DEF WellFormed, Records, Confirmed, OnePerKey
  <1>2. PayTyped
    BY ConfirmerAssumption DEF Init, PayTyped, Payings, Idle
  <1>3. QueryTyped
    BY DEF Init, QueryTyped, NoAnswer, Statuses
  <1>4. RecordsTyped
    BY <1>1 DEF Init, RecordsTyped, WellFormed
  <1>5. RestTyped
    BY ChoicesAssumption DEF Init, RestTyped, NoAnswer, Statuses
  <1>. QED
    BY <1>2, <1>3, <1>4, <1>5 DEF Typed

LEMMA PaidWellFormed ==
  ASSUME NEW p, WellFormed(p)
  PROVE  WellFormed(Paid(p))
  <1>1. p \in Records /\ Paid(p) \in Records
    BY ChoicesAssumption DEF WellFormed, Records, Paid
  <1>2. Paid(p).pending = p.pending /\ Paid(p).done = p.done
    BY <1>1 DEF Paid, Records
  <1>. QED
    BY <1>1, <1>2 DEF WellFormed

LEMMA ExpiredWellFormed ==
  ASSUME NEW p, WellFormed(p)
  PROVE  WellFormed(Expired(p))
  <1>1. p \in Records /\ Expired(p) \in Records
    BY DEF WellFormed, Records, Expired
  <1>2. Expired(p).pending = p.pending /\ Expired(p).done = p.done
    BY <1>1 DEF Expired, Records
  <1>. QED
    BY <1>1, <1>2 DEF WellFormed

LEMMA PayingTyped ==
  ASSUME Typed, NEW a \in Payers,
         \/ \E s \in Sessions : PreparePay(a, s)
         \/ SetSession(a) \/ Pay(a) \/ MerchantIsPaid(a) \/ PayFails(a)
  PROVE  Typed'
  <1>. USE DEF Typed
  <1>1. payer[a] \in Payings /\ WellFormed(copy[a]) /\ WellFormed(purchase)
    BY DEF PayTyped, RecordsTyped
  <1>2. UNCHANGED <<querier, answer, accepted, credited, status, crashes>>
    BY DEF PreparePay, SetSession, Pay, ProcessPurchasePay, SubmitPay, RecordPaid,
           MerchantIsPaid, PayFails, querying, db, merchant
  <1>3. QueryTyped' /\ RestTyped'
    BY <1>2 DEF QueryTyped, RestTyped
  <1>4. payer' \in [Payers -> Payings]
    BY DEF PayTyped, Payings, Idle, Goto, PreparePay, SetSession, Pay,
           ProcessPurchasePay, SubmitPay, RecordPaid, MerchantIsPaid, PayFails
  <1>5. paid' \subseteq Sessions \cup {NoSession}
    <2>1. copy[a].session \in Sessions \cup {NoSession}
      BY <1>1 DEF WellFormed, Records
    <2>. QED
      BY <2>1 DEF PayTyped, PreparePay, SetSession, Pay, ProcessPurchasePay,
         SubmitPay, RecordPaid, MerchantIsPaid, PayFails, merchant
  <1>6. told' \subseteq Sessions
    BY <1>1 DEF PayTyped, Payings, PreparePay, SetSession, Pay, ProcessPurchasePay,
       SubmitPay, RecordPaid, MerchantIsPaid, PayFails
  <1>7. WellFormed(purchase')
    <2>1. CASE SetSession(a)
      <3>1. purchase' = [purchase EXCEPT !.session = payer[a].session]
        BY <2>1 DEF SetSession
      <3>. QED
        BY <1>1, <3>1 DEF WellFormed, Records, Payings
    <2>2. CASE RecordPaid(a)
      <3>1. purchase' = Paid(copy[a])
        BY <2>2 DEF RecordPaid
      <3>. QED
        BY <1>1, <3>1, PaidWellFormed
    <2>3. CASE purchase' = purchase
      BY <1>1, <2>3
    <2>. QED
      BY <2>1, <2>2, <2>3 DEF PreparePay, Pay, ProcessPurchasePay, SubmitPay,
         MerchantIsPaid, PayFails, db
  <1>8. copy' \in [Payers -> Records] /\ \A b \in Payers : WellFormed(copy'[b])
    <2>1. \/ UNCHANGED copy
          \/ copy' = [copy EXCEPT ![a] = purchase]
          \/ copy' = [copy EXCEPT ![a] = Confirmed]
      BY DEF PreparePay, SetSession, Pay, ProcessPurchasePay, SubmitPay,
         RecordPaid, MerchantIsPaid, PayFails, Forget
    <2>2. WellFormed(Confirmed)
      BY DEF WellFormed, Records, Confirmed, OnePerKey
    <2>. QED
      BY <1>1, <2>1, <2>2 DEF RecordsTyped, WellFormed
  <1>. QED
    BY <1>3, <1>4, <1>5, <1>6, <1>7, <1>8 DEF PayTyped, RecordsTyped

\* What the loops of acceptRefundResponse leave in the record.
LEMMA AcceptWellFormed ==
  ASSUME NEW p, WellFormed(p), NEW h, NEW b \in BOOLEAN
  PROVE  WellFormed([p EXCEPT
           !.failed = @ \cup NewFailed(p, h),
           !.pending = Without(PendingBefore(p, h), NewDone(p, h)),
           !.done = @ \cup NewDone(p, h),
           !.requested = b])
  <1>1. /\ p \in Records /\ p.failed \subseteq Refunds /\ p.pending \subseteq Refunds
        /\ p.done \subseteq Refunds
    BY DEF WellFormed, Records
  <1>2. NewFailed(p, h) \subseteq Refunds
    BY DEF NewFailed, NewKeys
  <1>3. /\ OnePerKey(Without(p.pending, NewFailed(p, h)))
        /\ Without(p.pending, NewFailed(p, h)) \subseteq Refunds
    BY <1>1, RemovingKeepsKeys DEF WellFormed
  <1>4. OnePerKey(PendingBefore(p, h)) /\ PendingBefore(p, h) \subseteq Refunds
    BY <1>3, AddingKeepsKeys DEF PendingBefore, NewPending
  <1>5. /\ OnePerKey(Without(PendingBefore(p, h), NewDone(p, h)))
        /\ Without(PendingBefore(p, h), NewDone(p, h)) \subseteq Refunds
    BY <1>4, RemovingKeepsKeys
  <1>6. OnePerKey(p.done \cup NewDone(p, h)) /\ p.done \cup NewDone(p, h) \subseteq Refunds
    BY <1>1, AddingKeepsKeys DEF NewDone, WellFormed
  <1>. DEFINE n == [p EXCEPT
                      !.failed = @ \cup NewFailed(p, h),
                      !.pending = Without(PendingBefore(p, h), NewDone(p, h)),
                      !.done = @ \cup NewDone(p, h),
                      !.requested = b]
  <1>7. /\ p.failed \cup NewFailed(p, h) \subseteq Refunds
    BY <1>1, <1>2
  <1>8. n.pending = Without(PendingBefore(p, h), NewDone(p, h))
        /\ n.done = p.done \cup NewDone(p, h)
    BY <1>1 DEF Records
  <1>9. n \in Records
    BY <1>1, <1>5, <1>6, <1>7 DEF Records
  <1>. QED
    BY <1>5, <1>6, <1>8, <1>9 DEF WellFormed

LEMMA QueryingTyped ==
  ASSUME Typed, NEW q \in Queriers,
         ApplyRefund(q) \/ Query(q) \/ MerchantAnswers(q) \/ QueryFails(q)
  PROVE  Typed'
  <1>. USE DEF Typed
  <1>1. UNCHANGED <<payer, copy, told, paid, status, crashes>>
    BY DEF ApplyRefund, Query, ProcessPurchaseQueryRefund, QueryRefund,
           AcceptRefundResponse, MerchantAnswers, QueryFails, paying, merchant
  <1>2. PayTyped'
    BY <1>1 DEF PayTyped
  <1>3. QueryTyped'
    <2>1. CASE ApplyRefund(q)
      <3>1. /\ querier' = [querier EXCEPT ![q] = "query"]
            /\ accepted' = accepted \cup {r \in Refunds : status[r] # 0}
            /\ answer' = answer
        BY <2>1 DEF ApplyRefund
      <3>. QED
        BY <3>1 DEF QueryTyped
    <2>2. CASE ProcessPurchaseQueryRefund(q) \/ QueryRefund(q)
      <3>1. /\ \E f \in {"query", "asking", "idle"} :
                 querier' = [querier EXCEPT ![q] = f]
            /\ UNCHANGED <<answer, accepted>>
        BY <2>2 DEF ProcessPurchaseQueryRefund, QueryRefund
      <3>. QED
        BY <3>1 DEF QueryTyped
    <2>3. CASE MerchantAnswers(q)
      <3>1. /\ querier' = [querier EXCEPT ![q] = "answered"]
            /\ answer' = [answer EXCEPT ![q] = status]
            /\ accepted' = accepted
        BY <2>3 DEF MerchantAnswers
      <3>. QED
        BY <3>1 DEF QueryTyped, RestTyped
    <2>4. CASE AcceptRefundResponse(q) \/ QueryFails(q)
      <3>1. /\ querier' = [querier EXCEPT ![q] = "idle"]
            /\ answer' = [answer EXCEPT ![q] = NoAnswer]
            /\ accepted' = accepted
        BY <2>4 DEF AcceptRefundResponse, QueryFails
      <3>2. NoAnswer \in Statuses
        BY DEF NoAnswer, Statuses
      <3>. QED
        BY <3>1, <3>2 DEF QueryTyped
    <2>. QED
      BY <2>1, <2>2, <2>3, <2>4 DEF Query
  <1>4. WellFormed(purchase')
    <2>1. CASE ApplyRefund(q)
      <3>1. purchase' = [purchase EXCEPT !.requested = TRUE]
        BY <2>1 DEF ApplyRefund
      <3>. QED
        BY <3>1 DEF RecordsTyped, WellFormed, Records
    <2>2. CASE AcceptRefundResponse(q)
      <3>. DEFINE b == purchase.requested /\ ~QueryDone(purchase, answer[q])
      <3>1. b \in BOOLEAN
        OBVIOUS
      <3>2. purchase' = [purchase EXCEPT
              !.failed = @ \cup NewFailed(purchase, answer[q]),
              !.pending = Without(PendingBefore(purchase, answer[q]),
                                  NewDone(purchase, answer[q])),
              !.done = @ \cup NewDone(purchase, answer[q]),
              !.requested = b]
        BY <2>2 DEF AcceptRefundResponse
      <3>. HIDE DEF b
      <3>. QED
        BY <3>1, <3>2, AcceptWellFormed DEF RecordsTyped
    <2>3. CASE purchase' = purchase
      BY <2>3 DEF RecordsTyped
    <2>. QED
      BY <2>1, <2>2, <2>3 DEF Query, ProcessPurchaseQueryRefund, QueryRefund,
         MerchantAnswers, QueryFails, db
  <1>5. RecordsTyped'
    BY <1>1, <1>4 DEF RecordsTyped
  <1>6. credited' \in [Refunds -> Nat]
    BY DEF RestTyped, ApplyRefund, Query, ProcessPurchaseQueryRefund, QueryRefund,
           AcceptRefundResponse, MerchantAnswers, QueryFails, db
  <1>. QED
    BY <1>1, <1>2, <1>3, <1>5, <1>6 DEF RestTyped

LEMMA EnvironmentTyped ==
  ASSUME Typed,
         \/ \E r \in Refunds : Refund(r) \/ ExchangeSettles(r)
         \/ DeadlinePasses \/ Crash
  PROVE  Typed'
  <1>. USE DEF Typed
  <1>1. CASE \E r \in Refunds : Refund(r) \/ ExchangeSettles(r)
    <2>1. UNCHANGED <<purchase, credited, payer, copy, told, querier, answer,
                      accepted, paid, crashes>>
      BY <1>1 DEF Refund, ExchangeSettles, db, paying, querying
    <2>2. status' \in Statuses
      BY <1>1 DEF RestTyped, Statuses, Refund, ExchangeSettles, Outcomes
    <2>. QED
      BY <2>1, <2>2 DEF PayTyped, QueryTyped, RecordsTyped, RestTyped
  <1>2. CASE DeadlinePasses
    <2>1. /\ UNCHANGED <<credited, payer, told, querier, answer, accepted, paid,
                         status, crashes>>
          /\ purchase' = Expired(purchase)
          /\ copy' = [a \in Payers |-> Expired(copy[a])]
      BY <1>2 DEF DeadlinePasses, querying, merchant
    <2>2. WellFormed(purchase')
      BY <2>1, ExpiredWellFormed DEF RecordsTyped
    <2>3. \A a \in Payers : WellFormed(copy'[a])
      BY <2>1, ExpiredWellFormed DEF RecordsTyped
    <2>4. copy' \in [Payers -> Records]
      BY <2>1, <2>3 DEF WellFormed
    <2>. QED
      BY <2>1, <2>2, <2>3, <2>4 DEF PayTyped, QueryTyped, RecordsTyped, RestTyped
  <1>3. CASE Crash
    <2>1. WellFormed(Confirmed)
      BY DEF WellFormed, Records, Confirmed, OnePerKey
    <2>2. RecordsTyped'
      BY <1>3, <2>1 DEF Crash, db, RecordsTyped, WellFormed
    <2>3. PayTyped'
      BY <1>3 DEF Crash, merchant, PayTyped, Payings, Idle
    <2>4. QueryTyped'
      BY <1>3 DEF Crash, QueryTyped, NoAnswer, Statuses
    <2>5. RestTyped'
      BY <1>3, ChoicesAssumption DEF Crash, db, merchant, RestTyped
    <2>. QED
      BY <2>2, <2>3, <2>4, <2>5
  <1>. QED
    BY <1>1, <1>2, <1>3

LEMMA NextTyped ==
  ASSUME Typed, [Next]_vars
  PROVE  Typed'
  <1>1. CASE UNCHANGED vars
    BY <1>1 DEF vars, Typed, PayTyped, QueryTyped, RecordsTyped, RestTyped
  <1>. QED
    BY <1>1, PayingTyped, QueryingTyped, EnvironmentTyped DEF Next

\* Type correctness: the purchase is a record of the shape of PurchaseRecord
\* whatever submitPay writes back, and neither its map of pending refunds nor
\* its map of applied ones holds two refunds under one key.
THEOREM TypeCorrect == Spec => []TypeOK
  <1>1. Spec => []Typed
    BY InitTyped, NextTyped, PTL DEF Spec
  <1>. QED
    BY <1>1, TypedIsTypeOK, PTL

-----------------------------------------------------------------------------
(* The coins and the purchase                                              *)
(*                                                                         *)
(* What some copy of the record has as applied was added to its coin, and  *)
(* was refunded.  The converse fails: submitPay puts back the copy it read *)
(* before its request, and takes out of the record what a refund query has *)
(* put there meanwhile (pay.ts:816).  That step is named here; it is the   *)
(* only one that makes the coins and the purchase disagree.                *)

Credited(r) == credited[r] > 0
AnswersHold == \A q \in Queriers : \A r \in Refunds :
                 answer[q][r] = 200 => status[r] = 200
CreditsAreRefunds == \A r \in Refunds : Credited(r) => status[r] = 200
AppliedAreCredited ==
  /\ \A r \in purchase.done : Credited(r)
  /\ \A a \in Payers : \A r \in copy[a].done : Credited(r)
RefundsAreReal == AnswersHold /\ CreditsAreRefunds /\ AppliedAreCredited

\* submitPay puts back a copy that lacks a refund which the purchase has.
LosesRefunds(a) == RecordPaid(a) /\ ~(purchase.done \subseteq copy[a].done)
RefundsLost == \E a \in Payers : LosesRefunds(a)

LEMMA InitReal ==
  ASSUME Init
  PROVE  RefundsAreReal
  BY DEF Init, RefundsAreReal, AnswersHold, CreditsAreRefunds, AppliedAreCredited,
     Credited, Confirmed, NoAnswer

\* submitPay makes no refund: what it writes back, it has read.
LEMMA PayingKeepsReal ==
  ASSUME Typed, RefundsAreReal, NEW a \in Payers,
         \/ \E s \in Sessions : PreparePay(a, s)
         \/ SetSession(a) \/ Pay(a) \/ MerchantIsPaid(a) \/ PayFails(a)
  PROVE  RefundsAreReal'
  <1>1. purchase \in Records /\ copy \in [Payers -> Records]
    BY DEF Typed, RecordsTyped, WellFormed
  <1>2. UNCHANGED <<credited, status, answer>>
    BY DEF PreparePay, SetSession, Pay, ProcessPurchasePay, SubmitPay, RecordPaid,
           MerchantIsPaid, PayFails, querying, db, merchant
  <1>3. \/ purchase'.done = purchase.done
        \/ purchase'.done = copy[a].done
    <2>1. CASE SetSession(a)
      BY <1>1, <2>1 DEF SetSession, Records
    <2>2. CASE RecordPaid(a)
      BY <1>1, <2>2 DEF RecordPaid, Paid, Records
    <2>. QED
      BY <2>1, <2>2 DEF PreparePay, Pay, ProcessPurchasePay, SubmitPay,
         MerchantIsPaid, PayFails, db
  <1>4. \/ UNCHANGED copy
        \/ copy' = [copy EXCEPT ![a] = purchase]
        \/ copy' = [copy EXCEPT ![a] = Confirmed]
    BY DEF PreparePay, SetSession, Pay, ProcessPurchasePay, SubmitPay,
       RecordPaid, MerchantIsPaid, PayFails, Forget
  <1>5. Confirmed.done = {}
    BY DEF Confirmed
  <1>6. \A r \in purchase'.done : Credited(r)
    BY <1>3 DEF RefundsAreReal, AppliedAreCredited
  <1>7. \A b \in Payers : \A r \in copy'[b].done : Credited(r)
    BY <1>1, <1>4, <1>5 DEF RefundsAreReal, AppliedAreCredited
  <1>8. AppliedAreCredited'
    BY <1>2, <1>6, <1>7 DEF AppliedAreCredited, Credited
  <1>. QED
    BY <1>2, <1>8 DEF RefundsAreReal, AnswersHold, CreditsAreRefunds, Credited

\* acceptRefundResponse adds to the coins what it adds to the record, and that
\* is what the exchange has answered with 200.
LEMMA AcceptingKeepsReal ==
  ASSUME Typed, RefundsAreReal, NEW q \in Queriers, AcceptRefundResponse(q)
  PROVE  /\ RefundsAreReal'
         /\ CreditsRecorded => CreditsRecorded'
  <1>. DEFINE new == NewDone(purchase, answer[q])
  <1>1. /\ purchase \in Records /\ credited \in [Refunds -> Nat]
        /\ answer \in [Queriers -> Statuses] /\ copy \in [Payers -> Records]
    BY DEF Typed, QueryTyped, RecordsTyped, RestTyped, WellFormed
  <1>2. purchase'.done = purchase.done \cup new
    BY <1>1 DEF AcceptRefundResponse, Records
  <1>3. /\ UNCHANGED <<copy, status>>
        /\ credited' = [r \in Refunds |-> IF r \in new THEN credited[r] + 1
                                          ELSE credited[r]]
        /\ answer' = [answer EXCEPT ![q] = NoAnswer]
    BY DEF AcceptRefundResponse, paying, merchant
  <1>4. /\ new \subseteq Refunds /\ \A r \in new : answer[q][r] = 200
        /\ \A r \in new : r \notin purchase.done
    BY DEF NewDone, NewKeys, SameKey, Finished
  <1>. HIDE DEF new
  <1>5. AnswersHold'
    BY <1>1, <1>3 DEF RefundsAreReal, AnswersHold, NoAnswer
  <1>6. CreditsAreRefunds'
    BY <1>1, <1>3, <1>4
    DEF RefundsAreReal, AnswersHold, CreditsAreRefunds, Credited
  <1>7. AppliedAreCredited'
    <2>1. purchase.done \subseteq Refunds /\ \A b \in Payers : copy[b].done \subseteq Refunds
      BY <1>1 DEF Records
    <2>2. \A r \in Refunds : r \in new \/ Credited(r) => credited'[r] > 0
      BY <1>1, <1>3 DEF Credited
    <2>. QED
      BY <1>2, <1>3, <1>4, <2>1, <2>2
      DEF RefundsAreReal, AppliedAreCredited, Credited
  <1>8. CreditsRecorded => CreditsRecorded'
    BY <1>1, <1>2, <1>3, <1>4 DEF CreditsRecorded
  <1>. QED
    BY <1>5, <1>6, <1>7, <1>8 DEF RefundsAreReal

\* Nobody else touches a coin, and no refund that was made is taken back.
LEMMA OthersKeepReal ==
  ASSUME Typed, RefundsAreReal,
         \/ \E q \in Queriers : \/ ApplyRefund(q) \/ ProcessPurchaseQueryRefund(q)
                                \/ QueryRefund(q) \/ MerchantAnswers(q) \/ QueryFails(q)
         \/ \E r \in Refunds : Refund(r) \/ ExchangeSettles(r)
         \/ DeadlinePasses \/ Crash
  PROVE  /\ RefundsAreReal'
         /\ UNCHANGED credited /\ purchase'.done = purchase.done
  <1>1. /\ purchase \in Records /\ copy \in [Payers -> Records]
        /\ status \in Statuses /\ answer \in [Queriers -> Statuses]
    BY DEF Typed, QueryTyped, RecordsTyped, RestTyped, WellFormed
  <1>2. UNCHANGED credited
    BY DEF ApplyRefund, ProcessPurchaseQueryRefund, QueryRefund, MerchantAnswers,
       QueryFails, Refund, ExchangeSettles, DeadlinePasses, Crash, db
  <1>3. purchase'.done = purchase.done
    BY <1>1 DEF ApplyRefund, ProcessPurchaseQueryRefund, QueryRefund, MerchantAnswers,
       QueryFails, Refund, ExchangeSettles, DeadlinePasses, Expired, Crash, db, Records
  <1>4. \A a \in Payers : copy'[a].done \in {copy[a].done, {}}
    <2>1. CASE DeadlinePasses
      BY <1>1, <2>1 DEF DeadlinePasses, Expired, Records
    <2>2. CASE Crash
      BY <2>2 DEF Crash, Confirmed
    <2>3. CASE ~DeadlinePasses /\ ~Crash
      BY <2>3 DEF ApplyRefund, ProcessPurchaseQueryRefund, QueryRefund,
         MerchantAnswers, QueryFails, Refund, ExchangeSettles, paying
    <2>. QED
      BY <2>1, <2>2, <2>3
  <1>5. \A r \in Refunds : status[r] = 200 => status'[r] = 200
    BY <1>1 DEF Statuses, ApplyRefund, ProcessPurchaseQueryRefund, QueryRefund,
       MerchantAnswers, QueryFails, Refund, ExchangeSettles, DeadlinePasses, Crash,
       merchant
  <1>6. \A q \in Queriers : answer'[q] \in {answer[q], NoAnswer, status}
    BY <1>1 DEF ApplyRefund, ProcessPurchaseQueryRefund, QueryRefund,
       MerchantAnswers, QueryFails, Refund, ExchangeSettles, DeadlinePasses, Crash,
       querying
  <1>7. AnswersHold'
    BY <1>5, <1>6 DEF RefundsAreReal, AnswersHold, NoAnswer
  <1>8. CreditsAreRefunds' /\ AppliedAreCredited'
    BY <1>2, <1>3, <1>4, <1>5
    DEF RefundsAreReal, CreditsAreRefunds, AppliedAreCredited, Credited
  <1>. QED
    BY <1>2, <1>3, <1>7, <1>8 DEF RefundsAreReal

LEMMA NextKeepsReal ==
  ASSUME Typed, RefundsAreReal, [Next]_vars
  PROVE  RefundsAreReal'
  <1>1. CASE UNCHANGED vars
    BY <1>1 DEF vars, RefundsAreReal, AnswersHold, CreditsAreRefunds,
       AppliedAreCredited, Credited
  <1>. QED
    BY <1>1, PayingKeepsReal, AcceptingKeepsReal, OthersKeepReal DEF Next, Query

\* A refund that the purchase has as applied, or any copy of it that submitPay
\* may still write back, was made by the exchange and added to its coin.
\* Nothing is assumed of how many activities pay, for which sessions, when the
\* merchant refunds, or where a restart interrupts them.
THEOREM AppliedIsCredited == Spec => []RefundsAreReal
  <1>1. Init => Typed /\ RefundsAreReal
    BY InitTyped, InitReal
  <1>2. Typed /\ RefundsAreReal /\ [Next]_vars => (Typed /\ RefundsAreReal)'
    BY NextTyped, NextKeepsReal
  <1>. QED
    BY <1>1, <1>2, PTL DEF Spec

\* A step that makes the coins and the purchase disagree is one of those.
LEMMA OnlyStaleCopies ==
  ASSUME Typed, RefundsAreReal, CreditsRecorded, [Next]_vars, ~CreditsRecorded'
  PROVE  <<RefundsLost>>_vars
  <1>1. /\ purchase \in Records /\ copy \in [Payers -> Records]
        /\ credited \in [Refunds -> Nat]
    BY DEF Typed, RecordsTyped, RestTyped, WellFormed
  <1>2. ~(UNCHANGED <<credited, purchase>>)
    BY DEF CreditsRecorded
  <1>3. ~(UNCHANGED credited /\ purchase'.done = purchase.done)
    BY DEF CreditsRecorded
  <1>4. PICK a \in Payers : RecordPaid(a)
    <2>1. SUFFICES ASSUME NEW a \in Payers, SetSession(a)
                   PROVE  FALSE
      BY <1>2, <1>3, AcceptingKeepsReal, OthersKeepReal
      DEF Next, vars, Query, Pay, PreparePay, ProcessPurchasePay, SubmitPay,
          MerchantIsPaid, PayFails, db
    <2>. QED
      BY <1>1, <1>3, <2>1 DEF SetSession, Records
  <1>5. UNCHANGED credited /\ purchase'.done = copy[a].done
    BY <1>1, <1>4 DEF RecordPaid, Paid, Records
  <1>6. ~(purchase.done \subseteq copy[a].done)
    <2>1. SUFFICES ASSUME purchase.done \subseteq copy[a].done
                   PROVE  FALSE
      OBVIOUS
    <2>2. copy[a].done \subseteq Refunds
      BY <1>1 DEF Records
    <2>3. copy[a].done \subseteq purchase.done
      BY <1>1, <2>2 DEF RefundsAreReal, AppliedAreCredited, Credited, CreditsRecorded
    <2>. QED
      BY <1>3, <1>5, <2>1, <2>3
  <1>7. vars' # vars
    BY <1>2 DEF vars
  <1>. QED
    BY <1>4, <1>6, <1>7 DEF RefundsLost, LosesRefunds

\* The coins and the purchase agree, each refund added to its coin once if the
\* purchase has it as applied and never otherwise, unless at some time submitPay
\* has put back a copy of the record that lacked an applied refund.  No other
\* step breaks the agreement: no answer that comes late or twice, no second
\* query, no refund before the payment is known, and no restart.
THEOREM RefundsAgree == Spec => []CreditsRecorded \/ <><<RefundsLost>>_vars
  <1>1. Init => Typed /\ RefundsAreReal
    BY InitTyped, InitReal
  <1>2. Typed /\ RefundsAreReal /\ [Next]_vars => (Typed /\ RefundsAreReal)'
    BY NextTyped, NextKeepsReal
  <1>3. Init => CreditsRecorded
    BY DEF Init, CreditsRecorded, Confirmed
  <1>4. /\ Typed /\ RefundsAreReal /\ CreditsRecorded /\ [Next]_vars
        /\ ~CreditsRecorded'
        => <<RefundsLost>>_vars
    BY OnlyStaleCopies
  <1>. QED
    BY <1>1, <1>2, <1>3, <1>4, PTL DEF Spec

-----------------------------------------------------------------------------
(* The wallet submits until the merchant is paid                           *)
(*                                                                         *)
(* Whatever is written back is a copy that asks for a submission, or the   *)
(* copy of a call that has been answered.  Nothing is assumed of the       *)
(* number of activities and sessions.                                      *)

Owed(p) == p.submitPending \/ paid # {}
Submitting ==
  /\ Owed(purchase)
  /\ \A a \in Payers : /\ Owed(copy[a])
                       /\ payer[a].pc = "accepted" => paid # {}

LEMMA InitSubmitting ==
  ASSUME Init
  PROVE  Submitting
  BY DEF Init, Submitting, Owed, Confirmed, Idle

\* A payment that the merchant has is not taken back.
LEMMA PaidGrows ==
  ASSUME [Next]_vars
  PROVE  paid \subseteq paid'
  BY DEF Next, vars, PreparePay, SetSession, Pay, ProcessPurchasePay, SubmitPay,
     MerchantIsPaid, PayFails, RecordPaid, ApplyRefund, Query,
     ProcessPurchaseQueryRefund, QueryRefund, AcceptRefundResponse, MerchantAnswers,
     QueryFails, Refund, ExchangeSettles, DeadlinePasses, Crash, merchant

LEMMA PayingKeepsSubmitting ==
  ASSUME Typed, Submitting, paid \subseteq paid', NEW a \in Payers,
         \/ \E s \in Sessions : PreparePay(a, s)
         \/ SetSession(a) \/ Pay(a) \/ MerchantIsPaid(a) \/ PayFails(a)
  PROVE  Submitting'
  <1>1. /\ payer \in [Payers -> Payings] /\ purchase \in Records
        /\ copy \in [Payers -> Records]
    BY DEF Typed, PayTyped, RecordsTyped, WellFormed
  <1>2. Confirmed.submitPending
    BY DEF Confirmed
  <1>3. CASE MerchantIsPaid(a)
    <2>1. paid' # {}
      BY <1>3 DEF MerchantIsPaid
    <2>. QED
      BY <2>1 DEF Submitting, Owed
  <1>4. CASE RecordPaid(a)
    <2>1. paid # {}
      BY <1>4 DEF RecordPaid, Submitting
    <2>. QED
      BY <2>1 DEF Submitting, Owed
  <1>5. CASE SubmitPay(a)
    <2>1. /\ copy' = [copy EXCEPT ![a] = purchase] /\ UNCHANGED purchase
          /\ payer' = [payer EXCEPT ![a].pc = "posted"]
      BY <1>5 DEF SubmitPay, Goto, db
    <2>. QED
      BY <1>1, <2>1 DEF Submitting, Owed, Payings
  <1>6. CASE SetSession(a)
    <2>1. purchase'.submitPending = purchase.submitPending
      BY <1>1, <1>6 DEF SetSession, Records
    <2>2. UNCHANGED copy /\ payer' = [payer EXCEPT ![a].pc = "submit"]
      BY <1>6 DEF SetSession, Goto
    <2>. QED
      BY <1>1, <2>1, <2>2 DEF Submitting, Owed, Payings
  <1>7. CASE PayFails(a)
    BY <1>1, <1>2, <1>7 DEF PayFails, Forget, db, Idle, Submitting, Owed, Payings
  <1>8. CASE ProcessPurchasePay(a)
    BY <1>1, <1>8 DEF ProcessPurchasePay, Goto, db, Submitting, Owed, Payings
  <1>9. CASE \E s \in Sessions : PreparePay(a, s)
    <2>1. UNCHANGED <<purchase, copy>>
      BY <1>9 DEF PreparePay, db
    <2>2. \A b \in Payers : payer'[b].pc = "accepted" => payer[b].pc = "accepted"
      BY <1>1, <1>9 DEF PreparePay, Payings
    <2>. QED
      BY <2>1, <2>2 DEF Submitting, Owed
  <1>. QED
    BY <1>3, <1>4, <1>5, <1>6, <1>7, <1>8, <1>9 DEF Pay

\* Nobody else changes what is to be submitted.
LEMMA OthersKeepSubmitting ==
  ASSUME Typed, Submitting, paid \subseteq paid',
         \/ \E q \in Queriers : \/ ApplyRefund(q) \/ Query(q)
                                \/ MerchantAnswers(q) \/ QueryFails(q)
         \/ \E r \in Refunds : Refund(r) \/ ExchangeSettles(r)
         \/ DeadlinePasses \/ Crash
  PROVE  Submitting'
  <1>1. purchase \in Records /\ copy \in [Payers -> Records]
    BY DEF Typed, RecordsTyped, WellFormed
  <1>2. purchase'.submitPending = purchase.submitPending
    BY <1>1 DEF ApplyRefund, Query, ProcessPurchaseQueryRefund, QueryRefund,
       AcceptRefundResponse, MerchantAnswers, QueryFails, Refund, ExchangeSettles,
       DeadlinePasses, Expired, Crash, db, Records
  <1>3. CASE Crash
    BY <1>2, <1>3 DEF Crash, Idle, Confirmed, Submitting, Owed
  <1>4. CASE DeadlinePasses
    <2>1. UNCHANGED payer
          /\ \A a \in Payers : copy'[a].submitPending = copy[a].submitPending
      BY <1>1, <1>4 DEF DeadlinePasses, Expired, Records
    <2>. QED
      BY <1>2, <2>1 DEF Submitting, Owed
  <1>5. CASE ~Crash /\ ~DeadlinePasses
    <2>1. UNCHANGED <<payer, copy>>
      BY <1>5 DEF ApplyRefund, Query, ProcessPurchaseQueryRefund, QueryRefund,
         AcceptRefundResponse, MerchantAnswers, QueryFails, Refund, ExchangeSettles,
         paying
    <2>. QED
      BY <1>2, <2>1 DEF Submitting, Owed
  <1>. QED
    BY <1>3, <1>4, <1>5

LEMMA NextKeepsSubmitting ==
  ASSUME Typed, Submitting, [Next]_vars
  PROVE  Submitting'
  <1>1. CASE UNCHANGED vars
    BY <1>1 DEF vars, Submitting, Owed
  <1>. QED
    BY <1>1, PaidGrows, PayingKeepsSubmitting, OthersKeepSubmitting DEF Next

\* The wallet does not stop submitting a payment before the merchant has one,
\* whatever activities are in submitPay, whatever sessions they want, whatever
\* copies of the record they write back, and wherever a restart interrupts them.
THEOREM SubmitsUntilPaid == Spec => []SubmittedUntilPaid
  <1>1. Init => Typed /\ Submitting
    BY InitTyped, InitSubmitting
  <1>2. Typed /\ Submitting /\ [Next]_vars => (Typed /\ Submitting)'
    BY NextTyped, NextKeepsSubmitting
  <1>3. Submitting => SubmittedUntilPaid
    BY DEF Submitting, Owed, SubmittedUntilPaid
  <1>. QED
    BY <1>1, <1>2, <1>3, PTL DEF Spec
=============================================================================
