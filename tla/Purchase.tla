------------------------------ MODULE Purchase ------------------------------
(***************************************************************************)
(* One purchase after recordConfirmPay: submitting it to the merchant,     *)
(* again for another session, and querying the merchant for refunds        *)
(* (operations/pay.ts from submitPay on, and operations/refund.ts).        *)
(*                                                                         *)
(* Nothing here is memoised.  The call of confirmPay, the retry loop,      *)
(* runPending and preparePayForUri may all be in submitPay at once, and    *)
(* the retry loop and applyRefund in processPurchaseQueryRefund.  submitPay *)
(* works on a copy of the whole record that it read before its request,    *)
(* and writes that copy back; the refund query changes the record in a     *)
(* transaction of its own.                                                 *)
(*                                                                         *)
(* The merchant is the environment.  What a refund adds to its coin is     *)
(* abstracted to how often it was added.                                   *)
(***************************************************************************)
EXTENDS Naturals, FiniteSets

CONSTANTS
  Payers,        \* activities in submitPay and preparePayForUri
  Confirmer,     \* the one that comes from confirmPay
  Sessions,      \* the session ids of taler://pay/ URIs opened later
  NoSession,     \* confirmPay's session id
  Queriers,      \* activities in processPurchaseQueryRefund
  Refunds,       \* the refund permissions, in the order the merchant lists them
  AutoRefund,    \* whether the contract has an auto_refund delay
  EarlyRefunds,  \* whether the merchant may refund before the wallet knows
                 \* that it was paid
  MayRefuse,     \* whether the exchange may refuse a refund for good
  MaxCrashes     \* bound on the number of restarts

ASSUME ConfirmerAssumption == Confirmer \in Payers
ASSUME SessionsAssumption == NoSession \notin Sessions
ASSUME RefundsAssumption == Refunds \subseteq Nat /\ IsFiniteSet(Refunds)
ASSUME ChoicesAssumption ==
  /\ AutoRefund \in BOOLEAN /\ EarlyRefunds \in BOOLEAN /\ MayRefuse \in BOOLEAN
  /\ MaxCrashes \in Nat

VARIABLES
  purchase,  \* Stores.purchases: the record
  credited,  \* Stores.coins: how often a refund was added to its coin
  payer,     \* pc of the activities in submitPay, with the session they want
  copy,      \* ... and the record they have read
  querier,   \* pc of the activities in the refund query
  answer,    \* ... and the merchant's answer they have got
  paid,      \* the sessions the merchant has a payment for
  status,    \* the exchange's HTTP status of every refund, 0 before it is made
  told,      \* the sessions preparePayForUri has reported as paid
  accepted,  \* the refunds that were there when the user opened their URI
  crashes

db == <<purchase, credited>>
paying == <<payer, copy, told>>
querying == <<querier, answer, accepted>>
merchant == <<paid, status>>
vars == <<purchase, credited, payer, copy, querier, answer, paid, status, told,
          accepted, crashes>>

Confirmed ==
  [session |-> NoSession, submitPending |-> TRUE, first |-> FALSE,
   requested |-> FALSE, deadline |-> "none", pending |-> {}, done |-> {},
   failed |-> {}]
Idle == [pc |-> "idle", session |-> NoSession]
NoAnswer == [r \in Refunds |-> 0]

\* recordConfirmPay has stored the purchase, and confirmPay calls submitPay.
Init ==
  /\ purchase = Confirmed
  /\ credited = [r \in Refunds |-> 0]
  /\ payer = [a \in Payers |-> IF a = Confirmer THEN [Idle EXCEPT !.pc = "submit"]
                               ELSE Idle]
  /\ copy = [a \in Payers |-> Confirmed]
  /\ querier = [q \in Queriers |-> "idle"]
  /\ answer = [q \in Queriers |-> NoAnswer]
  /\ paid = {} /\ told = {} /\ accepted = {} /\ crashes = 0
  /\ status = NoAnswer

-----------------------------------------------------------------------------
(* submitPay and its callers                                               *)

Goto(a, l) == payer' = [payer EXCEPT ![a].pc = l]
Forget(a) == copy' = [copy EXCEPT ![a] = Confirmed]

\* preparePayForUri finds the purchase.  It says that it is paid if the last
\* session is the one of the URI.
PreparePay(a, s) ==
  /\ payer[a].pc = "idle"
  /\ IF purchase.session = s
     THEN told' = told \cup {s} /\ UNCHANGED payer
     ELSE /\ payer' = [payer EXCEPT ![a] = [pc |-> "prepared", session |-> s]]
          /\ UNCHANGED told
  /\ UNCHANGED <<db, copy, querying, merchant, crashes>>

SetSession(a) ==
  /\ payer[a].pc = "prepared"
  /\ purchase' = [purchase EXCEPT !.session = payer[a].session]
  /\ Goto(a, "submit")
  /\ UNCHANGED <<credited, copy, told, querying, merchant, crashes>>

ProcessPurchasePay(a) ==
  /\ payer[a].pc = "idle"
  /\ purchase.submitPending
  /\ Goto(a, "submit")
  /\ UNCHANGED <<db, copy, told, querying, merchant, crashes>>

SubmitPay(a) ==
  /\ payer[a].pc = "submit"
  /\ copy' = [copy EXCEPT ![a] = purchase]
  /\ Goto(a, "posted")
  /\ UNCHANGED <<db, told, querying, merchant, crashes>>

MerchantIsPaid(a) ==
  /\ payer[a].pc = "posted"
  /\ paid' = paid \cup {copy[a].session}
  /\ Goto(a, "accepted")
  /\ UNCHANGED <<db, copy, told, querying, status, crashes>>

\* Mutant: a failed payment is not retried.
PayGivesUp(a) ==
  /\ payer[a].pc \in {"posted", "accepted"}
  /\ payer' = [payer EXCEPT ![a] = Idle]
  /\ purchase' = [purchase EXCEPT !.submitPending = FALSE]
  /\ Forget(a)
  /\ UNCHANGED <<credited, told, querying, merchant, crashes>>
\* The request, or its answer, gets lost.
PayFails(a) ==
  /\ payer[a].pc \in {"posted", "accepted"}
  /\ payer' = [payer EXCEPT ![a] = Idle]
  /\ Forget(a)
  /\ UNCHANGED <<db, told, querying, merchant, crashes>>

\* The copy, and whether it was the first payment by the copy.
Paid(p) ==
  LET auto == ~p.first /\ AutoRefund IN
  [p EXCEPT !.first = TRUE, !.submitPending = FALSE,
            !.requested = @ \/ auto,
            !.deadline = IF auto THEN "open" ELSE @]

RecordPaid(a) ==
  /\ payer[a].pc = "accepted"
  /\ purchase' = Paid(copy[a])
  /\ told' = IF payer[a].session = NoSession THEN told
             ELSE told \cup {payer[a].session}
  /\ payer' = [payer EXCEPT ![a] = Idle]
  /\ Forget(a)
  /\ UNCHANGED <<credited, querying, merchant, crashes>>

-----------------------------------------------------------------------------
(* acceptRefundResponse                                                    *)

\* The key is written as `{d.coin_pub}-{d.rtransaction_id}`, without the
\* dollar signs: the same text for every refund.
GetRefundKey(r) == "{d.coin_pub}-{d.rtransaction_id}"

SameKey(S, r) == \E q \in S : GetRefundKey(q) = GetRefundKey(r)
\* Mutant: a key that is in the map is added again.
KnownKeys(S, T) ==
  {r \in S : \A q \in S : GetRefundKey(q) = GetRefundKey(r) => r <= q}
\* Those of S that a loop over S adds to a map that holds the keys of T.
NewKeys(S, T) ==
  {r \in S : ~SameKey(T, r) /\ \A q \in S : GetRefundKey(q) = GetRefundKey(r) => r <= q}
Without(S, T) == {r \in S : ~SameKey(T, r)}

Finished(h) == h = 200
Failed(h) == h >= 400 /\ h < 400
Unfinished(h) == h # 0 /\ ~Finished(h) /\ ~Failed(h)

\* What a response adds to the three maps of the purchase, in the order of
\* the three loops.
NewFailed(p, h) == NewKeys({r \in Refunds : Failed(h[r])}, p.failed)
NewPending(p, h) ==
  NewKeys({r \in Refunds : Unfinished(h[r])}, Without(p.pending, NewFailed(p, h)))
NewDone(p, h) == NewKeys({r \in Refunds : Finished(h[r])}, p.done)
PendingBefore(p, h) ==
  Without(p.pending, NewFailed(p, h)) \cup NewPending(p, h)

HasNews(p, h) ==
  \/ NewFailed(p, h) # {} \/ NewPending(p, h) # {}
  \/ \E r \in NewDone(p, h) : ~SameKey(PendingBefore(p, h), r)

\* Mutant: a query goes on until there is a refund.
DoneWhenFinished(p, h) == HasNews(p, h) /\ \A r \in Refunds : ~Unfinished(h[r])
QueryDone(p, h) ==
  /\ HasNews(p, h) \/ p.deadline # "open"
  /\ \A r \in Refunds : ~Unfinished(h[r])

AcceptRefundResponse(q) ==
  LET h == answer[q]
      new == NewDone(purchase, h)
  IN /\ querier[q] = "answered"
     /\ purchase' = [purchase EXCEPT
          !.failed = @ \cup NewFailed(purchase, h),
          !.pending = Without(PendingBefore(purchase, h), new),
          !.done = @ \cup new,
          !.requested = @ /\ ~QueryDone(purchase, h)]
     /\ credited' = [r \in Refunds |-> IF r \in new THEN credited[r] + 1
                                       ELSE credited[r]]
     /\ querier' = [querier EXCEPT ![q] = "idle"]
     /\ answer' = [answer EXCEPT ![q] = NoAnswer]
     /\ UNCHANGED <<accepted, paying, merchant, crashes>>

-----------------------------------------------------------------------------
(* applyRefund and processPurchaseQueryRefund                              *)

\* The user opens the URI of a refund.
ApplyRefund(q) ==
  /\ querier[q] = "idle"
  /\ \E r \in Refunds : status[r] # 0
  /\ purchase' = [purchase EXCEPT !.requested = TRUE]
  /\ accepted' = accepted \cup {r \in Refunds : status[r] # 0}
  /\ querier' = [querier EXCEPT ![q] = "query"]
  /\ UNCHANGED <<credited, answer, paying, merchant, crashes>>

ProcessPurchaseQueryRefund(q) ==
  /\ querier[q] = "idle"
  /\ purchase.requested
  /\ querier' = [querier EXCEPT ![q] = "query"]
  /\ UNCHANGED <<db, answer, accepted, paying, merchant, crashes>>

QueryRefund(q) ==
  /\ querier[q] = "query"
  /\ querier' = [querier EXCEPT ![q] = IF purchase.requested THEN "asking" ELSE "idle"]
  /\ UNCHANGED <<db, answer, accepted, paying, merchant, crashes>>

MerchantAnswers(q) ==
  /\ querier[q] = "asking"
  /\ paid # {}
  /\ answer' = [answer EXCEPT ![q] = status]
  /\ querier' = [querier EXCEPT ![q] = "answered"]
  /\ UNCHANGED <<db, accepted, paying, merchant, crashes>>

QueryFails(q) ==
  /\ querier[q] \in {"asking", "answered"}
  /\ querier' = [querier EXCEPT ![q] = "idle"]
  /\ answer' = [answer EXCEPT ![q] = NoAnswer]
  /\ UNCHANGED <<db, accepted, paying, merchant, crashes>>

-----------------------------------------------------------------------------
(* The merchant, the clock and restarts                                    *)

Outcomes == {200} \cup (IF MayRefuse THEN {404} ELSE {})

Refund(r) ==
  /\ paid # {} /\ status[r] = 0
  /\ EarlyRefunds \/ purchase.first
  /\ \E h \in Outcomes \cup {500} : status' = [status EXCEPT ![r] = h]
  /\ UNCHANGED <<db, paying, querying, paid, crashes>>

\* The exchange answers the merchant at last.
ExchangeSettles(r) ==
  /\ status[r] = 500
  /\ \E h \in Outcomes : status' = [status EXCEPT ![r] = h]
  /\ UNCHANGED <<db, paying, querying, paid, crashes>>

Expired(p) == [p EXCEPT !.deadline = IF @ = "open" THEN "passed" ELSE @]
DeadlinePasses ==
  /\ purchase.deadline = "open"
  /\ purchase' = Expired(purchase)
  /\ copy' = [a \in Payers |-> Expired(copy[a])]
  /\ UNCHANGED <<credited, payer, told, querying, merchant, crashes>>

Crash ==
  /\ crashes < MaxCrashes
  /\ crashes' = crashes + 1
  /\ payer' = [a \in Payers |-> Idle]
  /\ copy' = [a \in Payers |-> Confirmed]
  /\ querier' = [q \in Queriers |-> "idle"]
  /\ answer' = [q \in Queriers |-> NoAnswer]
  /\ UNCHANGED <<db, told, accepted, merchant>>

Pay(a) == ProcessPurchasePay(a) \/ SubmitPay(a) \/ RecordPaid(a)
Query(q) ==
  ProcessPurchaseQueryRefund(q) \/ QueryRefund(q) \/ AcceptRefundResponse(q)

Next ==
  \/ \E a \in Payers : \/ \E s \in Sessions : PreparePay(a, s)
                       \/ SetSession(a) \/ Pay(a)
                       \/ MerchantIsPaid(a) \/ PayFails(a)
  \/ \E q \in Queriers : \/ ApplyRefund(q) \/ Query(q)
                         \/ MerchantAnswers(q) \/ QueryFails(q)
  \/ \E r \in Refunds : Refund(r) \/ ExchangeSettles(r)
  \/ DeadlinePasses \/ Crash

Spec == Init /\ [][Next]_vars

\* The retry loop re-drives what is pending; a request that is made again and
\* again is answered at last; the exchange settles, and time goes by.
Fairness ==
  /\ \A a \in Payers : WF_vars(Pay(a)) /\ SF_vars(MerchantIsPaid(a))
                       /\ SF_vars(RecordPaid(a))
  /\ \A q \in Queriers : WF_vars(Query(q)) /\ SF_vars(MerchantAnswers(q))
                         /\ SF_vars(AcceptRefundResponse(q))
  /\ \A r \in Refunds : WF_vars(ExchangeSettles(r))
  /\ WF_vars(DeadlinePasses)
FairSpec == Spec /\ Fairness

-----------------------------------------------------------------------------
(* Properties                                                              *)

Records == [session : Sessions \cup {NoSession}, submitPending : BOOLEAN,
            first : BOOLEAN, requested : BOOLEAN,
            deadline : {"none", "open", "passed"},
            pending : SUBSET Refunds, done : SUBSET Refunds,
            failed : SUBSET Refunds]
OnePerKey(S) == \A q, r \in S : GetRefundKey(q) = GetRefundKey(r) => q = r
\* The purchase and every copy of it keep their shape, and no map of refunds,
\* which acceptRefundResponse changes entry by entry, has two under one key.
TypeOK ==
  /\ purchase \in Records /\ copy \in [Payers -> Records]
  /\ \A p \in {purchase} \cup {copy[a] : a \in Payers} :
       OnePerKey(p.pending) /\ OnePerKey(p.done)
  /\ credited \in [Refunds -> Nat]
  /\ payer \in [Payers -> [pc : {"idle", "prepared", "submit", "posted", "accepted"},
                           session : Sessions \cup {NoSession}]]
  /\ querier \in [Queriers -> {"idle", "query", "asking", "answered"}]
  /\ answer \in [Queriers -> [Refunds -> {0, 200, 404, 500}]]
  /\ paid \subseteq Sessions \cup {NoSession} /\ told \subseteq Sessions
  /\ accepted \subseteq Refunds
  /\ status \in [Refunds -> {0, 200, 404, 500}]
  /\ crashes \in 0..MaxCrashes

\* The coins and the purchase agree: a refund was added to its coin once if the
\* purchase has it as applied ("Applied refunds for the purchase"), else never.
CreditsRecorded ==
  \A r \in Refunds : credited[r] = IF r \in purchase.done THEN 1 ELSE 0

\* A refund is added to its coin once, however often it is reported.
CreditedOnce == \A r \in Refunds : credited[r] <= 1

\* The wallet stops submitting only when the merchant has been paid.
SubmittedUntilPaid == purchase.submitPending \/ paid # {}

\* "Last session signature that we submitted to /pay": when preparePayForUri
\* says that a session is paid for, the merchant has the payment.
PaidForTheSession == told \subseteq paid

\* A query for refunds ends: what the merchant reports as unfinished is finished
\* by a later answer.  A refund that was refused is the exception, see below.
QueriesEnd ==
  purchase.requested ~> ~purchase.requested \/ \E r \in Refunds : status[r] = 404

\* "Accept a refund" (applyRefund): a refund that the user has accepted is added
\* to its coin in the end.
RefundArrives == \A r \in Refunds : r \in accepted ~> credited[r] > 0

\* "Refunds that permanently failed": one the exchange refuses ends up there.
RefusalIsRecorded ==
  \A r \in Refunds : status[r] = 404 /\ purchase.requested ~> r \in purchase.failed
=============================================================================
