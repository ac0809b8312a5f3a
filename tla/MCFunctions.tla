---------------------------- MODULE MCFunctions ----------------------------
(***************************************************************************)
(* What the wallet computes, asked about one thing at a time: two things that *)
(* have a history, a reserve's and the trees of a store, and questions with    *)
(* an answer.  A question has a topic and what it asks about.                 *)
(***************************************************************************)
EXTENDS MCReserveHistory, MCTrees, Selection, History, Inputs, Signatures

VARIABLE asked
vars == <<hvars, tvars, asked>>

About(topic, question) == [topic |-> topic, question |-> question]
IsAbout(topic) == asked.topic = topic
q == asked.question

NoHistory == local = <<>> /\ remote = <<>> /\ rejected = FALSE
NoTree == /\ heap = EmptyHeap /\ original = EmptyLeaf /\ modified = EmptyLeaf
          /\ originalMap = <<>> /\ modifiedMap = <<>> /\ ops = 0 /\ deletes = 0

----------------------------------------------------------------------------
(* The questions. *)

\* Amounts that carry, borrow and overflow.
SomeAmounts == {Amount(v, f) : v \in {0, 1, maxAmountValue}, f \in {0, 1, 5, 10, 50, fractionalBase - 1}}
AboutAmounts == {About("amounts", [a |-> a, b |-> b, n |-> n]) : a \in SomeAmounts, b \in SomeAmounts, n \in {1, 2, 3}}

\* Points in time, and durations.
SomeTimes == {0, 1, 999, 1000, 1500, Forever}
AboutTimes == {About("times", [t |-> t, u |-> u, d |-> d]) : t \in SomeTimes, u \in SomeTimes, d \in SomeTimes}
\* Requests to one origin at once, to another, and to the first some seconds later.
AboutRequests == {About("requests", [first |-> m, other |-> o, elapsed |-> e, second |-> n]) :
                    m \in {0, 1, 4, 6}, o \in {0, 6}, e \in {0, 10, 1000, 2500}, n \in {1, 2, 5, 8}}
SomeVersions == {Undef} \cup {<<c, 0, a>> : c \in 0..3, a \in 0..2}
AboutVersions == {About("versions", [me |-> v, other |-> w]) : v \in SomeVersions, w \in SomeVersions}

\* Up to three coins, whatever they are worth and cost.
SomeCoins == {[coinPub |-> i, available |-> a, feeDeposit |-> f, suspended |-> FALSE, status |-> "Fresh"] :
                i \in {1, 2, 3}, a \in {1, 2, 4}, f \in {0, 1, 2}}
CoinSets == {{}} \cup {{c} : c \in SomeCoins}
            \cup {S \in {{c, d} : c \in SomeCoins, d \in SomeCoins} : \A x, y \in S : x # y => x.coinPub # y.coinPub}
            \cup {{c, d, e} : c \in {x \in SomeCoins : x.coinPub = 1 /\ x.feeDeposit = 1},
                              d \in {x \in SomeCoins : x.coinPub = 2},
                              e \in {x \in SomeCoins : x.coinPub = 3 /\ x.feeDeposit = 0}}
AboutPayments == {About("payment", [coins |-> S, amount |-> n, feeLimit |-> l]) : S \in CoinSets, n \in 1..4, l \in 0..2}

\* Two exchanges, with their coins, their wire fees and the time each begins to be asked.
SomeExchanges(pub, coinSets) ==
  {[masterPub |-> pub, auditors |-> {"auditor"}, hasDetails |-> TRUE, hasWireInfo |-> w, coins |-> S, fees |-> fees] :
     w \in BOOLEAN, S \in coinSets,
     fees \in {<<>>, <<[wireFee |-> 2, startStamp |-> 0, endStamp |-> 9]>>,
              <<[wireFee |-> 4, startStamp |-> 0, endStamp |-> 3], [wireFee |-> 1, startStamp |-> 4, endStamp |-> 9]>>}}
Coin(i, available, suspended, status) ==
  [coinPub |-> i, value |-> 4, available |-> available, feeDeposit |-> 1, suspended |-> suspended, status |-> status]
AboutContracts ==
  {About("contract", [exchanges |-> <<d, e>>,
                      contract |-> [amount |-> n, maxDepositFee |-> l, maxWireFee |-> 1, wireFeeAmortization |-> a,
                                    timestamp |-> 5, allowedExchanges |-> pubs, allowedAuditors |-> auditors]]) :
     d \in SomeExchanges("e1", {{}, {Coin(1, 2, FALSE, "Fresh")}, {Coin(1, 4, TRUE, "Fresh"), Coin(2, 3, FALSE, "Fresh")}}),
     e \in SomeExchanges("e2", {{Coin(3, 4, FALSE, "Fresh")}, {Coin(3, 4, FALSE, "Dormant"), Coin(4, 2, FALSE, "Fresh")}}),
     n \in 1..3, l \in {0, 1}, a \in {1, 2}, pubs \in {{}, {"e1", "e2"}}, auditors \in {{}, {"auditor"}}}

\* Denominations that may be expired, or revoked.
SomeDenoms == {[value |-> v, feeWithdraw |-> f, stampStart |-> 0, stampExpireWithdraw |-> e, isRevoked |-> r] :
                 v \in {1, 2, 3}, f \in {0, 1}, e \in {3, Forever}, r \in BOOLEAN}
AboutWithdrawals == {About("withdrawal", [denoms |-> <<d, e>>, amount |-> n]) : d \in SomeDenoms, e \in SomeDenoms, n \in 0..7}

\* What happened to a wallet.
SomeRefunds == {<<>>} \cup {<<[status |-> s, amount |-> 2, fee |-> 1]>> : s \in {200, 404, 500}}
NoRefunds == [proposalId |-> "p2", contributions |-> <<2, 3>>, refundsPending |-> <<>>, refundsDone |-> <<>>,
              refundsFailed |-> <<>>, changed |-> {}, groups |-> {}]
Refunded(first, second) == AcceptRefundResponse(AcceptRefundResponse(NoRefunds, first, "g1"), second, "g2")
Wallet(status, downloaded, finish, first, second, output) ==
  LET purchase == Refunded(first, second)
  IN [proposals |-> {[proposalId |-> "p1", status |-> status, downloaded |-> downloaded, timestamp |-> 1, repurchaseOf |-> "p2"],
                     [proposalId |-> "p2", status |-> "accepted", downloaded |-> TRUE, timestamp |-> 2, repurchaseOf |-> Undef]},
      purchases |-> {purchase},
      refundEvents |-> {[refundGroupId |-> g, proposalId |-> "p2", timestamp |-> 5] : g \in purchase.groups},
      exchanges |-> {[baseUrl |-> "e", timestampAdded |-> 1]},
      exchangeUpdatedEvents |-> {[baseUrl |-> "e", timestamp |-> 2]},
      withdrawalGroups |-> {[withdrawalGroupId |-> "w", timestampFinish |-> finish, rawWithdrawalAmount |-> 6, totalCoinValue |-> 5]},
      payEvents |-> {[proposalId |-> "p2", timestamp |-> 3]},
      refreshGroups |-> {[refreshGroupId |-> "r", timestampFinished |-> finish, left |-> <<1, 0, 2>>,
                          sessions |-> <<Undef, [input |-> 3, output |-> output, newCoins |-> 1],
                                         [input |-> 4, output |-> 4, newCoins |-> 2]>>]},
      reserves |-> {[reservePub |-> "s"]},
      reserveUpdatedEvents |-> {[reserveUpdateId |-> "u", reservePub |-> "s", timestamp |-> 1]},
      tips |-> {[tipId |-> "t", acceptedTimestamp |-> finish, amount |-> 2]},
      recoupGroups |-> {[recoupGroupId |-> "c", timestampFinished |-> finish]}]
AboutWallets ==
  {About("wallet", [db |-> Wallet(s, d, f, r1, r2, o), answers |-> <<r1, r2>>]) :
     s \in {"proposed", "accepted", "refused", "repurchase"}, d \in BOOLEAN, f \in {Undef, 4},
     r1 \in SomeRefunds, r2 \in SomeRefunds, o \in {1, 2}}

\* A message as it should be, with everything in it or without what it may lack.
RECURSIVE Sample(_, _)
Sample(codec, full) ==
  CASE codec.kind \in {"string", "any"} -> Text("word")
    [] codec.kind = "number" -> Number(1)
    [] codec.kind = "boolean" -> Truth(TRUE)
    [] codec.kind = "const" -> Text(codec.text)
    [] codec.kind = "optional" -> IF full THEN Sample(codec.inner, full) ELSE Null
    [] codec.kind = "list" -> Array(IF full THEN <<Sample(codec.inner, full), Sample(codec.inner, ~full)>> ELSE <<>>)
    [] codec.kind = "map" -> Object("key" :> Sample(codec.inner, full))
    [] codec.kind = "point" -> Object(codec.member :> IF full THEN Number(1) ELSE Text(codec.word))
    [] codec.kind = "object" -> Object([n \in DOMAIN codec.props |-> Sample(codec.props[n], full)] @@ "other" :> Null)
    [] codec.kind = "union" -> Sample(codec.alternatives["CREDIT"], full)

\* One property of it is something else.
Names(codec) == IF codec.kind = "union" THEN DOMAIN codec.alternatives["CREDIT"].props ELSE DOMAIN codec.props
CodecOf(codec, name) == IF codec.kind = "union" THEN codec.alternatives["CREDIT"].props[name] ELSE codec.props[name]
With1(message, name, x) == Object([message[2] EXCEPT ![name] = x])
\* null is a map without members.
MayBe(codec, x) == codec.kind \in {"any", "optional"} \/ (codec.kind = "map" /\ x = Null)
Messages == {codecForDenomination, codecForAuditor, codecForContractTerms, codecForMerchantRefundResponse, codecForTipResponse,
             codecForExchangeKeysJson, codecForExchangeWireJson, codecForProposal, codecForCheckPaymentResponse,
             codecForWithdrawOperationStatusResponse, codecForTipPickupGetResponse, codecForRecoupConfirmation,
             codecForWithdrawResponse, codecForReserveTransaction, codecForReserveStatus, codecForCreateReserveRequest,
             codecForConfirmReserveRequest}
AboutMessages ==
  UNION {{About("message", [codec |-> c, message |-> Sample(c, full), broken |-> FALSE]) : full \in BOOLEAN} : c \in Messages}
  \cup UNION {{About("message", [codec |-> c, message |-> With1(Sample(c, full), n, x),
                                 broken |-> ~MayBe(CodecOf(c, n), x)]) :
                 full \in BOOLEAN, n \in Names(c), x \in {Undef, Null}} : c \in Messages}

\* Words that may be missing, a dash, or encoded.
SomeSegments == {Segment("word", 0), Segment("word", 1), Segment("", 0), Dash}
AboutUris ==
  {About("uri", [segments |-> <<Segment("host", 0), path, instance, Segment("order", 0)>> \o more, insecure |-> i]) :
     path \in SomeSegments, instance \in SomeSegments, more \in {<<>>, <<Segment("session", 0)>>}, i \in BOOLEAN}

AboutPayto ==
  {About("payto", [scheme |-> s, path |-> p, params |-> m]) :
     s \in {"payto", "https"}, p \in {<<"sepa">>, <<"x-taler-bank", "bank", "account">>},
     m \in {<<>>, <<<<"amount", "KUDOS:1">>>>, <<<<"amount", "KUDOS:1">>, <<"message", "rent">>>>}}

SomeBytes == {0, 1, 31, 32, 128, 255}
AboutBytes == {About("bytes", b) : b \in UNION {[1..n -> SomeBytes] : n \in 0..3}}

\* Keys that are small enough to try everything with: N, e and the private exponent.
SmallKeys == {[N |-> 15, e |-> 3, d |-> 3], [N |-> 33, e |-> 3, d |-> 7], [N |-> 35, e |-> 5, d |-> 5]}
AboutKeys == UNION {{About("rsa", [key |-> k, data |-> x, r |-> r]) : x \in 0..k.N - 1, r \in 0..k.N - 1} : k \in SmallKeys}
\* Bytes of three bits.
AboutKdf == {About("kdf", [n |-> n, buf |-> b]) : n \in {2, 5, 7, 8, 9, 12, 33, 40, 63}, b \in 0..63}

NewDenom(key, value, fee) ==
  [denomPub |-> key, value |-> Amount(value, 50), feeWithdraw |-> Amount(0, fee), feeDeposit |-> Amount(0, 1),
   feeRefresh |-> Amount(0, 2), feeRefund |-> Amount(0, 3), stampStart |-> 1500, stampExpireWithdraw |-> 2500,
   stampExpireDeposit |-> 3999, stampExpireLegal |-> 5000]
DenomLists == UNION {[1..n -> {NewDenom("d1", 0, 60), NewDenom("d2", 1, 0)}] : n \in 1..2}
AboutCoins ==
  {About("coin", [denoms |-> ds, meltFee |-> Amount(0, f), noreveal |-> g, refundDeadline |-> t]) :
     ds \in DenomLists, f \in {0, 70}, g \in 1..3, t \in {0, 1999}}

Questions == UNION {AboutAmounts, AboutTimes, AboutRequests, AboutVersions, AboutPayments, AboutContracts, AboutWithdrawals,
                    AboutWallets, AboutMessages, AboutUris, AboutPayto, AboutBytes, AboutKeys, AboutKdf, AboutCoins}

Init == \/ HistoryInit /\ NoTree /\ asked = About("reserve", Undef)
        \/ TreeInit /\ NoHistory /\ asked = About("tree", Undef)
        \/ NoTree /\ NoHistory /\ asked \in Questions
Next == \/ IsAbout("reserve") /\ HistoryNext /\ UNCHANGED <<tvars, asked>>
        \/ IsAbout("tree") /\ TreeNext /\ UNCHANGED <<hvars, asked>>
Spec == Init /\ [][Next]_vars

----------------------------------------------------------------------------
\* The wallet's history of a reserve agrees with the exchange's, and no transaction that
\* was expected is taken for one that nobody expected (reconcileReserveHistory).
HistoriesAgree == IsAbout("reserve") => BalanceAgrees /\ MatchesAreMaximal

\* Amounts are exact, or the result says that it is not: nothing is lost in a carry, a
\* borrow or a digit ("Add two amounts.  Return the result and whether the addition
\* overflowed", amounts.ts).  Points in time are in one order, which what remains of them
\* and what is added to them agree with (time.ts).  No origin is sent more requests than its
\* buckets held and gained since, nor fewer for those of another (RequestThrottler.ts).
\* Which version is asked does not matter for whether two are compatible (libtoolVersion.ts).
Total2(a, b) == Units(a) + Units(b)
AmountsAreExact ==
  LET sum == Add(q.a, <<q.b>>)
      rest == Sub(q.a, <<q.b>>)
      all == SumOf(<<q.a, q.b, q.b>>)
  IN /\ sum = IF Total2(q.a, q.b) > Units(Greatest) THEN Saturated(Greatest)
              ELSE Exact(Amount(Total2(q.a, q.b) \div fractionalBase, Total2(q.a, q.b) % fractionalBase))
     /\ ~all.saturated => Units(all.amount) = Units(sum.amount) + Units(q.b)
     /\ all.saturated => Units(q.a) + 2 * Units(q.b) > Units(Greatest)
     /\ rest.saturated = (Units(q.a) < Units(q.b))
     /\ Units(rest.amount) = IF rest.saturated THEN 0 ELSE Units(q.a) - Units(q.b)
     /\ IsNormal(rest.amount)
     /\ Cmp(q.a, q.b) = Sign(Units(q.a) - Units(q.b))
     /\ Units(Divide(q.a, q.n)) = Units(q.a) \div q.n /\ IsNormal(Divide(q.a, q.n))
     /\ IsZero(q.a) = (Units(q.a) = 0) /\ IsNonZero(q.a) = ~IsZero(q.a)
     /\ Parse(Stringify(q.a)) = q.a
TimesAreOrdered ==
  LET later == timestampCmp(q.t, q.u) > 0
  IN /\ timestampCmp(q.u, q.t) = -timestampCmp(q.t, q.u)
     /\ timestampIsBetween(q.d, q.u, q.t) => ~(timestampCmp(q.u, q.t) > 0)
     /\ q.u # Forever => /\ (getDurationRemaining(q.t, q.u) = 0) = ~later
                         /\ later => timestampAddDuration(q.u, getDurationRemaining(q.t, q.u)) = q.t
                         /\ later => getDurationRemaining(q.t, q.u) = timestampDifference(q.t, q.u)
     /\ q.d # Forever => timestampSubtractDuraction(timestampAddDuration(q.t, q.d), q.d) = q.t
     /\ timestampCmp(timestampTruncateToSecond(q.t, 1000), q.t) <= 0
\* Tokens are counted in thousandths: what a bucket gains in a second, and is full with (the
\* code's limits are 50, 100 and 1000 tokens).
Gains == [second |-> 1, minute |-> 60, hour |-> 3600]
Holds == [second |-> 5000, minute |-> 7000, hour |-> 9000]
Requests(origins, origin, n, now) ==
  FoldLeft(LAMBDA acc, i : LET r == ApplyThrottle(acc.origins, origin, Holds, Gains, 1000, now)
                           IN [origins |-> r.origins, sent |-> acc.sent + IF r.throttled THEN 0 ELSE 1],
           [origins |-> origins, sent |-> 0], [i \in 1..n |-> i])
NoneIsSentTooMuch ==
  LET first == Requests(<<>>, "exchange", q.first, 0)
      other == Requests(first.origins, "bank", q.other, q.elapsed)
      second == Requests(other.origins, "exchange", q.second, q.elapsed)
      alone == Requests(first.origins, "exchange", q.second, q.elapsed)
      held(b) == LesserOf(Holds[b], Holds[b] - first.sent * 1000 + Gains[b] * q.elapsed)
  IN /\ second.sent = alone.sent
     /\ \A b \in Buckets : (first.sent + second.sent) * 1000 <= Holds[b] + Gains[b] * q.elapsed
     /\ second.sent < q.second => \E b \in Buckets : held(b) < (second.sent + 1) * 1000
VersionsAgree ==
  LET there == Compare(q.me, q.other)
      back == Compare(q.other, q.me)
  IN /\ (there = Undef) = (back = Undef)
     /\ there # Undef => there.compatible = back.compatible /\ there.currentCmp = -back.currentCmp
FiguresAreRight == /\ IsAbout("amounts") => AmountsAreExact
                   /\ IsAbout("times") => TimesAreOrdered
                   /\ IsAbout("requests") => NoneIsSentTooMuch
                   /\ IsAbout("versions") => VersionsAgree

\* The least of two points in time, or durations, is one of them that is not after the other
\* (timestampMin, durationMin).  Does not hold: "never" is before everything, when it is second.
MinIsLeast == IsAbout("times") => timestampCmp(timestampMin(q.t, q.u), q.t) <= 0
\* A second after the last request to an origin another one may be sent ("Maximum request per
\* second", RequestThrottler.ts).  Does not hold: a bucket gains a thousandth of what it says.
SecondsPass == (IsAbout("requests") /\ q.second = 1 /\ q.elapsed >= 1) =>
  Requests(Requests(<<>>, "exchange", q.first, 0).origins, "exchange", 1, q.elapsed).sent = 1

\* "If the amount left is zero, then the refresh cost is also considered to be zero.  If a
\* refresh isn't possible, then the cost is the full amount left" (refresh.ts).
RefreshCostFits ==
  LET cost == GetTotalRefreshCost(q.denoms, 1, q.amount, 1, 1, 8)
      usable == {d \in ToSet(q.denoms) : ~d.isRevoked /\ CostOf(d) <= q.amount - 1}
  IN /\ cost \in 0..q.amount
     /\ usable = {} => cost = q.amount
     /\ usable # {} => cost \in 1..q.amount - 1
\* The coins that are selected pay the price and the fees that the merchant does not bear,
\* none with more than it has or less than it costs, and a price is refused only if all
\* coins together cannot pay it (selectPayCoins).  What is withdrawn costs no more than
\* there is, and nothing is left that would pay for another coin (getWithdrawDenomList).
SelectionsFit == /\ IsAbout("payment") => PaymentFits(q.coins, q.amount, q.feeLimit)
                 /\ IsAbout("contract") => ContractFits(q.exchanges, q.contract)
                 /\ IsAbout("withdrawal") => WithdrawalFits(q.amount, q.denoms, 1, 1, 8) /\ RefreshCostFits

\* A payment is possible if one of the exchanges would do.  Does not hold: the wire fee of the
\* exchanges that were tried before is asked of it, too.
OneExchangeIsEnough == IsAbout("contract") =>
  (GetCoinsForPayment(q.exchanges, q.contract).result = Undef
     => \A i \in DOMAIN q.exchanges : GetCoinsForPayment(<<q.exchanges[i]>>, q.contract).result = Undef)
\* The wire fee that is paid is one of the contract's time.  Does not hold: it is the first.
FeeIsOfTheTime == IsAbout("contract") =>
  LET paid == GetCoinsForPayment(q.exchanges, q.contract)
      ofTheTime == {f.wireFee : f \in {g \in ToSet(paid.exchange.fees) : g.startStamp <= 5 /\ g.endStamp >= 5}}
  IN (paid.result # Undef /\ paid.exchange.fees # <<>>) => WireFee(paid.exchange) \in ofTheTime
\* What the user is told a payment costs is what it takes from the coins ("How much of the
\* deposit fees is the customer paying?", pay.ts).  Does not hold: the fees are told as zero.
CostIsTold == IsAbout("contract") =>
  LET paid == GetCoinsForPayment(q.exchanges, q.contract)
      chosen == paid.result.chosen
  IN paid.result # Undef =>
       GetTotalPaymentCost(paid.result, [left \in 0..4 |-> 0])
         >= Contributed(chosen)

\* The history tells everything that was finished, each thing once and under an eventId of
\* its own, and never that a refresh or a refund gave more than it took ("amountRefreshedRaw
\* - amountRefreshedEffective are the fees", types/history.ts).
Of(type) == {e \in Events(q.db) : e.eventId[1] = type}
HistoryTells == IsAbout("wallet") =>
  LET db == q.db
      times(n) == IF n = Undef THEN 0 ELSE 1
  IN /\ \A e, f \in Events(db) : e.eventId = f.eventId => e = f
     /\ \A w \in db.withdrawalGroups : Cardinality(Of("withdrawn")) = times(w.timestampFinish)
     /\ \A r \in db.refreshGroups : Cardinality(Of("refreshed")) = times(r.timestampFinished)
     /\ Cardinality(Of("order-accepted") \cup Of("order-refused") \cup Of("order-redirected")) <= Cardinality(db.proposals)
     /\ \A e \in Of("refreshed") : /\ e.amounts.effective <= e.amounts.raw
                                    /\ e.amounts.numRefreshedInputCoins <= e.amounts.numInputCoins
     /\ \A e \in Of("refund") : e.amounts.effective <= e.amounts.raw

\* A refund is told when it was granted ("Groups that newly failed/succeeded", refund.ts).
\* Does not hold: the group of a refund that succeeds at once is not among those that changed.
RefundsAreTold ==
  (IsAbout("wallet") /\ \E i \in {1, 2} : \E r \in ToSet(q.answers[i]) : r.status = 200)
    => \E e \in Of("refund") : e.amounts.raw = 2

\* A message is decoded whole or not at all, and what was decoded can be decoded again
\* (codec.ts); the same merchant is found in the URIs for paying him, for a refund and for a
\* tip (taleruri.ts); bytes come back from their encoding (encodeCrock, decodeCrock).
MessageIsWhole ==
  LET decoded == ScrutinizeResponse(200, q.message, q.codec)
      codec == IF q.codec.kind = "union" THEN q.codec.alternatives["CREDIT"] ELSE q.codec
  IN /\ q.broken = (decoded = Throws)
     /\ decoded # Throws => Decode(q.codec, decoded) = decoded
     /\ decoded # Throws => DOMAIN decoded[2] = DOMAIN codec.props
     /\ ~q.broken => \A n \in DOMAIN codec.props :
          codec.props[n].kind \in {"string", "number", "const", "point"} => decoded[2][n] = q.message[2][n]
UriOf(kind) == [kind |-> kind, segments |-> q.segments, insecure |-> q.insecure]
SameMerchant ==
  LET pay == parsePayUri(UriOf("pay"))
      refund == parseRefundUri(UriOf("refund"))
      tip == parseTipUri(UriOf("tip"))
      Accepts(kind) == {parsePayUri(UriOf(kind)), parseRefundUri(UriOf(kind)), parseTipUri(UriOf(kind)),
                        parseWithdrawUri(UriOf(kind))} \ {Undef}
  IN /\ (pay = Undef) = (refund = Undef) /\ (pay = Undef) = (tip = Undef)
     /\ \A kind \in {"pay", "refund", "tip", "withdraw", "other"} : Cardinality(Accepts(kind)) <= 1
     /\ classifyTalerUri(UriOf("other")) = "unknown" /\ Accepts("other") = {}
     /\ pay # Undef => /\ refund.merchantBaseUrl = pay.merchantBaseUrl /\ refund.orderId = pay.orderId
                       /\ ~q.insecure => tip.merchantBaseUrl = pay.merchantBaseUrl
                       /\ getOrderDownloadUrl(pay.merchantBaseUrl, pay.orderId).base = refund.merchantBaseUrl
BytesComeBack ==
  LET chars == encodeCrock(q)
  IN decodeCrock(chars) = q /\ Len(chars) = (Len(q) * 8 + 4) \div 5
\* No parameter of a payto: URI gets lost when its values differ (payto.ts).
ParamsAreKept ==
  LET parsed == parsePaytoUri(q)
  IN /\ (parsed = Undef) = (q.scheme # "payto" \/ Len(q.path) = 1)
     /\ parsed # Undef => /\ <<parsed.targetType>> \o parsed.targetPath = q.path
                          /\ Cardinality(DOMAIN parsed.params) = Len(q.params)
\* A parameter is found under its name.  Does not hold: it is under its value.
ParamsHaveNames == IsAbout("payto") =>
  LET parsed == parsePaytoUri(q)
  IN parsed # Undef => \A i \in DOMAIN q.params : q.params[i][1] \in DOMAIN parsed.params
\* The path of a merchant is the same for whom to pay and whom to ask for a refund.  Does not
\* hold for a path that was encoded twice, which parsePayUri decodes twice.
TwiceEncoded == [kind |-> "pay", segments |-> <<Segment("host", 0), Segment("a%2Fb", 2), Dash, Segment("order", 0)>>, insecure |-> FALSE]
SamePath == IsAbout("uri") =>
  parsePayUri(TwiceEncoded).merchantBaseUrl = parseRefundUri([TwiceEncoded EXCEPT !.kind = "refund"]).merchantBaseUrl
InputsAgree == /\ IsAbout("payto") => ParamsAreKept
               /\ IsAbout("message") => MessageIsWhole
               /\ IsAbout("uri") => SameMerchant
               /\ IsAbout("bytes") => BytesComeBack

\* What the exchange signed blindly is its signature of the coin, whatever the blinding key
\* (rsaBlind, rsaUnblind, rsaVerify); the numbers of kdfMod are all those below the modulus.
SignatureOfCoin ==
  LET blinded == RsaBlind(q.data, q.r, q.key)
      signed == ModPow(blinded, q.key.d, q.key.N)
      unblinded == RsaUnblind(signed, q.r, q.key)
  IN blinded # Throws /\ unblinded # Throws => RsaVerify(q.data, unblinded, q.key)
NumberFits == LET x == KdfMod(q.n, <<q.buf, q.n - 1>>, 3) IN x \in 0..q.n - 1 /\ (q.buf < q.n => x = q.buf)

\* What the exchange checks of a melted coin and of its revealed transfer keys: that they
\* reproduce what the session's hash commits to, for the amount that was signed.
Reproduces(request, coinPub, denoms, meltFee, norevealIndex) ==
  LET gammas == 1..3
      priv(g) == request.transfer_privs[IF g < norevealIndex THEN g ELSE g - 1]
      evs(g) == IF g = norevealIndex THEN request.coin_evs
                ELSE [j \in DOMAIN denoms |-> RefreshPlanchet(KeyExchangeEcdheEddsa(priv(g), coinPub), denoms[j], j).coinEv]
      pubs == [g \in gammas |-> IF g = norevealIndex THEN request.transfer_pub ELSE Pub(priv(g))]
  IN request.rc = SessionHash(pubs, [j \in DOMAIN denoms |-> denoms[j].denomPub], coinPub, ValueWithFee(denoms, meltFee),
                              [g \in gammas |-> evs(g)])
\* A withdrawn coin pays at a merchant and is refreshed: every signature is found valid, the
\* amounts that are signed are those that are taken, and who has the old coin can have the
\* new ones from what was published ("link").
WithdrawalIsSigned(planchet, denom) ==
  EddsaVerify("RESERVE_WITHDRAW",
    <<planchet.reservePub, Add(denom.value, <<denom.feeWithdraw>>).amount, denom.feeWithdraw, planchet.denomPubHash,
      Hash(planchet.coinEv)>>, planchet.withdrawSig, planchet.reservePub)
DepositIsSigned(permission, coin, feeDeposit, contract) ==
  EddsaVerify("WALLET_COIN_DEPOSIT",
    <<contract.contractTermsHash, contract.wireInfoHash, 1000, (contract.refundDeadline \div 1000) * 1000,
      Parse(permission.contribution), feeDeposit, contract.merchantPub, permission.coin_pub>>,
    permission.coin_sig, coin.coinPub)
RecoupIsSigned(recoup, coin) ==
  /\ EddsaVerify("WALLET_COIN_RECOUP", <<recoup.coin_pub, recoup.denom_pub_hash, recoup.coin_blind_key_secret>>,
                 recoup.coin_sig, coin.coinPub)
  /\ recoup.denom_sig = coin.denomSig
TotalCost(denoms, fee) == FoldLeft(LAMBDA sum, d : sum + Units(d.value) + Units(d.feeWithdraw), Units(fee), denoms)
MeltIsSigned(request, session, coin, denoms, fee) ==
  /\ EddsaVerify("WALLET_COIN_MELT", <<request.rc, session.amountRefreshInput, fee, coin.coinPub>>,
                 session.confirmSig, coin.coinPub)
  /\ Units(session.amountRefreshInput) = TotalCost(denoms, fee)
NewCoinIsGood(new, linked, denomPub) ==
  /\ IsDenomSig(Hash(new.coinPub), new.denomSig, denomPub)
  /\ linked.coinPriv = new.coinPriv /\ linked.bks = new.blindingKey
NewCoinsAreGood(request, session, coin, denoms, noreveal) ==
  \A j \in DOMAIN denoms :
    /\ NewCoinIsGood(RefreshedCoin(session, noreveal, j, SignedBlindly(request.coin_evs[j], denoms[j].denomPub)),
                     SetupRefreshPlanchet(KeyExchangeEddsaEcdhe(coin.coinPriv, request.transfer_pub), j - 1),
                     denoms[j].denomPub)
    /\ EddsaVerify("WALLET_COIN_LINK",
         <<request.new_denoms_h[j], coin.coinPub, request.transfer_pub, Hash(request.coin_evs[j])>>,
         request.link_sigs[j], coin.coinPub)
RefreshIsGood(request, session, coin, denoms, fee, noreveal) ==
  /\ MeltIsSigned(request, session, coin, denoms, fee)
  /\ Reproduces(request, coin.coinPub, denoms, fee, noreveal)
  /\ NewCoinsAreGood(request, session, coin, denoms, noreveal)
MeltedIsGood(session, coin, denoms, fee, noreveal) ==
  RefreshIsGood(RevealRequest(session, coin, noreveal), session, coin, denoms, fee, noreveal)
Contract(refundDeadline) ==
  [contractTermsHash |-> Hash("contract"), wireInfoHash |-> Hash("wire"), merchantPub |-> Pub("merchant"),
   timestamp |-> 1500, refundDeadline |-> refundDeadline]
SpentIsGood(coin, denom, contract) ==
  /\ coin # Throws /\ IsDenomSig(Hash(coin.coinPub), coin.denomSig, coin.denomPub)
  /\ DepositIsSigned(SignDepositPermission(coin, denom.feeDeposit, contract, denom.value, 1000), coin, denom.feeDeposit, contract)
  /\ RecoupIsSigned(CreateRecoupRequest(coin, FALSE), coin)
  /\ MeltedIsGood(CreateRefreshSession(<<"t1", "t2", "t3">>, coin, q.denoms, q.meltFee), coin, q.denoms, q.meltFee, q.noreveal)
PlanchetIsGood(planchet, denom) ==
  /\ WithdrawalIsSigned(planchet, denom)
  /\ SpentIsGood(CoinOf(planchet, SignedBlindly(planchet.coinEv, denom.denomPub)), denom, Contract(q.refundDeadline))
CoinIsGood == PlanchetIsGood(CreatePlanchet("reserve", q.denoms[1], "coin", "blinding"), q.denoms[1])
\* The exchange's master key signs every figure of a denomination and of a wire fee, and the
\* merchant the contract: nothing of them can be changed afterwards.
Master == "master"
EverythingIsSigned ==
  LET denom == q.denoms[1]
      stamps == [i \in DOMAIN DenomStamps |-> (denom[DenomStamps[i]] \div 1000) * 1000]
      amounts == [i \in DOMAIN DenomAmounts |-> denom[DenomAmounts[i]]]
      sig == EddsaSign("MASTER_DENOMINATION_KEY_VALIDITY", <<Pub(Master), stamps, amounts, Hash(denom.denomPub)>>, Master)
      signed == [masterSig |-> sig] @@ denom
      fee == [startStamp |-> 0, endStamp |-> 3999, wireFee |-> Amount(0, 1), closingFee |-> q.meltFee]
      feeSig == EddsaSign("MASTER_WIRE_FEES", <<Hash("sepa"), 0, 3000, Amount(0, 1), q.meltFee>>, Master)
      signedFee == [sig |-> feeSig] @@ fee
  IN /\ IsValidDenom(signed, Pub(Master), 1000) /\ ~IsValidDenom(signed, Pub("merchant"), 1000)
     /\ \A n \in ToSet(DenomAmounts) : ~IsValidDenom([signed EXCEPT ![n] = Amount(3, 3)], Pub(Master), 1000)
     /\ \A n \in ToSet(DenomStamps) : ~IsValidDenom([signed EXCEPT ![n] = 9000], Pub(Master), 1000)
     /\ IsValidWireFee("sepa", signedFee, Pub(Master), 1000)
     /\ ~IsValidWireFee("iban", signedFee, Pub(Master), 1000)
     /\ \A n \in {"wireFee", "closingFee"} : ~IsValidWireFee("sepa", [signedFee EXCEPT ![n] = Amount(3, 3)], Pub(Master), 1000)
     /\ IsValidWireAccount("payto", EddsaSign("MASTER_WIRE_DETAILS", <<Kdf(2, "exchange-wire-signature", "payto", <<>>)>>, Master), Pub(Master))
     /\ IsValidPaymentSignature(EddsaSign("MERCHANT_PAYMENT_OK", <<"contract">>, "merchant"), "contract", Pub("merchant"))
     /\ LET tip == CreateTipPlanchet(denom, "coin", "blinding")
        IN CoinOf(tip, SignedBlindly(tip.coinEv, denom.denomPub)) # Throws
\* A denomination that never expires can be verified ("never" is a timestamp of the codecs,
\* time.ts).  Does not hold: timestampRoundedToBuffer makes a number of it, and throws.
NeverIsSigned == IsAbout("coin") =>
  IsValidDenom([stampExpireLegal |-> Forever, masterSig |-> EddsaSign("any", <<>>, Master)] @@ q.denoms[1], Pub(Master), 1000) # Throws
SignaturesHold == /\ IsAbout("rsa") => SignatureOfCoin
                  /\ IsAbout("kdf") => NumberFits
                  /\ IsAbout("coin") => CoinIsGood /\ EverythingIsSigned
=============================================================================
