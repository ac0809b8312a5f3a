------------------------------- MODULE Reserve -------------------------------
(***************************************************************************)
(* One reserve, from its creation to the coins in the wallet: operations/  *)
(* reserves.ts and the withdrawal groups of operations/withdraw.ts.        *)
(*                                                                         *)
(* processReserve is memoised, so the retry loop and the callers that      *)
(* start it in the background are one activity (Loop).  But                *)
(* createTalerWithdrawReserve calls processReserveBankStatus directly, and *)
(* that goes on to register, query and deplete the same reserve beside     *)
(* Loop.  The functions call each other after awaiting, so an activity has *)
(* a stack of the calls that are left to do when the present one returns.  *)
(* An exception unwinds it.                                                *)
(*                                                                         *)
(* The bank and the exchange are the environment.  Amounts are naturals;   *)
(* a denomination is known by its cost, value and withdrawal fee together. *)
(***************************************************************************)
EXTENDS ReserveHistory, FiniteSets

CONSTANTS
  Creators,       \* calls of createTalerWithdrawReserve for one bank URI, or
                  \* of createReserve for a transfer made by hand
  Loop,           \* the memoised processReserve
  Withdrawers,    \* activities in processPlanchet
  BankUrls,       \* whether createReserve is given a bankWithdrawStatusUrl
  BankMayRefuse,  \* whether the bank may answer a registration with an error
  Expected,       \* the amount the wallet expects
  Transfers,      \* the amounts that really arrive
  Costs,          \* what a coin of each denomination costs
  MaxForced,      \* bound on the user's calls of forceQueryReserve
  MaxCrashes      \* bound on the number of restarts

ASSUME ActorsAssumption == Loop \notin Creators
ASSUME BankAssumption == BankUrls \subseteq BOOLEAN /\ BankMayRefuse \in BOOLEAN
ASSUME AmountsAssumption ==
  /\ Expected \in Nat \ {0}
  /\ Transfers \in Seq(Nat \ {0})
  /\ IsFiniteSet(Costs) /\ Costs \subseteq Nat \ {0}
ASSUME BoundsAssumption == MaxForced \in Nat /\ MaxCrashes \in Nat

Actors == Creators \cup {Loop}

VARIABLES
  status,       \* Stores.reserves: reserveStatus
  bankUrl,      \* ... bankWithdrawStatusUrl is set
  posted,       \* ... timestampReserveInfoPosted is set
  confirmed,    \* ... timestampConfirmed is set
  history,      \* ... reserveTransactions
  groups,       \* Stores.withdrawalGroups: planchets and withdrawn flags
  coins,        \* Stores.coins: the planchets that became coins
  pc, stack,    \* where an activity is, and the calls left to do
  seen,         \* what it has read before it awaited something
  planchet,     \* the activities in processPlanchet
  selected,     \* the bank knows the reserve
  transferred,  \* the user confirmed the transfer at the bank
  ledger,       \* the exchange's transactions of the reserve
  forced, crashes

db == <<status, bankUrl, posted, confirmed, history, groups, coins>>
local == <<pc, stack, seen, planchet>>
outside == <<selected, transferred, ledger>>
vars == <<status, bankUrl, posted, confirmed, history, groups, coins, pc, stack,
          seen, planchet, selected, transferred, ledger, forced, crashes>>

BankStatus == {"REGISTERING_BANK", "WAIT_CONFIRM_BANK"}
QueryStatus == {"QUERYING_STATUS", "WITHDRAWING", "DORMANT"}
Statuses == {"absent", "UNCONFIRMED"} \cup BankStatus \cup QueryStatus
Pending == (BankStatus \cup QueryStatus) \ {"DORMANT"}

NothingSeen == [status |-> "absent", selected |-> FALSE, transferred |-> FALSE,
                answer |-> 0, plan |-> <<>>, group |-> 0]
NoPlanchet == [pc |-> "idle", group |-> 0, index |-> 0]

Init ==
  /\ status = "absent" /\ bankUrl = FALSE /\ posted = FALSE /\ confirmed = FALSE
  /\ history = <<>> /\ groups = <<>> /\ coins = {}
  /\ pc = [a \in Actors |-> "idle"]
  /\ stack = [a \in Actors |-> <<>>]
  /\ seen = [a \in Actors |-> NothingSeen]
  /\ planchet = [w \in Withdrawers |-> NoPlanchet]
  /\ selected = FALSE /\ transferred = FALSE /\ ledger = <<>>
  /\ forced = 0 /\ crashes = 0

-----------------------------------------------------------------------------
(* Calls and returns *)

End(a) == IF a = Loop THEN "idle" ELSE "done"
Forget(a) == seen' = [seen EXCEPT ![a] = NothingSeen]
Goto(a, f) == pc' = [pc EXCEPT ![a] = f] /\ UNCHANGED stack
Call(a, f, next) == /\ pc' = [pc EXCEPT ![a] = f]
                    /\ stack' = [stack EXCEPT ![a] = <<next>> \o @]
Return(a) == /\ pc' = [pc EXCEPT ![a] = IF stack[a] = <<>> THEN End(a)
                                        ELSE Head(stack[a])]
             /\ stack' = [stack EXCEPT ![a] = IF @ = <<>> THEN @ ELSE Tail(@)]
Throw(a) == /\ pc' = [pc EXCEPT ![a] = End(a)]
            /\ stack' = [stack EXCEPT ![a] = <<>>]

-----------------------------------------------------------------------------
(* createReserve and createTalerWithdrawReserve *)

\* The transaction makes the reserve, or finds the one that was made for the
\* same bank URI.  With a bank, the caller then waits for its registration.
\* Each transfer by hand would make another reserve, so it is the first call.
CreateReserve(c) ==
  /\ pc[c] = "idle"
  /\ \/ /\ status = "absent"
        /\ bankUrl' \in BankUrls
        /\ status' = IF bankUrl' THEN "REGISTERING_BANK" ELSE "UNCONFIRMED"
        /\ history' = <<Expect("credit", Expected)>>
     \/ /\ status # "absent" /\ bankUrl
        /\ UNCHANGED <<status, bankUrl, history>>
  /\ Goto(c, IF bankUrl' THEN "bank" ELSE "done")
  /\ UNCHANGED <<posted, confirmed, groups, coins, seen, planchet, outside,
                 forced, crashes>>

\* confirmReserve, for a transfer that was made by hand.
ConfirmReserve ==
  /\ status = "UNCONFIRMED"
  /\ status' = "QUERYING_STATUS" /\ confirmed' = TRUE
  /\ UNCHANGED <<bankUrl, posted, history, groups, coins, local, outside, forced,
                 crashes>>

ForceQueryReserve ==
  /\ forced < MaxForced
  /\ forced' = forced + 1
  /\ status \in QueryStatus
  /\ status' = "QUERYING_STATUS"
  /\ UNCHANGED <<bankUrl, posted, confirmed, history, groups, coins, local, outside,
                 crashes>>

-----------------------------------------------------------------------------
(* processReserve *)

ProcessReserve ==
  /\ pc[Loop] = "idle"
  /\ status \in Pending
  /\ Goto(Loop, "impl")
  /\ UNCHANGED <<db, seen, planchet, outside, forced, crashes>>

Impl(a) ==
  /\ pc[a] = "impl"
  /\ CASE status = "REGISTERING_BANK" -> Call(a, "bank", "impl")
       [] status = "WAIT_CONFIRM_BANK" -> Goto(a, "bank")
       [] status = "QUERYING_STATUS" -> Call(a, "update", "impl")
       [] status = "WITHDRAWING" -> Goto(a, "deplete")
       [] OTHER -> Return(a)
  /\ UNCHANGED <<db, seen, planchet, outside, forced, crashes>>

-----------------------------------------------------------------------------
(* processReserveBankStatus and registerReserveWithBank *)

AskBank(a) ==
  /\ pc[a] = "bank"
  /\ IF status \in BankStatus
     THEN Goto(a, "asking") /\ seen' = [seen EXCEPT ![a].status = status]
     ELSE Return(a) /\ UNCHANGED seen
  /\ UNCHANGED <<db, planchet, outside, forced, crashes>>

BankAnswers(a) ==
  /\ pc[a] = "asking"
  /\ Goto(a, "answered")
  /\ seen' = [seen EXCEPT ![a].selected = selected, ![a].transferred = transferred]
  /\ UNCHANGED <<db, planchet, outside, forced, crashes>>

\* What the answer calls for, judged by the status before the request.
ReadBankAnswer(a) ==
  /\ pc[a] = "answered"
  /\ Forget(a)
  /\ \/ /\ ~seen[a].selected \/ seen[a].status = "REGISTERING_BANK"
        /\ Call(a, "register", "bank")
        /\ UNCHANGED <<status, confirmed>>
     \/ /\ seen[a].selected /\ seen[a].status = "WAIT_CONFIRM_BANK"
        /\ IF seen[a].transferred
           THEN /\ IF status \in BankStatus
                   THEN status' = "QUERYING_STATUS" /\ confirmed' = TRUE
                   ELSE UNCHANGED <<status, confirmed>>
                /\ Goto(a, "impl")
           ELSE Return(a) /\ UNCHANGED <<status, confirmed>>
  /\ UNCHANGED <<bankUrl, posted, history, groups, coins, planchet, outside, forced,
                 crashes>>

\* Mutant: the registration is recorded before it is made.
RegisterMarkedFirst(a) ==
  /\ pc[a] = "register"
  /\ IF status \in BankStatus /\ ~posted
     THEN posted' = TRUE /\ status' = "WAIT_CONFIRM_BANK" /\ Goto(a, "posting")
     ELSE Return(a) /\ UNCHANGED <<posted, status>>
  /\ UNCHANGED <<bankUrl, confirmed, history, groups, coins, seen, planchet, outside,
                 forced, crashes>>
\* "bank claims that reserve info selection is not done" is an exception.
Register(a) ==
  /\ pc[a] = "register"
  /\ IF status \notin BankStatus THEN Return(a)
     ELSE IF posted THEN Throw(a) ELSE Goto(a, "posting")
  /\ UNCHANGED <<db, seen, planchet, outside, forced, crashes>>

BankSelects(a) ==
  /\ pc[a] = "posting"
  /\ selected' = TRUE
  /\ Goto(a, "registered")
  /\ UNCHANGED <<db, seen, planchet, transferred, ledger, forced, crashes>>

\* The bank selects the reserve, but its answer does not arrive.
AnswerIsLost(a) ==
  /\ pc[a] = "posting"
  /\ selected' = TRUE
  /\ Throw(a)
  /\ UNCHANGED <<db, seen, planchet, transferred, ledger, forced, crashes>>

\* The bank answers with an error, and nobody looks at it.
BankRefuses(a) ==
  /\ BankMayRefuse
  /\ pc[a] = "posting"
  /\ Goto(a, "registered")
  /\ UNCHANGED <<db, seen, planchet, outside, forced, crashes>>

RecordRegistered(a) ==
  /\ pc[a] = "registered"
  /\ IF status \in BankStatus
     THEN posted' = TRUE /\ status' = "WAIT_CONFIRM_BANK"
     ELSE UNCHANGED <<posted, status>>
  /\ Goto(a, "bank")
  /\ UNCHANGED <<bankUrl, confirmed, history, groups, coins, seen, planchet, outside,
                 forced, crashes>>

-----------------------------------------------------------------------------
(* updateReserve *)

AskExchange(a) ==
  /\ pc[a] = "update"
  /\ IF ~confirmed THEN Throw(a)
     ELSE IF status = "QUERYING_STATUS" THEN Goto(a, "querying") ELSE Return(a)
  /\ UNCHANGED <<db, seen, planchet, outside, forced, crashes>>

ExchangeAnswers(a) ==
  /\ pc[a] = "querying"
  /\ ledger # <<>>
  /\ Goto(a, "queried")
  /\ seen' = [seen EXCEPT ![a].answer = Len(ledger)]
  /\ UNCHANGED <<db, planchet, outside, forced, crashes>>

\* What the exchange reported when it had n transactions.
Reported(n) == [j \in 1..n |-> [id |-> ledger[j].id, type |-> ledger[j].type,
                                amount |-> ledger[j].amount]]

\* The transaction.  Without news the reserve is dormant.
UpdateReserve(a) ==
  LET answer == Reported(seen[a].answer) IN
  /\ pc[a] = "queried"
  /\ Forget(a)
  /\ \/ /\ status # "QUERYING_STATUS"
        /\ Return(a)
        /\ UNCHANGED <<status, history>>
     \/ /\ status = "QUERYING_STATUS"
        /\ ~StillMatched(history, answer)
        /\ Throw(a)
        /\ UNCHANGED <<status, history>>
     \/ /\ status = "QUERYING_STATUS"
        /\ StillMatched(history, answer)
        /\ history' = Reconcile(history, answer)
        /\ status' = IF HasNews(history, answer) THEN "WITHDRAWING" ELSE "DORMANT"
        /\ Return(a)
  /\ UNCHANGED <<bankUrl, posted, confirmed, groups, coins, planchet, outside, forced,
                 crashes>>

\* The bank or the exchange cannot be reached, or does not know the reserve.
RequestFails(a) ==
  /\ pc[a] \in {"asking", "posting", "querying"}
  /\ Throw(a) /\ Forget(a)
  /\ UNCHANGED <<db, planchet, outside, forced, crashes>>

-----------------------------------------------------------------------------
(* depleteReserve *)

\* getWithdrawDenomList: the largest denomination that fits, again and again,
\* so the smallest comes after all others.
DenomList(amount) ==
  LET more(cost, list) ==
        list \o [i \in 1..((amount - Total(list)) \div cost) |-> cost]
  IN MapThenFoldSet(more, <<>>, LAMBDA cost : cost, LAMBDA S : Min(S), Costs)

\* Choosing the denominations and making the planchets takes a while.
DepleteReserve(a) ==
  LET plan == DenomList(Unclaimed(history)) IN
  /\ pc[a] = "deplete"
  /\ IF status # "WITHDRAWING" THEN Return(a) /\ UNCHANGED seen
     ELSE IF plan # <<>>
     THEN Goto(a, "planned") /\ seen' = [seen EXCEPT ![a].plan = plan]
     ELSE /\ IF WithdrawnAmount(history) = 0 THEN Throw(a) ELSE Return(a)
          /\ UNCHANGED seen
  /\ UNCHANGED <<db, planchet, outside, forced, crashes>>

\* Mutant: the transaction does not look at the amount again.
StillWithdrawing(a) == status = "WITHDRAWING"
MayCreateGroup(a) == /\ status = "WITHDRAWING"
                     /\ Unclaimed(history) >= Total(seen[a].plan)

\* The transaction that claims the amounts and stores the planchets.
CreateGroup(a) ==
  LET plan == seen[a].plan IN
  /\ pc[a] = "planned"
  /\ IF MayCreateGroup(a)
     THEN /\ history' = history \o [i \in DOMAIN plan |-> Expect("withdraw", plan[i])]
          /\ groups' = Append(groups, [costs |-> plan, withdrawn |-> {}])
          /\ status' = "DORMANT"
          /\ seen' = [seen EXCEPT ![a] = [NothingSeen EXCEPT !.group = Len(groups')]]
          /\ Goto(a, "withdraw")
     ELSE /\ UNCHANGED <<status, history, groups>>
          /\ Forget(a)
          /\ Return(a)
  /\ UNCHANGED <<bankUrl, posted, confirmed, coins, planchet, outside, forced, crashes>>

Finished(g) == groups[g].withdrawn = DOMAIN groups[g].costs

\* processWithdrawGroup settles when all planchets are coins or one has failed.
AwaitGroup(a) ==
  /\ pc[a] = "withdraw"
  /\ Forget(a)
  /\ IF Finished(seen[a].group) THEN Return(a) ELSE Throw(a)
  /\ UNCHANGED <<db, planchet, outside, forced, crashes>>

-----------------------------------------------------------------------------
(* processPlanchet.  Neither the group nor a planchet is memoised: several *)
(* activities may ask for the same coin.                                   *)

StartPlanchet(w) ==
  /\ planchet[w].pc = "idle"
  /\ \E g \in DOMAIN groups : \E i \in DOMAIN groups[g].costs \ groups[g].withdrawn :
       planchet' = [planchet EXCEPT ![w] = [pc |-> "asking", group |-> g, index |-> i]]
  /\ UNCHANGED <<db, pc, stack, seen, outside, forced, crashes>>

Credits(s) == Total([i \in DOMAIN s |-> IF s[i].type = "credit" THEN s[i].amount ELSE 0])
Debits(s) == Total([i \in DOMAIN s |-> IF s[i].type = "withdraw" THEN s[i].amount ELSE 0])
Balance(s) == Credits(s) - Debits(s)

\* The exchange signs a planchet again if it has signed it before, and takes
\* the money once.  Its answer may get lost.
ExchangeSigns(w) ==
  LET coin == <<planchet[w].group, planchet[w].index>>
      cost == groups[coin[1]].costs[coin[2]]
      known == \E i \in DOMAIN ledger : ledger[i].coin = coin
  IN /\ planchet[w].pc = "asking"
     /\ known \/ Balance(ledger) >= cost
     /\ ledger' = IF known THEN ledger
                  ELSE Append(ledger, [id |-> Len(ledger) + 1, type |-> "withdraw",
                                       amount |-> cost, coin |-> coin])
     /\ planchet' = [planchet EXCEPT ![w] = [@ EXCEPT !.pc = "signed"]]
     /\ UNCHANGED <<db, pc, stack, seen, selected, transferred, forced, crashes>>

\* Mutant: a planchet that failed is ticked off all the same.
PlanchetGivesUp(w) ==
  /\ planchet[w].pc \in {"asking", "signed"}
  /\ planchet' = [planchet EXCEPT ![w] = NoPlanchet]
  /\ groups' = [groups EXCEPT ![planchet[w].group].withdrawn = @ \cup {planchet[w].index}]
  /\ UNCHANGED <<bankUrl, status, posted, confirmed, history, coins, pc, stack, seen,
                 outside, forced, crashes>>
PlanchetFails(w) ==
  /\ planchet[w].pc \in {"asking", "signed"}
  /\ planchet' = [planchet EXCEPT ![w] = NoPlanchet]
  /\ UNCHANGED <<db, pc, stack, seen, outside, forced, crashes>>

\* The transaction looks at the flag again.
RecordCoin(w) ==
  LET g == planchet[w].group
      i == planchet[w].index
  IN /\ planchet[w].pc = "signed"
     /\ IF i \in groups[g].withdrawn THEN UNCHANGED <<groups, coins>>
        ELSE /\ groups' = [groups EXCEPT ![g].withdrawn = @ \cup {i}]
             /\ coins' = coins \cup {<<g, i>>}
     /\ planchet' = [planchet EXCEPT ![w] = NoPlanchet]
     /\ UNCHANGED <<bankUrl, status, posted, confirmed, history, pc, stack, seen, outside,
                    forced, crashes>>

-----------------------------------------------------------------------------
(* The environment *)

\* The user confirms at the bank, once the bank knows the reserve.
UserConfirmsAtBank ==
  /\ selected /\ ~transferred
  /\ transferred' = TRUE
  /\ UNCHANGED <<db, local, selected, ledger, forced, crashes>>

Arrived == Cardinality({i \in DOMAIN ledger : ledger[i].type = "credit"})

TransferArrives ==
  /\ status # "absent"
  /\ bankUrl => transferred
  /\ Arrived < Len(Transfers)
  /\ ledger' = Append(ledger, [id |-> Len(ledger) + 1, type |-> "credit",
                               amount |-> Transfers[Arrived + 1], coin |-> <<>>])
  /\ UNCHANGED <<db, local, selected, transferred, forced, crashes>>

Crash ==
  /\ crashes < MaxCrashes
  /\ crashes' = crashes + 1
  /\ pc' = [a \in Actors |-> IF pc[a] = "idle" THEN "idle" ELSE End(a)]
  /\ stack' = [a \in Actors |-> <<>>]
  /\ seen' = [a \in Actors |-> NothingSeen]
  /\ planchet' = [w \in Withdrawers |-> NoPlanchet]
  /\ UNCHANGED <<db, outside, forced>>

Step(a) ==
  \/ Impl(a) \/ AskBank(a) \/ BankAnswers(a) \/ ReadBankAnswer(a)
  \/ Register(a) \/ BankSelects(a) \/ AnswerIsLost(a) \/ BankRefuses(a)
  \/ RecordRegistered(a)
  \/ AskExchange(a) \/ ExchangeAnswers(a) \/ UpdateReserve(a)
  \/ RequestFails(a) \/ DepleteReserve(a) \/ CreateGroup(a) \/ AwaitGroup(a)
ProcessPlanchet(w) ==
  StartPlanchet(w) \/ ExchangeSigns(w) \/ PlanchetFails(w) \/ RecordCoin(w)

Next ==
  \/ \E c \in Creators : CreateReserve(c)
  \/ ConfirmReserve \/ ForceQueryReserve \/ ProcessReserve
  \/ \E a \in Actors : Step(a)
  \/ \E w \in Withdrawers : ProcessPlanchet(w)
  \/ UserConfirmsAtBank \/ TransferArrives \/ Crash

Spec == Init /\ [][Next]_vars

\* The wallet keeps stepping its activities and retries what is pending; a
\* request that is made again and again is answered at last.
Fairness ==
  /\ WF_vars(ProcessReserve) /\ WF_vars(Step(Loop))
  /\ SF_vars(BankAnswers(Loop)) /\ SF_vars(BankSelects(Loop))
  /\ SF_vars(ExchangeAnswers(Loop))
  /\ \A w \in Withdrawers : /\ WF_vars(StartPlanchet(w))
                            /\ SF_vars(ExchangeSigns(w))
                            /\ SF_vars(RecordCoin(w))
FairSpec == Spec /\ Fairness

-----------------------------------------------------------------------------
(* Properties *)

Pcs == {"idle", "impl", "bank", "asking", "answered", "register", "posting",
        "registered", "update", "querying", "queried", "deplete", "planned",
        "withdraw", "done"}
ControlOK ==
  /\ status \in Statuses
  /\ posted \in BOOLEAN /\ confirmed \in BOOLEAN
  /\ selected \in BOOLEAN /\ transferred \in BOOLEAN
  /\ pc \in [Actors -> Pcs]
  /\ stack \in [Actors -> Seq({"impl", "bank"})]
Planchets(g) == {g} \X DOMAIN groups[g].costs
\* The reserve, its history and groups and the activities on them keep their
\* shape: no call is stacked that has no place there, and every coin in the
\* wallet is a planchet of a group that depleteReserve has stored.
TypeOK ==
  /\ ControlOK
  /\ bankUrl \in BOOLEAN
  /\ history \in Seq(Items)
  /\ \A g \in DOMAIN groups : /\ groups[g].costs \in Seq(Costs)
                             /\ groups[g].withdrawn \subseteq DOMAIN groups[g].costs
  /\ \A w \in Withdrawers : planchet[w].pc \in {"idle", "asking", "signed"}
  /\ coins \subseteq UNION {Planchets(g) : g \in DOMAIN groups}
  /\ forced \in 0..MaxForced /\ crashes \in 0..MaxCrashes

\* The transfer is confirmed exactly when the reserve is past the bank
\* ("Time when the reserve was confirmed, either manually by the user or by
\* the bank"): no late registration takes a confirmed reserve back to the bank.
ConfirmedIsPastBank == confirmed <=> status \in QueryStatus

\* "We've registered reserve's information with the bank and are now waiting
\* for the user to confirm" (WAIT_CONFIRM_BANK).
WaitMeansRegistered == status = "WAIT_CONFIRM_BANK" => selected

\* What the planchets that the exchange has not signed will cost.
Open ==
  LET paid == {ledger[j].coin : j \in DOMAIN ledger}
      open(g) == [i \in DOMAIN groups[g].costs |->
                    IF <<g, i>> \in paid THEN 0 ELSE groups[g].costs[i]]
  IN Total([g \in DOMAIN groups |-> Total(open(g))])
\* What two runs of depleteReserve claim together is there: the exchange can
\* pay for every planchet the wallet has stored and not yet withdrawn.
OpenPlanchetsFunded == Balance(ledger) >= Open

\* A coin in the wallet is one the group of its planchet has ticked off, and
\* the exchange took its cost once, however often it was asked for it.
CoinsAreWithdrawn ==
  /\ coins = UNION {{<<g, i>> : i \in groups[g].withdrawn} : g \in DOMAIN groups}
  /\ \A coin \in coins :
       Cardinality({j \in DOMAIN ledger : ledger[j].coin = coin}) = 1

\* DORMANT: "The corresponding withdraw record has been created."
DormantIsDepleted ==
  status = "DORMANT" => DenomList(Unclaimed(history)) = <<>>

\* "bank claims that reserve info selection is not done": where this exception
\* is thrown, the bank does not have the selection.
SelectionErrorIsTrue ==
  \A a \in Actors : pc[a] = "register" /\ status \in BankStatus /\ posted =>
    ~selected

\* The money that arrived becomes coins, through failures and restarts.
CreditsBecomeCoins ==
  ledger # <<>> ~> /\ groups # <<>> /\ status = "DORMANT"
                   /\ \A g \in DOMAIN groups : Planchets(g) \subseteq coins

\* "Withdraw coins from a reserve until it is empty. When finished, marks the
\* reserve as depleted" (depleteReserve): a reserve does not stay WITHDRAWING.
WithdrawingEnds == status = "WITHDRAWING" ~> status # "WITHDRAWING"

-----------------------------------------------------------------------------
(* Why a confirmed reserve stays past the bank: an inductive invariant      *)

BankSide == ControlOK /\ ConfirmedIsPastBank

\* Whoever is about to record a registration has made it.
RegisteredIsSelected == \A a \in Actors : pc[a] = "registered" => selected
Registered == WaitMeansRegistered /\ RegisteredIsSelected
\* The bank answers the registration of a reserve it does not know with an
\* error, which registerReserveWithBank takes for a registration.
RegistrationRefused == \E a \in Actors : BankRefuses(a) /\ ~selected

\* A reserve with a bank counts as confirmed only when the bank knows it and the
\* user has confirmed the transfer there.
ConfirmedAtBank == confirmed /\ bankUrl => selected /\ transferred
\* ... for what an activity has heard of the bank is so.
BankHeard ==
  /\ ConfirmedAtBank
  /\ transferred => selected
  /\ status = "UNCONFIRMED" => ~bankUrl
  /\ \A a \in Actors : /\ seen[a].selected => selected
                       /\ seen[a].transferred => transferred

-----------------------------------------------------------------------------
(* Why what planchets claim is there: an inductive invariant               *)

\* The transactions are numbered; a withdrawal is of a planchet that is stored.
Entries == [id: Nat \ {0}, type: {"credit", "withdraw"}, amount: Nat,
            coin: (Nat \X Nat) \cup {<<>>}]
IsPlanchet(coin) ==
  \E g \in DOMAIN groups : \E i \in DOMAIN groups[g].costs : coin = <<g, i>>
LedgerOK ==
  /\ ledger \in Seq(Entries)
  /\ \A j \in DOMAIN ledger :
       /\ ledger[j].id = j
       /\ ledger[j].type = "credit" => ledger[j].coin = <<>>
       /\ ledger[j].type = "withdraw" => IsPlanchet(ledger[j].coin)

\* What is matched in a history was reported, once, and is of the same type.
Told(item) == \E j \in DOMAIN ledger : /\ item.matched = Reported(Len(ledger))[j]
                                       /\ item.type = ledger[j].type
HistoryOK(s) ==
  /\ s \in Seq(Items)
  /\ \A i \in DOMAIN s : /\ s[i].type \in {"credit", "withdraw"}
                         /\ s[i].matched = Unmatched \/ Told(s[i])
  /\ \A i, k \in DOMAIN s :
       s[i].matched.id = s[k].matched.id /\ s[i].matched # Unmatched => i = k

\* What an activity has read is in the ledger; what it plans can be paid for.
SeenThings == [status: Statuses, selected: BOOLEAN, transferred: BOOLEAN, answer: Nat,
               plan: Seq(Costs), group: Nat]
SeenOK == /\ seen \in [Actors -> SeenThings]
          /\ \A a \in Actors : seen[a].answer <= Len(ledger)
PlanchetOK(p) == p.pc = "idle" \/ IsPlanchet(<<p.group, p.index>>)
PlanchetsOK ==
  /\ planchet \in [Withdrawers ->
                     [pc: {"idle", "asking", "signed"}, group: Nat, index: Nat]]
  /\ \A w \in Withdrawers : PlanchetOK(planchet[w])

\* What the wallet knows to be withdrawn or has set aside for it.
Claim(item) == IF item.type # "withdraw" THEN 0
               ELSE IF item.matched = Unmatched THEN item.expected
               ELSE item.matched.amount
Taken(s) == Total([i \in DOMAIN s |-> Claim(s[i])])

GroupsOK == groups \in Seq([costs: Seq(Costs), withdrawn: SUBSET Nat])
ClaimsOK ==
  /\ GroupsOK /\ LedgerOK /\ HistoryOK(history) /\ SeenOK /\ PlanchetsOK
  /\ status = "absent" => history = <<>>
  /\ Debits(ledger) + Open <= Credits(ledger)
  /\ Debits(ledger) + Open <= Taken(history)

\* A coin is ticked off after the exchange has signed it, which it books once.
Signed(coin) == \E j \in DOMAIN ledger : ledger[j].coin = coin
CoinsOK ==
  /\ bankUrl \in BOOLEAN /\ forced \in 0..MaxForced /\ crashes \in 0..MaxCrashes
  /\ \A g \in DOMAIN groups : groups[g].withdrawn \subseteq DOMAIN groups[g].costs
  /\ coins = UNION {{<<g, i>> : i \in groups[g].withdrawn} : g \in DOMAIN groups}
  /\ \A coin \in coins : Signed(coin)
  /\ \A w \in Withdrawers :
       planchet[w].pc = "signed" => Signed(<<planchet[w].group, planchet[w].index>>)
  /\ \A j, k \in DOMAIN ledger :
       ledger[j].type = "withdraw" /\ ledger[k].coin = ledger[j].coin => j = k

\* What the wallet has not claimed yet is in the reserve beside what its open
\* planchets cost, wherever it sleeps.
UnclaimedIsCovered == Unclaimed(history) + Open <= Balance(ledger)

\* The user forces a query while money is being withdrawn: the status that
\* depleteReserve is to find, or the plan it has made, is overtaken.
InterruptsWithdrawal ==
  /\ ForceQueryReserve
  /\ status = "WITHDRAWING" \/ \E a \in Actors : pc[a] = "planned"
\* Until then only a reserve that is being withdrawn from has something to
\* claim, and what is planned is all that can be claimed, until it is claimed.
DepletionOK ==
  /\ status # "WITHDRAWING" => DenomList(Unclaimed(history)) = <<>>
  /\ \A a \in Actors : pc[a] = "planned" =>
       /\ status \in {"WITHDRAWING", "DORMANT"}
       /\ status = "WITHDRAWING" => seen[a].plan = DenomList(Unclaimed(history))
=============================================================================
