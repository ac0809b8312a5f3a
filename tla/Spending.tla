------------------------------ MODULE Spending ------------------------------
(***************************************************************************)
(* How the wallet spends coins: confirmPay and submitPay (operations/      *)
(* pay.ts), the refresh groups that turn what is left of a spent coin      *)
(* into new coins (operations/refresh.ts), and the retry loop that drives  *)
(* both again after a failure or a restart.                                *)
(*                                                                         *)
(* Every IndexedDB transaction is one step; everything the code awaits     *)
(* between two transactions (the network, the crypto workers) lets other   *)
(* activities run, so what an activity read before is a local copy.  A     *)
(* crash forgets every activity and keeps the database.  The merchant and  *)
(* the exchange are the environment: a request that was sent may be        *)
(* handled late, more than once as far as they can tell, or never.         *)
(*                                                                         *)
(* There is one exchange and one currency; amounts are naturals.  The      *)
(* merchant pays the deposit fees.                                         *)
(***************************************************************************)
EXTENDS Sums, Functions

CONSTANTS
  Coins,         \* every coin that can come into being
  Withdrawn,     \* the coins that are in the wallet at the start
  Value,         \* the denomination value of each coin
  Proposals,     \* downloaded proposals, ready to be confirmed
  Price,         \* the amount of each proposal's contract
  Calls,         \* the calls of confirmPay that the user makes
  Refreshes,     \* the calls of Wallet.refresh that the user makes
  Loopers,       \* activities that retry purchases (the loop, runPending)
  Runs,          \* activities that work on one coin of a refresh group
  FeeRefresh,    \* the fee for melting a coin
  FeeWithdraw,   \* the fee for each new coin
  MaxCrashes,    \* bound on the number of restarts
  None           \* "no purchase", "no proposal", ...

ASSUME CoinsAssumption ==
  /\ IsFiniteSet(Coins) /\ Withdrawn \subseteq Coins
  /\ Value \in [Coins -> Nat \ {0}]
  /\ Price \in [Proposals -> Nat \ {0}]
ASSUME FeesAssumption == FeeRefresh \in Nat /\ FeeWithdraw \in Nat
ASSUME CrashAssumption == MaxCrashes \in Nat
ASSUME NamesAssumption ==
  /\ Calls \cap Refreshes = {}
  /\ Calls \cap Loopers = {}
  /\ Calls \cap ((Calls \cup Refreshes) \X Coins) = {}
  /\ None \notin Calls \cup Proposals
  /\ IsFiniteSet(Calls) /\ IsFiniteSet(Refreshes)

\* A payment makes a refresh group of its own; so does Wallet.refresh.
Groups == Calls \cup Refreshes
Payers == Calls \cup Loopers

\* The slot of a refresh group for one old coin before a session exists, and
\* the run of refresh.ts that is not there.
NoSession == [new |-> {}, input |-> 0, melted |-> FALSE, revealed |-> FALSE]
NoPurchase == [req |-> None, pending |-> FALSE]
NoRun == [pc |-> "idle", group |-> None, old |-> None, new |-> {},
          input |-> 0, memo |-> FALSE]

VARIABLES
  coin,      \* Stores.coins: status and currentAmount
  purchase,  \* Stores.purchases: whose payReq it holds, paymentSubmitPending
  olds,      \* Stores.refreshGroups: oldCoinPubs
  session,   \* ... refreshSessionPerCoin
  finished,  \* ... finishedPerCoin, the coins whose flag is set
  payer,     \* the activities in confirmPay and submitPay, with their locals
  chosen,    \* the coin contributions a call of confirmPay selected
  run,       \* the activities in processRefreshSession, with their locals
  sent,      \* the requests that have left the wallet
  accepted,  \* the requests the exchange (behind the merchant) has accepted
  crashes    \* how often the wallet was restarted

db == <<coin, purchase, olds, session, finished>>
vars == <<coin, purchase, olds, session, finished, payer, chosen, run, sent,
          accepted, crashes>>

Sessions == [new: SUBSET Coins, input: Nat, melted: BOOLEAN, revealed: BOOLEAN]

\* A request by which a coin is shown to someone and value leaves it: the
\* payReq of a call of confirmPay, or the melt of a session.
Requests == [by: Calls \cup (Groups \X Coins), new: SUBSET Coins,
             spend: [Coins -> Nat]]
PayReq(k) == [by |-> k, new |-> {}, spend |-> chosen[k]]
MeltReq(g, c, new, input) ==
  [by |-> <<g, c>>, new |-> new,
   spend |-> [x \in Coins |-> IF x = c THEN input ELSE 0]]

InWallet == {c \in Coins : coin[c].status # "absent"}
Fresh == {c \in Coins : coin[c].status = "Fresh"}
Recorded(k) == olds[k] # {}
Denominations == {Value[c] : c \in Coins}

Init ==
  /\ coin = [c \in Coins |->
       IF c \in Withdrawn THEN [status |-> "Fresh", amount |-> Value[c]]
                          ELSE [status |-> "absent", amount |-> 0]]
  /\ purchase = [p \in Proposals |-> NoPurchase]
  /\ olds = [g \in Groups |-> {}]
  /\ session = [g \in Groups |-> [c \in Coins |-> NoSession]]
  /\ finished = [g \in Groups |-> {}]
  /\ payer = [x \in Payers |-> [pc |-> "idle", proposal |-> None, req |-> None]]
  /\ chosen = [k \in Calls |-> [c \in Coins |-> 0]]
  /\ run = [r \in Runs |-> NoRun]
  /\ sent = {} /\ accepted = {} /\ crashes = 0

-----------------------------------------------------------------------------
(* Taking an amount off a coin: Amounts.sub, and what both transactions do *)
(* with its result.                                                        *)

Saturated(c, n) == n > coin[c].amount

\* Mutant: the amount is taken off the denomination's value.
TakenFromValue(c, n) == [status |-> "Dormant", amount |-> Value[c] - n]
Taken(c, n) == [status |-> "Dormant", amount |-> coin[c].amount - n]

-----------------------------------------------------------------------------
(* confirmPay and recordConfirmPay *)

\* What selectPayCoins returns when the merchant pays the deposit fees: coins
\* in the order of their amounts, all but the last one spent entirely.
IsSelection(f, price) ==
  /\ Sum(f, DOMAIN f) = price
  /\ \A c, d \in DOMAIN f : f[d] > 0 /\ c # d =>
       /\ coin[c].amount > coin[d].amount => f[c] = coin[c].amount
       /\ f[c] > 0 => f[c] = coin[c].amount \/ f[d] = coin[d].amount
  /\ \A c \in DOMAIN f : f[c] <= coin[c].amount

\* Mutant: the payment is sent as soon as it is signed.
SelectAndSend(k) ==
  /\ payer[k].pc = "idle"
  /\ \E p \in Proposals :
       \E f \in [Fresh -> 0..Price[p]] :
         /\ IsSelection(f, Price[p])
         /\ payer' = [payer EXCEPT ![k] = [@ EXCEPT !.pc = "sign", !.proposal = p]]
         /\ chosen' = [chosen EXCEPT ![k] =
              [c \in Coins |-> IF c \in Fresh THEN f[c] ELSE 0]]
         /\ sent' = sent \cup {PayReq(k)'}
  /\ UNCHANGED <<db, run, accepted, crashes>>
\* confirmPay up to the selection.  It looks for an existing purchase under
\* the contract's hash, but purchases are stored under their proposalId: the
\* lookup finds nothing, and every call goes on to select fresh coins.
SelectCoins(k) ==
  /\ payer[k].pc = "idle"
  /\ \E p \in Proposals :
       \E f \in [Fresh -> 0..Price[p]] :
         /\ IsSelection(f, Price[p])
         /\ payer' = [payer EXCEPT ![k] = [@ EXCEPT !.pc = "sign", !.proposal = p]]
         /\ chosen' = [chosen EXCEPT ![k] =
              [c \in Coins |-> IF c \in Fresh THEN f[c] ELSE 0]]
  /\ UNCHANGED <<db, run, sent, accepted, crashes>>

InsufficientBalance(k) ==
  /\ payer[k].pc = "idle"
  /\ \E p \in Proposals : Sum([c \in Coins |-> coin[c].amount], Fresh) < Price[p]
  /\ payer' = [payer EXCEPT ![k].pc = "done"]
  /\ UNCHANGED <<db, chosen, run, sent, accepted, crashes>>

\* The transaction of recordConfirmPay: it replaces whatever purchase the
\* proposal had, takes the contributions and opens the refresh group.
RecordConfirmPay(k) ==
  LET used == {c \in Coins : chosen[k][c] > 0}
      p == payer[k].proposal
  IN /\ payer[k].pc = "sign"
     /\ \A c \in used : ~Saturated(c, chosen[k][c])
     /\ purchase' = [purchase EXCEPT ![p] = [req |-> k, pending |-> TRUE]]
     /\ coin' = [c \in Coins |->
          IF c \in used THEN Taken(c, chosen[k][c]) ELSE coin[c]]
     /\ olds' = [olds EXCEPT ![k] = used]
     /\ payer' = [payer EXCEPT ![k].pc = "recorded"]
     /\ UNCHANGED <<session, finished, chosen, run, sent, accepted, crashes>>

\* "not enough remaining balance on coin for payment": the transaction aborts.
RecordAborts(k) ==
  /\ payer[k].pc = "sign"
  /\ \E c \in Coins : chosen[k][c] > 0 /\ Saturated(c, chosen[k][c])
  /\ payer' = [payer EXCEPT ![k].pc = "done"]
  /\ UNCHANGED <<db, chosen, run, sent, accepted, crashes>>

-----------------------------------------------------------------------------
(* submitPay, called by confirmPay and by processPurchasePay *)

\* It reads the purchase and posts its payReq.
SubmitPay(x, p) ==
  /\ \/ x \in Calls /\ payer[x].pc = "recorded" /\ p = payer[x].proposal
     \/ x \in Loopers /\ payer[x].pc = "idle" /\ purchase[p].pending
  /\ payer' = [payer EXCEPT ![x] =
       [pc |-> "paying", proposal |-> p, req |-> purchase[p].req]]
  /\ sent' = sent \cup {PayReq(purchase[p].req)}
  /\ UNCHANGED <<db, chosen, run, accepted, crashes>>

AfterPay(x) == IF x \in Calls THEN "done" ELSE "idle"

\* The merchant confirmed: the record read before the request is written back.
PaySucceeds(x) ==
  /\ payer[x].pc = "paying"
  /\ PayReq(payer[x].req) \in accepted
  /\ purchase' = [purchase EXCEPT ![payer[x].proposal] =
       [req |-> payer[x].req, pending |-> FALSE]]
  /\ payer' = [payer EXCEPT ![x].pc = AfterPay(x)]
  /\ UNCHANGED <<coin, olds, session, finished, chosen, run, sent, accepted,
                 crashes>>

\* Mutant: a failed payment is no longer pending.
PayGivesUp(x) ==
  /\ payer[x].pc = "paying"
  /\ purchase' = [purchase EXCEPT ![payer[x].proposal].pending = FALSE]
  /\ payer' = [payer EXCEPT ![x].pc = AfterPay(x)]
  /\ UNCHANGED <<coin, olds, session, finished, chosen, run, sent, accepted,
                 crashes>>

\* The request fails, or its answer is lost or not understood.
PayFails(x) ==
  /\ payer[x].pc = "paying"
  /\ payer' = [payer EXCEPT ![x].pc = AfterPay(x)]
  /\ UNCHANGED <<db, chosen, run, sent, accepted, crashes>>

-----------------------------------------------------------------------------
(* processRefreshGroup and processRefreshSession *)

\* Wallet.refresh makes a group for one coin, whatever its status.
RefreshByUser(m) ==
  /\ olds[m] = {}
  /\ \E c \in InWallet : olds' = [olds EXCEPT ![m] = {c}]
  /\ UNCHANGED <<coin, purchase, session, finished, payer, chosen, run, sent,
                 accepted, crashes>>

InFlight(g) == \E r \in Runs : run[r].memo /\ run[r].group = g

\* processRefreshGroup: memoProcessRefresh admits one promise per group, but
\* the promise settles when the first of its coins fails.  The runs of the
\* other coins go on, and may meet the runs of the next attempt.
ProcessRefreshGroup(g) ==
  LET todo == olds[g] \ finished[g] IN
  /\ todo # {}
  /\ ~InFlight(g)
  /\ \E f \in Injection(todo, {r \in Runs : run[r].pc = "idle"}) :
       run' = [r \in Runs |->
         IF \E c \in todo : f[c] = r
         THEN LET c == CHOOSE c \in todo : f[c] = r
              IN [pc |-> IF session[g][c] = NoSession THEN "create" ELSE "melt",
                  group |-> g, old |-> c, new |-> {}, input |-> 0, memo |-> TRUE]
         ELSE run[r]]
  /\ UNCHANGED <<db, payer, chosen, sent, accepted, crashes>>

Goto(r, pc) == run' = [run EXCEPT ![r].pc = pc]
Return(r) == run' = [run EXCEPT ![r] = NoRun]
\* Mutant: the memo of a rejected promise is not cleaned up.
ThrowKeepsMemo(r) ==
  run' = [run EXCEPT ![r] = [NoRun EXCEPT !.group = run[r].group, !.memo = TRUE]]
\* An exception rejects the group's promise: its other runs are on their own.
Throw(r) ==
  run' = [q \in Runs |->
    IF q = r THEN NoRun
    ELSE IF run[r].memo /\ run[q].group = run[r].group
         THEN [run[q] EXCEPT !.memo = FALSE]
         ELSE run[q]]

\* The planchets of a session are new key pairs: coins nobody has seen.
Unseen == {c \in Coins \ InWallet :
  /\ \A g \in Groups, d \in Coins : c \notin session[g][d].new
  /\ \A r \in Runs : c \notin run[r].new}

Cost(S) == Sum(Value, S) + FeeWithdraw * Cardinality(S)

\* getWithdrawDenomList: as many coins as fit of the largest denomination,
\* then of the next one, ...
IsDenomList(S, available) ==
  \A d \in Denominations :
    Cardinality({c \in S : Value[c] = d}) =
      (available - Cost({c \in S : Value[c] > d})) \div (d + FeeWithdraw)

\* Saturating, as Amounts.sub.
Refreshable(amount) == IF amount >= FeeRefresh THEN amount - FeeRefresh ELSE 0
TooSmall(amount) ==
  \A d \in Denominations : Refreshable(amount) < d + FeeWithdraw

\* refreshCreateSession reads the coin after the group, picks denominations
\* and has the planchets and the melt signature made.
ReadCoinToRefresh(r) ==
  /\ run[r].pc = "create"
  /\ LET amount == coin[run[r].old].amount IN
     \/ TooSmall(amount) /\ Goto(r, "small")
     \/ /\ ~TooSmall(amount)
        /\ \E new \in SUBSET Unseen, input \in 0..amount :
             /\ IsDenomList(new, Refreshable(amount))
             /\ input = Cost(new) + FeeRefresh
             /\ run' = [run EXCEPT ![r] =
                  [@ EXCEPT !.pc = "store", !.new = new, !.input = input]]
  /\ UNCHANGED <<db, payer, chosen, sent, accepted, crashes>>

\* updateExchangeFromUrl failed.
CreateFails(r) ==
  /\ run[r].pc = "create"
  /\ Throw(r)
  /\ UNCHANGED <<db, payer, chosen, sent, accepted, crashes>>

\* The transaction for a coin that is not worth refreshing.
MarkTooSmall(r) ==
  /\ run[r].pc = "small"
  /\ finished' = [finished EXCEPT ![run[r].group] = @ \cup {run[r].old}]
  /\ Goto(r, "check")
  /\ UNCHANGED <<coin, purchase, olds, session, payer, chosen, sent, accepted,
                 crashes>>

\* The transaction that stores the session looks whether the coin has its
\* input left, and whether another run stored a session meanwhile.
MayStore(r) == /\ ~Saturated(run[r].old, run[r].input)
               /\ session[run[r].group][run[r].old] = NoSession

Stored(r) ==
  run' = [run EXCEPT ![r] = [@ EXCEPT !.pc = "check", !.new = {}, !.input = 0]]

\* It takes the input off the coin, before the exchange hears of the session.
StoreSession(r) ==
  LET g == run[r].group
      c == run[r].old
  IN /\ run[r].pc = "store"
     /\ MayStore(r)
     /\ session' = [session EXCEPT ![g][c] =
          [NoSession EXCEPT !.new = run[r].new, !.input = run[r].input]]
     /\ coin' = [coin EXCEPT ![c] = Taken(c, run[r].input)]
     /\ Stored(r)
     /\ UNCHANGED <<purchase, olds, finished, payer, chosen, sent, accepted,
                    crashes>>

\* Otherwise it writes nothing.
DropSession(r) ==
  /\ run[r].pc = "store"
  /\ ~MayStore(r)
  /\ Stored(r)
  /\ UNCHANGED <<db, payer, chosen, sent, accepted, crashes>>

\* processRefreshSession reads the group again: "BUG: refresh session was not
\* created and coin not marked as finished" is an exception.
CheckSession(r) ==
  /\ run[r].pc = "check"
  /\ \/ /\ session[run[r].group][run[r].old] # NoSession
        /\ Goto(r, "melt")
     \/ /\ session[run[r].group][run[r].old] = NoSession
        /\ run[r].old \in finished[run[r].group]
        /\ Return(r)
     \/ /\ session[run[r].group][run[r].old] = NoSession
        /\ run[r].old \notin finished[run[r].group]
        /\ Throw(r)
  /\ UNCHANGED <<db, payer, chosen, sent, accepted, crashes>>

\* refreshMelt reads the session and posts its commitment, unless it was
\* melted before.
Melt(r) ==
  LET s == session[run[r].group][run[r].old] IN
  /\ run[r].pc = "melt"
  /\ IF s.melted
     THEN Goto(r, "reveal") /\ UNCHANGED sent
     ELSE /\ run' = [run EXCEPT ![r] =
               [@ EXCEPT !.pc = "melting", !.new = s.new, !.input = s.input]]
          /\ sent' = sent \cup {MeltReq(run[r].group, run[r].old, s.new, s.input)}
  /\ UNCHANGED <<db, payer, chosen, accepted, crashes>>

\* Mutant: the slot is finished when the coin is melted.
MeltFinishes(r) ==
  /\ run[r].pc = "melting"
  /\ MeltReq(run[r].group, run[r].old, run[r].new, run[r].input) \in accepted
  /\ session' = [session EXCEPT ![run[r].group][run[r].old].melted = TRUE]
  /\ finished' = [finished EXCEPT ![run[r].group] = @ \cup {run[r].old}]
  /\ run' = [run EXCEPT ![r] = [@ EXCEPT !.pc = "reveal", !.new = {}, !.input = 0]]
  /\ UNCHANGED <<coin, purchase, olds, payer, chosen, sent, accepted, crashes>>

\* The exchange answered: norevealIndex is stored in the session.
MeltSucceeds(r) ==
  /\ run[r].pc = "melting"
  /\ MeltReq(run[r].group, run[r].old, run[r].new, run[r].input) \in accepted
  /\ session' = IF session[run[r].group][run[r].old].revealed THEN session
                ELSE [session EXCEPT ![run[r].group][run[r].old].melted = TRUE]
  /\ run' = [run EXCEPT ![r] = [@ EXCEPT !.pc = "reveal", !.new = {}, !.input = 0]]
  /\ UNCHANGED <<coin, purchase, olds, finished, payer, chosen, sent, accepted,
                 crashes>>

MeltFails(r) ==
  /\ run[r].pc = "melting"
  /\ Throw(r)
  /\ UNCHANGED <<db, payer, chosen, sent, accepted, crashes>>

\* refreshReveal: the exchange knows the melt, so it signs the new coins.
Reveal(r) ==
  LET s == session[run[r].group][run[r].old] IN
  /\ run[r].pc = "reveal"
  /\ s.melted
  /\ run' = [run EXCEPT ![r] = [@ EXCEPT !.pc = "unblind", !.new = s.new]]
  /\ UNCHANGED <<db, payer, chosen, sent, accepted, crashes>>

\* A reveal that fails is not an exception: the run ends quietly.
RevealFails(r) ==
  /\ run[r].pc = "reveal"
  /\ Return(r)
  /\ UNCHANGED <<db, payer, chosen, sent, accepted, crashes>>

\* Mutant: the new coins are added by every run that gets so far.
RecordEveryReveal(r) ==
  LET g == run[r].group
      c == run[r].old
  IN /\ run[r].pc = "unblind"
     /\ session' = [session EXCEPT ![g][c].revealed = TRUE]
     /\ finished' = [finished EXCEPT ![g] = @ \cup {c}]
     /\ coin' = [d \in Coins |->
          IF d \in run[r].new THEN [status |-> "Fresh", amount |-> Value[d]]
                              ELSE coin[d]]
     /\ Return(r)
     /\ UNCHANGED <<purchase, olds, payer, chosen, sent, accepted, crashes>>

\* The transaction that adds the new coins, once.
RecordReveal(r) ==
  LET g == run[r].group
      c == run[r].old
  IN /\ run[r].pc = "unblind"
     /\ ~session[g][c].revealed
     /\ session' = [session EXCEPT ![g][c].revealed = TRUE]
     /\ finished' = [finished EXCEPT ![g] = @ \cup {c}]
     /\ coin' = [d \in Coins |->
          IF d \in run[r].new THEN [status |-> "Fresh", amount |-> Value[d]]
                              ELSE coin[d]]
     /\ Return(r)
     /\ UNCHANGED <<purchase, olds, payer, chosen, sent, accepted, crashes>>

AlreadyRevealed(r) ==
  /\ run[r].pc = "unblind"
  /\ session[run[r].group][run[r].old].revealed
  /\ Return(r)
  /\ UNCHANGED <<db, payer, chosen, sent, accepted, crashes>>

-----------------------------------------------------------------------------
(* The environment *)

Exposure(c, requests) == Sum([q \in requests |-> q.spend[c]], requests)

\* The exchange accepts a deposit or a melt if the coin has the value.
Accept(q) ==
  /\ q \in sent \ accepted
  /\ \A c \in Coins : Exposure(c, accepted \cup {q}) <= Value[c]
  /\ accepted' = accepted \cup {q}
  /\ UNCHANGED <<db, payer, chosen, run, sent, crashes>>

\* The wallet stops and starts again: only the database is left.
Crash ==
  /\ crashes < MaxCrashes
  /\ crashes' = crashes + 1
  /\ payer' = [x \in Payers |->
       IF x \in Calls /\ payer[x].pc # "idle"
       THEN [payer[x] EXCEPT !.pc = "done"]
       ELSE [payer[x] EXCEPT !.pc = "idle"]]
  /\ run' = [r \in Runs |-> NoRun]
  /\ UNCHANGED <<db, chosen, sent, accepted>>

\* Nothing is pending and nobody is active: the wallet waits for its user.
Settled ==
  /\ \A p \in Proposals : ~purchase[p].pending
  /\ \A g \in Groups : olds[g] = finished[g]
  /\ \A r \in Runs : run[r].pc = "idle"
  /\ \A x \in Payers : payer[x].pc \in {"idle", "done"}
Rest == Settled /\ UNCHANGED vars

ConfirmPay(k) == \/ SelectCoins(k) \/ InsufficientBalance(k)
                 \/ RecordConfirmPay(k) \/ RecordAborts(k)
Submit(x) == \/ \E p \in Proposals : SubmitPay(x, p)
             \/ PaySucceeds(x) \/ PayFails(x)
RefreshSession(r) ==
  \/ ReadCoinToRefresh(r) \/ CreateFails(r) \/ MarkTooSmall(r)
  \/ StoreSession(r) \/ DropSession(r) \/ CheckSession(r)
  \/ Melt(r) \/ MeltSucceeds(r) \/ MeltFails(r)
  \/ Reveal(r) \/ RevealFails(r) \/ RecordReveal(r) \/ AlreadyRevealed(r)

Next ==
  \/ \E k \in Calls : ConfirmPay(k)
  \/ \E x \in Payers : Submit(x)
  \/ \E m \in Refreshes : RefreshByUser(m)
  \/ \E g \in Groups : ProcessRefreshGroup(g)
  \/ \E r \in Runs : RefreshSession(r)
  \/ \E q \in sent : Accept(q)
  \/ Crash
  \/ Rest

Spec == Init /\ [][Next]_vars

Outstanding(q) ==
  \/ \E x \in Payers : payer[x].pc = "paying" /\ q = PayReq(payer[x].req)
  \/ \E r \in Runs : /\ run[r].pc = "melting"
                    /\ q = MeltReq(run[r].group, run[r].old, run[r].new, run[r].input)

\* The wallet keeps stepping its activities and retries what is pending
\* (runRetryLoop); a request that is made again and again arrives at last,
\* and so does an answer.
Fairness ==
  /\ SF_vars(\E q \in sent : Outstanding(q) /\ Accept(q))
  /\ \A x \in Loopers : /\ WF_vars(\E p \in Proposals : SubmitPay(x, p))
                        /\ SF_vars(PaySucceeds(x))
  /\ \A g \in Groups : WF_vars(ProcessRefreshGroup(g))
  /\ \A r \in Runs : /\ WF_vars(RefreshSession(r))
                     /\ SF_vars(ReadCoinToRefresh(r))
                     /\ SF_vars(MeltSucceeds(r))
                     /\ SF_vars(Reveal(r))
FairSpec == Spec /\ Fairness

-----------------------------------------------------------------------------
(* Properties *)

CoinRecords == [status: {"absent", "Fresh", "Dormant"}, amount: Nat]
PurchaseRecords == [req: Calls \cup {None}, pending: BOOLEAN]
PayerLocals == [pc: {"idle", "sign", "recorded", "paying", "done"},
                proposal: Proposals \cup {None}, req: Calls \cup {None}]
RunStates == {"idle", "create", "small", "store", "check", "melt", "melting",
              "reveal", "unblind"}
RunLocals == [pc: RunStates, group: Groups \cup {None}, old: Coins \cup {None},
              new: SUBSET Coins, input: Nat, memo: BOOLEAN]
\* Coins, purchases and refresh groups keep their shape: no amount falls below
\* zero, and what an activity holds is a coin, a group or a request there is.
TypeOK ==
  /\ coin \in [Coins -> CoinRecords]
  /\ purchase \in [Proposals -> PurchaseRecords]
  /\ olds \in [Groups -> SUBSET Coins]
  /\ session \in [Groups -> [Coins -> Sessions]]
  /\ finished \in [Groups -> SUBSET Coins]
  /\ payer \in [Payers -> PayerLocals]
  /\ chosen \in [Calls -> [Coins -> Nat]]
  /\ run \in [Runs -> RunLocals]
  /\ sent \subseteq Requests
  /\ accepted \subseteq sent
  /\ crashes \in 0..MaxCrashes

\* A fresh coin was "never shown to anybody" (CoinStatus.Fresh, dbTypes.ts)
\* and has its whole value ("typically the full amount, as coins are always
\* refreshed after use", AvailableCoinInfo): no request ever spends from it,
\* however the calls, the retries and the reveals of its group interleave.
FreshNeverShown ==
  \A c \in Fresh : /\ coin[c].amount = Value[c]
                   /\ \A q \in sent : q.spend[c] = 0

\* What the database says the wallet has given away.
Commitments ==
  {PayReq(k) : k \in {j \in Calls : Recorded(j)}} \cup
  {MeltReq(slot[1], slot[2], session[slot[1]][slot[2]].new,
           session[slot[1]][slot[2]].input) :
     slot \in {s \in Groups \X Coins : session[s[1]][s[2]] # NoSession}}

\* The value of a coin is either still on it or given away once: no payment
\* and no refresh takes it twice, and none loses a part of it.
EveryCoinAccounted ==
  \A c \in InWallet : coin[c].amount + Exposure(c, Commitments) = Value[c]

\* Nothing leaves the wallet before the database has it ("Store refresh session
\* and subtract refreshed amount from coin in the same transaction",
\* refreshCreateSession), and what was stored is never replaced: a
\* request that is repeated after a crash is the same request.
SentIsCommitted == sent \subseteq Commitments

\* A coin that was spent in part stays in the care of a refresh group until
\* what is left is too small for a new coin.
RemainderCovered ==
  \A c \in InWallet, d \in Denominations :
    coin[c].status = "Dormant" /\ coin[c].amount >= FeeRefresh + d + FeeWithdraw =>
      \E g \in Groups : c \in olds[g] \ finished[g]

\* "If a coin can't be refreshed (remaining value too small), it will be
\* marked as finished, but no refresh session will be created."
\* (RefreshGroupRecord.finishedPerCoin): a slot that is finished has no
\* session, or one whose new coins are in the wallet.
FinishedHasNoOpenSession ==
  \A g \in Groups : \A c \in finished[g] :
    session[g][c] = NoSession \/ session[g][c].revealed

\* A purchase record "stores status information about one purchase, starting
\* from when the customer accepts a proposal" (PurchaseRecord) and confirmPay
\* is "submitting payment for existing purchase" when it is called again: a
\* proposal takes coins from the wallet once.
OnePaymentPerProposal ==
  \A k, l \in Calls : /\ Recorded(k) /\ Recorded(l)
                      /\ payer[k].proposal = payer[l].proposal
                      => k = l

\* A payment that was recorded reaches the merchant and the wallet learns of
\* it, whatever fails in between.
PendingIsPaid ==
  \A p \in Proposals, k \in Calls :
    purchase[p] = [req |-> k, pending |-> TRUE] ~>
      purchase[p] = [req |-> k, pending |-> FALSE] /\ PayReq(k) \in accepted

\* Every refresh group comes to its end.
GroupsFinish ==
  \A g \in Groups : Recorded(g) ~> finished[g] = olds[g]

-----------------------------------------------------------------------------
(* Why a fresh coin is never shown: the parts of an inductive invariant    *)

\* What a call or a loop works with is there.
PayersOK ==
  /\ \A k \in Calls :
       /\ payer[k].pc \in {"sign", "recorded"} => payer[k].proposal \in Proposals
       /\ payer[k].pc = "recorded" => purchase[payer[k].proposal].req # None
  /\ \A x \in Payers : payer[x].pc = "paying" =>
       payer[x].proposal \in Proposals /\ payer[x].req # None
  /\ \A p \in Proposals : purchase[p].pending => purchase[p].req # None

\* A payReq is in a purchase, or on its way, only after its coins were taken.
InUse(k) ==
  \/ \E p \in Proposals : purchase[p].req = k
  \/ \E x \in Payers : payer[x].pc = "paying" /\ payer[x].req = k
ReqsOK ==
  \A k \in Calls : InUse(k) =>
    /\ payer[k].pc \notin {"idle", "sign"}
    /\ \A c \in Coins : chosen[k][c] > 0 => coin[c].status = "Dormant"

\* A run works on a slot.  The planchets of a session that is not stored yet
\* are its own; the coins it is about to add are those of the stored session.
RunsOK ==
  /\ \A r \in Runs :
       /\ run[r].pc # "idle" =>
            run[r].group \in Groups /\ run[r].old \in InWallet
       /\ run[r].pc \in {"melt", "melting", "reveal", "unblind"} =>
            session[run[r].group][run[r].old] # NoSession
       /\ run[r].pc = "store" => \A d \in run[r].new :
            /\ coin[d].status = "absent"
            /\ \A g \in Groups, c \in Coins : d \notin session[g][c].new
       /\ run[r].pc = "unblind" =>
            run[r].new = session[run[r].group][run[r].old].new
  /\ \A q, r \in Runs : q # r /\ run[q].pc = "store" /\ run[r].pc = "store" =>
       run[q].new \cap run[r].new = {}

\* A coin with a session is dormant; the new coins of a session are nobody
\* else's, and not in the wallet before they are revealed.
SessionsOK ==
  /\ \A g \in Groups : olds[g] \subseteq InWallet
  /\ \A g \in Groups, c \in Coins :
       /\ session[g][c] # NoSession => coin[c].status = "Dormant"
       /\ ~session[g][c].revealed =>
            \A d \in session[g][c].new : coin[d].status = "absent"
  /\ \A g, h \in Groups, c, e \in Coins : <<g, c>> # <<h, e>> =>
       session[g][c].new \cap session[h][e].new = {}

CoinsOK ==
  /\ \A c \in Fresh : coin[c].amount = Value[c]
  /\ \A c \in Coins \ InWallet : coin[c].amount = 0
  /\ \A q \in sent, c \in Coins : q.spend[c] > 0 => coin[c].status = "Dormant"

\* Together they are inductive, and FreshNeverShown follows from CoinsOK.
Protected == /\ TypeOK /\ PayersOK /\ ReqsOK /\ RunsOK /\ SessionsOK /\ CoinsOK
=============================================================================
