--------------------------- MODULE SpendingProofs ---------------------------
(***************************************************************************)
(* Spending's types, why a coin that is fresh was never shown to anybody,  *)
(* and where the value of the coins is, for every number of coins,         *)
(* payments, groups, runs and crashes.                                     *)
(*                                                                         *)
(* The first invariant is Protected.  A step touches the payments, or a    *)
(* run and perhaps the database: the lemmas of the first part say what the *)
(* rest of Protected needs to survive a step of each kind; then there is   *)
(* one lemma per action.                                                   *)
(*                                                                         *)
(* Committed is inductive with Protected: what was taken off a coin is in  *)
(* one payReq or one session of the database, and only what is there is    *)
(* sent.  SlotsKept is inductive with both: a slot that is finished        *)
(* without a session has a coin that is too small for one.  So every step  *)
(* is one of Purse on what is on record, or leaves that alone; and what is *)
(* on record is in a group's care until two runs work on one slot and the  *)
(* second one finishes it (SessionLost).  In groups of one coin there is   *)
(* no second run (MemosOK), and there the balance that is shown is in the  *)
(* purse.                                                                  *)
(*                                                                         *)
(* The last parts are about what these steps only choose among: the coins  *)
(* that pay, the denominations of new coins, and the amounts.  The code's  *)
(* loops are folds in Selection and Amounts; what a fold passes through is *)
(* in SumTheorems, and one invariant for each loop gives what it promises  *)
(* for every list of coins, exchanges, denominations or amounts, and that  *)
(* its results are among those the steps choose from.                      *)
(***************************************************************************)
EXTENDS Balance, SumTheorems, Sequences, TLAPS

-----------------------------------------------------------------------------
(* What survives a step *)

\* No step takes a coin out of the wallet or makes a spent coin fresh, and
\* those that add no coins leave the records of the others alone.
SpentStays == \A c \in Coins : coin[c].status = "Dormant" => coin'[c].status = "Dormant"
AbsentStays == \A c \in Coins : coin[c].status = "absent" => coin'[c].status = "absent"
WalletStays == InWallet \subseteq InWallet'

\* The payments' part of Protected needs only that spent coins stay spent
\* (the contributions of recordConfirmPay).
LEMMA PaymentsKept ==
  ASSUME PayersOK, ReqsOK, SpentStays, UNCHANGED <<purchase, payer, chosen>>
  PROVE  PayersOK' /\ ReqsOK'
  BY DEF PayersOK, ReqsOK, InUse, SpentStays

\* The sessions' part needs that no coin comes into the wallet, unless a
\* session does the adding (refreshReveal).
LEMMA SessionsKept ==
  ASSUME TypeOK, SessionsOK, SpentStays, AbsentStays, WalletStays,
         UNCHANGED <<olds, session>>
  PROVE  SessionsOK'
<1>1. \A g \in Groups, c \in Coins : session[g][c].new \subseteq Coins
  BY DEF TypeOK, Sessions
<1> QED
  BY <1>1 DEF SessionsOK, SpentStays, AbsentStays, WalletStays

\* The runs' part needs the same when no run moves.
LEMMA RunsKept ==
  ASSUME TypeOK, RunsOK, AbsentStays, WalletStays, UNCHANGED <<session, run>>
  PROVE  RunsOK'
<1>1. \A r \in Runs : run[r].new \subseteq Coins
  BY DEF TypeOK, RunLocals
<1> QED
  BY <1>1 DEF RunsOK, AbsentStays, WalletStays

\* The requests' part (CoinsOK) is about the coins and the requests alone.
LEMMA CoinsKept ==
  ASSUME CoinsOK, UNCHANGED <<coin, sent>>
  PROVE  CoinsOK'
  BY DEF CoinsOK, Fresh, InWallet

\* A coin that no step touched stays as it is.
LEMMA NothingMoves ==
  ASSUME UNCHANGED coin
  PROVE  SpentStays /\ AbsentStays /\ WalletStays
  BY DEF SpentStays, AbsentStays, WalletStays, InWallet

\* What is left to show of a step of confirmPay or submitPay.
LEMMA PaymentStep ==
  ASSUME Protected, UNCHANGED <<coin, olds, session, finished, run, accepted, crashes>>,
         TypeOK', PayersOK', ReqsOK', CoinsOK'
  PROVE  Protected'
  BY NothingMoves, SessionsKept, RunsKept DEF Protected

\* What is left to show of a step of a run that leaves the database alone.
LEMMA RunStep ==
  ASSUME Protected, UNCHANGED <<db, payer, chosen, sent, accepted, crashes>>,
         run' \in [Runs -> RunLocals], RunsOK'
  PROVE  Protected'
<1>1. TypeOK'
  BY DEF Protected, TypeOK, db
<1> QED
  BY <1>1, NothingMoves, PaymentsKept, SessionsKept, CoinsKept DEF Protected, db

-----------------------------------------------------------------------------
(* The steps of a run *)

\* The locals of a run stay of their type when it goes on.
LEMMA Locals ==
  ASSUME NEW l \in RunLocals, NEW s \in RunStates, NEW new \in SUBSET Coins,
         NEW input \in Nat
  PROVE  /\ [l EXCEPT !.pc = s] \in RunLocals
         /\ [l EXCEPT !.pc = s, !.new = new] \in RunLocals
         /\ [l EXCEPT !.pc = s, !.new = new, !.input = input] \in RunLocals
         /\ [l EXCEPT !.memo = FALSE] \in RunLocals
  BY DEF RunLocals, RunStates

\* A run that is over has the type of a run.
LEMMA NoRunLocals == NoRun \in RunLocals
  BY DEF NoRun, RunLocals, RunStates

\* The only runs that changed: r, and those that lost their memo with it.
Others(r) == \A q \in Runs \ {r} :
  /\ run'[q].pc = run[q].pc /\ run'[q].group = run[q].group
  /\ run'[q].old = run[q].old /\ run'[q].new = run[q].new
  /\ run'[q].input = run[q].input

\* A run that goes on with the same slot.
Stays(r) == run'[r].group = run[r].group /\ run'[r].old = run[r].old

\* Goto keeps everything but the place.
LEMMA GotoStep ==
  ASSUME TypeOK, NEW r \in Runs, NEW s \in RunStates, Goto(r, s)
  PROVE  /\ run' \in [Runs -> RunLocals]
         /\ run'[r].pc = s /\ run'[r].new = run[r].new /\ Stays(r) /\ Others(r)
<1>1. run[r] \in RunLocals
  BY DEF TypeOK
<1>2. [run[r] EXCEPT !.pc = s] \in RunLocals
  BY <1>1, Locals DEF RunLocals
<1> QED
  BY <1>1, <1>2 DEF Goto, TypeOK, Stays, Others, RunLocals

\* The steps that also set the planchets a run works with.
LEMMA NewStep ==
  ASSUME TypeOK, NEW r \in Runs, NEW s \in RunStates, NEW new \in SUBSET Coins,
         NEW input \in Nat,
         \/ run' = [run EXCEPT ![r] = [@ EXCEPT !.pc = s, !.new = new]]
         \/ run' = [run EXCEPT ![r] =
              [@ EXCEPT !.pc = s, !.new = new, !.input = input]]
  PROVE  /\ run' \in [Runs -> RunLocals]
         /\ run'[r].pc = s /\ run'[r].new = new /\ Stays(r) /\ Others(r)
<1>1. run[r] \in RunLocals
  BY DEF TypeOK
<1>2. PICK l \in RunLocals : /\ run' = [run EXCEPT ![r] = l]
                            /\ l.pc = s /\ l.new = new
                            /\ l.group = run[r].group /\ l.old = run[r].old
  <2>1. CASE run' = [run EXCEPT ![r] = [@ EXCEPT !.pc = s, !.new = new]]
    <3>1. [run[r] EXCEPT !.pc = s, !.new = new] \in RunLocals
      BY <1>1, Locals
    <3> QED
      BY <1>1, <2>1, <3>1 DEF RunLocals
  <2>2. CASE run' = [run EXCEPT ![r] =
               [@ EXCEPT !.pc = s, !.new = new, !.input = input]]
    <3>1. [run[r] EXCEPT !.pc = s, !.new = new, !.input = input] \in RunLocals
      BY <1>1, Locals
    <3> QED
      BY <1>1, <2>2, <3>1 DEF RunLocals
  <2> QED
    BY <2>1, <2>2
<1> QED
  BY <1>1, <1>2 DEF TypeOK, Stays, Others

\* A run ends, quietly or with an exception.
LEMMA EndStep ==
  ASSUME TypeOK, NEW r \in Runs, Return(r) \/ Throw(r)
  PROVE  run' \in [Runs -> RunLocals] /\ run'[r].pc = "idle" /\ Others(r)
<1>1. CASE Return(r)
  BY <1>1, NoRunLocals DEF Return, TypeOK, Others, NoRun
<1>2. CASE Throw(r)
  <2>1. \A q \in Runs : [run[q] EXCEPT !.memo = FALSE] \in RunLocals
    BY DEF TypeOK, RunLocals
  <2>2. run' \in [Runs -> RunLocals]
    BY <1>2, <2>1, NoRunLocals DEF Throw, TypeOK
  <2>3. run'[r].pc = "idle" /\ Others(r)
    BY <1>2 DEF Throw, TypeOK, Others, NoRun, RunLocals
  <2> QED
    BY <2>2, <2>3
<1> QED
  BY <1>1, <1>2

\* A run whose planchets are not its own to store may move on its slot when
\* the slot has the session that its place calls for.
LEMMA RunMoves ==
  ASSUME RunsOK, NEW r \in Runs, Others(r), UNCHANGED <<coin, session>>,
         \/ run'[r].pc = "idle"
         \/ /\ run[r].pc # "idle" /\ run'[r].pc # "store" /\ Stays(r)
            /\ run'[r].pc \in {"melt", "melting", "reveal", "unblind"} =>
                 session[run[r].group][run[r].old] # NoSession
            /\ run'[r].pc = "unblind" =>
                 run'[r].new = session[run[r].group][run[r].old].new
  PROVE  RunsOK'
  BY DEF RunsOK, InWallet, Others, Stays

-----------------------------------------------------------------------------
(* confirmPay and submitPay *)

\* The request of a call spends what the call chose.
LEMMA PayReqSpends ==
  \A k \in Calls : PayReq(k).spend = chosen[k]
  BY DEF PayReq

\* selectPayCoins only fills in the call's own choice.
LEMMA SelectCoinsProtects ==
  ASSUME Protected, NEW k \in Calls, SelectCoins(k)
  PROVE  Protected'
<1> DEFINE Selects(p, f) ==
             /\ payer' = [payer EXCEPT ![k] = [@ EXCEPT !.pc = "sign", !.proposal = p]]
             /\ chosen' = [chosen EXCEPT ![k] =
                  [c \in Coins |-> IF c \in Fresh THEN f[c] ELSE 0]]
<1>0. PICK p \in Proposals : \E f \in [Fresh -> 0..Price[p]] : Selects(p, f)
  BY DEF SelectCoins
<1>1. PICK f \in [Fresh -> 0..Price[p]] : Selects(p, f)
  BY <1>0
<1>2. UNCHANGED <<coin, purchase, olds, session, finished, run, sent, accepted,
                  crashes>>
  BY DEF SelectCoins, db
<1>3. payer[k] \in PayerLocals /\ payer[k].pc = "idle"
  BY DEF Protected, TypeOK, Payers, SelectCoins
<1>4. TypeOK'
  <2>1. [payer[k] EXCEPT !.pc = "sign", !.proposal = p] \in PayerLocals
    BY <1>3 DEF PayerLocals
  <2>2. [c \in Coins |-> IF c \in Fresh THEN f[c] ELSE 0] \in [Coins -> Nat]
    BY CoinsAssumption
  <2>3. chosen' \in [Calls -> [Coins -> Nat]]
    BY <1>1, <2>2 DEF Protected, TypeOK
  <2>4. payer' \in [Payers -> PayerLocals]
    BY <1>1, <2>1 DEF Protected, TypeOK
  <2> QED
    BY <1>2, <2>3, <2>4 DEF Protected, TypeOK
<1>5. /\ payer'[k].pc = "sign" /\ payer'[k].proposal = p
      /\ \A x \in Payers \ {k} : payer'[x] = payer[x]
      /\ \A j \in Calls \ {k} : chosen'[j] = chosen[j]
  BY <1>1, <1>3 DEF Protected, TypeOK, PayerLocals, Payers
<1>6. PayersOK'
  BY <1>1, <1>2, <1>5 DEF Protected, PayersOK, Payers
<1>7. ReqsOK'
  BY <1>2, <1>3, <1>5 DEF Protected, ReqsOK, InUse, Payers
<1> QED
  BY <1>2, <1>4, <1>6, <1>7, CoinsKept, PaymentStep DEF Protected

\* A call that ends early leaves nothing behind.
LEMMA InsufficientBalanceProtects ==
  ASSUME Protected, NEW k \in Calls, InsufficientBalance(k) \/ RecordAborts(k)
  PROVE  Protected'
<1>1. /\ payer' = [payer EXCEPT ![k].pc = "done"]
      /\ UNCHANGED <<db, chosen, run, sent, accepted, crashes>>
  BY DEF InsufficientBalance, RecordAborts
<1>2. TypeOK'
  BY <1>1 DEF Protected, TypeOK, PayerLocals, Payers, db
<1>3. PayersOK'
  BY <1>1 DEF Protected, PayersOK, TypeOK, Payers, PayerLocals, db
<1>4. ReqsOK'
  BY <1>1 DEF Protected, ReqsOK, InUse, TypeOK, Payers, PayerLocals, db
<1> QED
  BY <1>1, <1>2, <1>3, <1>4, CoinsKept, PaymentStep DEF Protected, db

\* recordConfirmPay makes every coin dormant that the new payReq spends.
LEMMA RecordConfirmPayProtects ==
  ASSUME Protected, NEW k \in Calls, RecordConfirmPay(k)
  PROVE  Protected'
<1> DEFINE used == {c \in Coins : chosen[k][c] > 0}
<1>1. /\ \A c \in used : coin'[c] = Taken(c, chosen[k][c]) /\ ~Saturated(c, chosen[k][c])
      /\ \A c \in Coins \ used : coin'[c] = coin[c]
      /\ coin' = [c \in Coins |-> coin'[c]]
  BY DEF RecordConfirmPay
<1>2. \A c \in used : coin'[c].status = "Dormant"
  BY <1>1 DEF Taken
<1>3. used \subseteq InWallet
  BY <1>1 DEF Protected, TypeOK, CoinRecords, CoinsOK, Saturated, InWallet
<1>4. SpentStays /\ AbsentStays /\ WalletStays
  BY <1>1, <1>2, <1>3 DEF SpentStays, AbsentStays, WalletStays, InWallet
<1>5. TypeOK'
  <2>1. coin' \in [Coins -> CoinRecords]
    <3>1. \A c \in used : Taken(c, chosen[k][c]) \in CoinRecords
      BY <1>1 DEF Saturated, Taken, Protected, TypeOK, CoinRecords
    <3> QED
      BY <1>1, <3>1 DEF Protected, TypeOK
  <2>2. /\ purchase' \in [Proposals -> PurchaseRecords]
        /\ olds' \in [Groups -> SUBSET Coins]
    BY DEF RecordConfirmPay, Protected, TypeOK, PurchaseRecords, Groups
  <2>3. payer' \in [Payers -> PayerLocals]
    BY DEF RecordConfirmPay, Protected, TypeOK, Payers, PayerLocals
  <2> QED
    BY <2>1, <2>2, <2>3 DEF RecordConfirmPay, Protected, TypeOK
<1>6. PayersOK'
  BY NamesAssumption
  DEF RecordConfirmPay, Protected, PayersOK, TypeOK, Payers, PayerLocals, PurchaseRecords
<1>7. ReqsOK'
  BY <1>1, <1>2, <1>4
  DEF RecordConfirmPay, Protected, ReqsOK, InUse, TypeOK, Payers, PayerLocals,
      PurchaseRecords, SpentStays
<1>8. UNCHANGED <<session, run, sent>>
  BY DEF RecordConfirmPay
<1>9. RunsOK'
  BY <1>4, <1>8, RunsKept DEF Protected
<1>10. SessionsOK'
  <2>1. \A g \in Groups : olds'[g] = olds[g] \/ olds'[g] = used
    BY DEF RecordConfirmPay, Protected, TypeOK
  <2>2. \A g \in Groups : olds'[g] \subseteq InWallet'
    BY <1>3, <1>4, <2>1 DEF Protected, SessionsOK, WalletStays
  <2>3. \A g \in Groups, c \in Coins : session[g][c].new \subseteq Coins
    BY DEF Protected, TypeOK, Sessions
  <2> QED
    BY <1>4, <1>8, <2>2, <2>3 DEF Protected, SessionsOK, SpentStays, AbsentStays
<1>11. CoinsOK'
  BY <1>1, <1>2, <1>3, <1>4, <1>8
  DEF Protected, CoinsOK, Fresh, InWallet, SpentStays
<1> QED
  BY <1>5, <1>6, <1>7, <1>9, <1>10, <1>11 DEF Protected

\* submitPay sends the payReq of a purchase: its coins are dormant.
LEMMA SubmitPayProtects ==
  ASSUME Protected, NEW x \in Payers, NEW p \in Proposals, SubmitPay(x, p)
  PROVE  Protected'
<1>1. /\ payer' = [payer EXCEPT ![x] =
           [pc |-> "paying", proposal |-> p, req |-> purchase[p].req]]
      /\ sent' = sent \cup {PayReq(purchase[p].req)}
      /\ UNCHANGED <<coin, purchase, olds, session, finished, chosen, run,
                     accepted, crashes>>
  BY DEF SubmitPay, db
<1>2. x \in Calls => payer[x].pc = "recorded"
  BY NamesAssumption DEF SubmitPay
<1>3. purchase[p].req \in Calls
  BY DEF SubmitPay, Protected, PayersOK, TypeOK, PurchaseRecords
<1>4. TypeOK'
  <2>1. PayReq(purchase[p].req) \in Requests
    BY <1>3 DEF PayReq, Requests, Protected, TypeOK
  <2>2. payer' \in [Payers -> PayerLocals]
    BY <1>1, <1>3 DEF Protected, TypeOK, PayerLocals
  <2> QED
    BY <1>1, <2>1, <2>2 DEF Protected, TypeOK
<1>5. PayersOK'
  BY <1>1, <1>3, NamesAssumption DEF Protected, PayersOK, TypeOK, Payers, PayerLocals
<1>6. ReqsOK'
  BY <1>1, <1>2, <1>3 DEF Protected, ReqsOK, InUse, TypeOK, Payers, PayerLocals
<1>7. CoinsOK'
  <2>1. \A c \in Coins : chosen[purchase[p].req][c] > 0 => coin[c].status = "Dormant"
    BY <1>3 DEF Protected, ReqsOK, InUse
  <2>2. PayReq(purchase[p].req).spend = chosen[purchase[p].req]
    BY <1>3, PayReqSpends
  <2> QED
    BY <1>1, <2>1, <2>2 DEF Protected, CoinsOK, Fresh, InWallet
<1> QED
  BY <1>1, <1>4, <1>5, <1>6, <1>7, PaymentStep

\* The purchase that submitPay writes back had a payReq of a finished call.
LEMMA PaySucceedsProtects ==
  ASSUME Protected, NEW x \in Payers, PaySucceeds(x)
  PROVE  Protected'
<1>1. payer[x].proposal \in Proposals /\ payer[x].req \in Calls
  BY DEF PaySucceeds, Protected, PayersOK, TypeOK, PayerLocals
<1>2. TypeOK'
  <2>1. purchase' \in [Proposals -> PurchaseRecords]
    BY <1>1 DEF PaySucceeds, Protected, TypeOK, PurchaseRecords
  <2>2. payer' \in [Payers -> PayerLocals]
    BY DEF PaySucceeds, AfterPay, Protected, TypeOK, PayerLocals
  <2> QED
    BY <2>1, <2>2 DEF PaySucceeds, Protected, TypeOK
<1>3. PayersOK'
  BY <1>1, NamesAssumption
  DEF PaySucceeds, AfterPay, Protected, PayersOK, TypeOK, Payers, PayerLocals,
      PurchaseRecords
<1>4. ReqsOK'
  BY <1>1 DEF PaySucceeds, AfterPay, Protected, ReqsOK, InUse, TypeOK, Payers,
              PayerLocals, PurchaseRecords
<1> QED
  BY <1>2, <1>3, <1>4, CoinsKept, PaymentStep DEF PaySucceeds, Protected

\* A payment that failed changes nothing in the database.
LEMMA PayFailsProtects ==
  ASSUME Protected, NEW x \in Payers, PayFails(x)
  PROVE  Protected'
<1>1. TypeOK'
  BY DEF PayFails, AfterPay, Protected, TypeOK, PayerLocals, db
<1>2. PayersOK'
  BY DEF PayFails, AfterPay, Protected, PayersOK, TypeOK, Payers, PayerLocals, db
<1>3. ReqsOK'
  BY DEF PayFails, AfterPay, Protected, ReqsOK, InUse, TypeOK, Payers, PayerLocals, db
<1> QED
  BY <1>1, <1>2, <1>3, CoinsKept, PaymentStep DEF PayFails, Protected, db

-----------------------------------------------------------------------------
(* The refresh groups and their runs *)

\* Wallet.refresh puts a coin of the wallet into a group.
LEMMA RefreshByUserProtects ==
  ASSUME Protected, NEW m \in Refreshes, RefreshByUser(m)
  PROVE  Protected'
<1>1. PICK c \in InWallet : olds' = [olds EXCEPT ![m] = {c}]
  BY DEF RefreshByUser
<1>2. UNCHANGED <<coin, purchase, session, finished, payer, chosen, run, sent,
                  accepted, crashes>>
  BY DEF RefreshByUser
<1>3. TypeOK'
  BY <1>1, <1>2 DEF Protected, TypeOK, InWallet
<1>4. SessionsOK'
  BY <1>1, <1>2 DEF Protected, TypeOK, SessionsOK, InWallet
<1> QED
  BY <1>2, <1>3, <1>4, NothingMoves, PaymentsKept, RunsKept, CoinsKept DEF Protected

\* Every run that processRefreshGroup starts has a slot of the group, and one
\* that starts with the melt has the session.
LEMMA ProcessRefreshGroupProtects ==
  ASSUME Protected, NEW g \in Groups, ProcessRefreshGroup(g)
  PROVE  Protected'
<1> DEFINE todo == olds[g] \ finished[g]
           Start(c) ==
             [pc |-> IF session[g][c] = NoSession THEN "create" ELSE "melt",
              group |-> g, old |-> c, new |-> {}, input |-> 0, memo |-> TRUE]
<1>1. PICK f \in Injection(todo, {r \in Runs : run[r].pc = "idle"}) :
        run' = [r \in Runs |->
          IF \E c \in todo : f[c] = r
          THEN Start(CHOOSE c \in todo : f[c] = r) ELSE run[r]]
  BY DEF ProcessRefreshGroup
<1>2. \A r \in Runs : run'[r] = run[r] \/ \E c \in todo : run'[r] = Start(c)
  <2> TAKE r \in Runs
  <2>1. CASE \E c \in todo : f[c] = r
    <3>1. (CHOOSE c \in todo : f[c] = r) \in todo
      BY <2>1
    <3> QED
      BY <1>1, <2>1, <3>1
  <2>2. CASE ~\E c \in todo : f[c] = r
    BY <1>1, <2>2
  <2> QED
    BY <2>1, <2>2
<1>3. todo \subseteq InWallet
  BY DEF Protected, SessionsOK
<1>4. \A c \in todo : Start(c) \in RunLocals
  BY <1>3 DEF InWallet, RunLocals, RunStates
<1>5. run' \in [Runs -> RunLocals]
  BY <1>1, <1>2, <1>4 DEF Protected, TypeOK
<1>6. UNCHANGED <<db, payer, chosen, sent, accepted, crashes>>
  BY DEF ProcessRefreshGroup
<1>7. \A r \in Runs :
        \/ run'[r] = run[r]
        \/ /\ run'[r].group = g /\ run'[r].old \in InWallet
           /\ \/ run'[r].pc = "create"
              \/ run'[r].pc = "melt" /\ session[g][run'[r].old] # NoSession
  <2> SUFFICES ASSUME NEW r \in Runs, NEW c \in todo, run'[r] = Start(c)
               PROVE  /\ run'[r].group = g /\ run'[r].old \in InWallet
                      /\ \/ run'[r].pc = "create"
                         \/ run'[r].pc = "melt" /\ session[g][run'[r].old] # NoSession
    BY <1>2
  <2>1. /\ run'[r].group = g /\ run'[r].old = c
        /\ run'[r].pc = IF session[g][c] = NoSession THEN "create" ELSE "melt"
    OBVIOUS
  <2> QED
    BY <1>3, <2>1
<1>8. RunsOK'
  BY <1>6, <1>7 DEF Protected, RunsOK, InWallet, db
<1> QED
  BY <1>5, <1>6, <1>8, RunStep

\* The planchets that refreshCreateSession has made are nobody else's.
LEMMA ReadCoinToRefreshProtects ==
  ASSUME Protected, NEW r \in Runs, ReadCoinToRefresh(r)
  PROVE  Protected'
<1>1. /\ UNCHANGED <<db, payer, chosen, sent, accepted, crashes>>
      /\ run[r].pc = "create"
  BY DEF ReadCoinToRefresh
<1>2. UNCHANGED <<coin, session>>
  BY <1>1 DEF db
<1>3. CASE Goto(r, "small")
  <2>1. /\ run' \in [Runs -> RunLocals]
        /\ run'[r].pc = "small" /\ Stays(r) /\ Others(r)
    BY <1>3, GotoStep DEF RunStates, Protected
  <2>2. RunsOK'
    BY <1>1, <1>2, <2>1, RunMoves DEF Protected
  <2> QED
    BY <1>1, <2>1, <2>2, RunStep
<1>4. CASE ~Goto(r, "small")
  <2>1. PICK new \in SUBSET Unseen, input \in 0..coin[run[r].old].amount :
          run' = [run EXCEPT ![r] =
            [@ EXCEPT !.pc = "store", !.new = new, !.input = input]]
    BY <1>4 DEF ReadCoinToRefresh
  <2>2. new \in SUBSET Coins /\ input \in Nat
    BY DEF Unseen
  <2>3. /\ run' \in [Runs -> RunLocals]
        /\ run'[r].pc = "store" /\ run'[r].new = new /\ Stays(r) /\ Others(r)
    BY <2>1, <2>2, NewStep DEF RunStates, Protected
  <2>4. \A d \in new : /\ coin[d].status = "absent"
                       /\ \A g \in Groups, c \in Coins : d \notin session[g][c].new
                       /\ \A q \in Runs : d \notin run[q].new
    BY DEF Unseen, InWallet
  <2>5. RunsOK'
    BY <1>1, <1>2, <2>3, <2>4 DEF Protected, RunsOK, InWallet, Stays, Others
  <2> QED
    BY <1>1, <2>3, <2>5, RunStep
<1> QED
  BY <1>3, <1>4

\* The steps that end a run and leave the database as it is.
LEMMA EndProtects ==
  ASSUME Protected, NEW r \in Runs, Return(r) \/ Throw(r),
         UNCHANGED <<db, payer, chosen, sent, accepted, crashes>>
  PROVE  Protected'
<1>1. run' \in [Runs -> RunLocals] /\ run'[r].pc = "idle" /\ Others(r)
  BY EndStep DEF Protected
<1>2. RunsOK'
  BY <1>1, RunMoves DEF Protected, db
<1> QED
  BY <1>1, <1>2, RunStep

\* A slot that is marked as finished is a slot of the group.
LEMMA MarkTooSmallProtects ==
  ASSUME Protected, NEW r \in Runs, MarkTooSmall(r)
  PROVE  Protected'
<1>1. /\ Goto(r, "check") /\ run[r].pc = "small"
      /\ UNCHANGED <<coin, purchase, olds, session, payer, chosen, sent, accepted,
                     crashes>>
  BY DEF MarkTooSmall
<1>2. /\ run' \in [Runs -> RunLocals]
      /\ run'[r].pc = "check" /\ Stays(r) /\ Others(r)
  BY <1>1, GotoStep DEF RunStates, Protected
<1>3. finished' \in [Groups -> SUBSET Coins]
  BY <1>1 DEF MarkTooSmall, Protected, TypeOK, RunsOK, InWallet
<1>4. TypeOK'
  BY <1>1, <1>2, <1>3 DEF Protected, TypeOK
<1>5. RunsOK'
  BY <1>1, <1>2, RunMoves DEF Protected
<1> QED
  BY <1>1, <1>4, <1>5, NothingMoves, PaymentsKept, SessionsKept, CoinsKept
  DEF Protected

\* A session that is stored has planchets of its own and a dormant coin.
LEMMA StoreSessionProtects ==
  ASSUME Protected, NEW r \in Runs, StoreSession(r)
  PROVE  Protected'
<1> DEFINE g == run[r].group
           c == run[r].old
<1>1. /\ run[r].pc = "store" /\ ~Saturated(c, run[r].input) /\ session[g][c] = NoSession
      /\ UNCHANGED <<purchase, olds, finished, payer, chosen, sent, accepted, crashes>>
  BY DEF StoreSession, MayStore
<1>2. /\ g \in Groups /\ c \in InWallet
      /\ run[r].new \in SUBSET Coins /\ run[r].input \in Nat
  BY <1>1 DEF Protected, RunsOK, TypeOK, RunLocals
<1>3. /\ run' \in [Runs -> RunLocals] /\ run'[r].pc = "check" /\ Stays(r) /\ Others(r)
  BY NewStep DEF StoreSession, Stored, RunStates, Protected
<1>4. /\ coin'[c] = Taken(c, run[r].input)
      /\ \A d \in Coins \ {c} : coin'[d] = coin[d]
  BY <1>2 DEF StoreSession, Protected, TypeOK, InWallet
<1>5. SpentStays /\ AbsentStays /\ WalletStays
  BY <1>2, <1>4 DEF Taken, SpentStays, AbsentStays, WalletStays, InWallet
<1>6. /\ session'[g][c].new = run[r].new
      /\ \A h \in Groups, e \in Coins : <<h, e>> # <<g, c>> =>
           session'[h][e] = session[h][e]
  BY <1>2 DEF StoreSession, Protected, TypeOK, NoSession, InWallet
<1>7. \A d \in run[r].new :
        /\ coin[d].status = "absent" /\ coin'[d].status = "absent"
        /\ \A h \in Groups, e \in Coins : d \notin session[h][e].new
  BY <1>1, <1>2, <1>5 DEF Protected, RunsOK, AbsentStays
<1>8. TypeOK'
  <2>1. coin' \in [Coins -> CoinRecords]
    <3>1. Taken(c, run[r].input) \in CoinRecords
      BY <1>1, <1>2 DEF Saturated, Taken, Protected, TypeOK, CoinRecords, InWallet
    <3> QED
      BY <3>1 DEF StoreSession, Protected, TypeOK
  <2>2. session' \in [Groups -> [Coins -> Sessions]]
    <3>1. [NoSession EXCEPT !.new = run[r].new, !.input = run[r].input] \in Sessions
      BY <1>2 DEF NoSession, Sessions
    <3> QED
      BY <1>2, <3>1 DEF StoreSession, Protected, TypeOK
  <2> QED
    BY <1>1, <1>3, <2>1, <2>2 DEF Protected, TypeOK
<1>9. RunsOK'
  <2>1. ASSUME NEW q \in Runs \ {r}, run[q].pc = "store", NEW d \in run[q].new
        PROVE  /\ coin'[d].status = "absent"
               /\ \A h \in Groups, e \in Coins : d \notin session'[h][e].new
    <3>1. d \in Coins /\ coin'[d].status = "absent"
      BY <1>5, <2>1 DEF Protected, RunsOK, TypeOK, RunLocals, AbsentStays
    <3>2. d \notin run[r].new
      BY <1>1, <2>1 DEF Protected, RunsOK
    <3> QED
      BY <1>6, <2>1, <3>1, <3>2 DEF Protected, RunsOK
  <2>2. ASSUME NEW q \in Runs \ {r},
               run[q].pc \in {"melt", "melting", "reveal", "unblind"}
        PROVE  session'[run[q].group][run[q].old] = session[run[q].group][run[q].old]
    BY <1>1, <1>6, <2>2 DEF Protected, RunsOK, InWallet
  <2> QED
    BY <1>1, <1>2, <1>3, <1>5, <2>1, <2>2
    DEF Protected, RunsOK, Stays, Others, WalletStays
<1>10. SessionsOK'
  <2>1. \A h \in Groups : olds'[h] \subseteq InWallet'
    BY <1>1, <1>5 DEF Protected, SessionsOK, WalletStays
  <2>2. coin'[c].status = "Dormant"
    BY <1>4 DEF Taken
  <2>3. ASSUME NEW h \in Groups, NEW e \in Coins
        PROVE  /\ session'[h][e] # NoSession => coin'[e].status = "Dormant"
               /\ ~session'[h][e].revealed =>
                    \A d \in session'[h][e].new : coin'[d].status = "absent"
    <3>1. CASE <<h, e>> = <<g, c>>
      BY <1>6, <1>7, <2>2, <3>1
    <3>2. CASE <<h, e>> # <<g, c>>
      <4>1. session'[h][e] = session[h][e] /\ session[h][e].new \subseteq Coins
        BY <1>6, <3>2 DEF Protected, TypeOK, Sessions
      <4> QED
        BY <1>5, <4>1 DEF Protected, SessionsOK, SpentStays, AbsentStays
    <3> QED
      BY <3>1, <3>2
  <2>4. ASSUME NEW h \in Groups, NEW i \in Groups, NEW e \in Coins, NEW f \in Coins,
               <<h, e>> # <<i, f>>
        PROVE  session'[h][e].new \cap session'[i][f].new = {}
    BY <1>6, <1>7, <2>4 DEF Protected, SessionsOK
  <2> QED
    BY <2>1, <2>3, <2>4 DEF SessionsOK
<1>11. CoinsOK'
  <2>1. coin'[c].status = "Dormant"
    BY <1>4 DEF Taken
  <2> QED
    BY <1>1, <1>2, <1>4, <1>5, <2>1 DEF Protected, CoinsOK, Fresh, InWallet, SpentStays
<1> QED
  BY <1>1, <1>5, <1>8, <1>9, <1>10, <1>11, PaymentsKept DEF Protected

\* So has one that turned out to be there already.
LEMMA DropSessionProtects ==
  ASSUME Protected, NEW r \in Runs, DropSession(r)
  PROVE  Protected'
<1>1. /\ Stored(r) /\ run[r].pc = "store"
      /\ UNCHANGED <<db, payer, chosen, sent, accepted, crashes>>
  BY DEF DropSession
<1>2. /\ run' \in [Runs -> RunLocals]
      /\ run'[r].pc = "check" /\ Stays(r) /\ Others(r)
  BY <1>1, NewStep DEF Stored, RunStates, Protected
<1>3. RunsOK'
  BY <1>1, <1>2, RunMoves DEF Protected, db
<1> QED
  BY <1>1, <1>2, <1>3, RunStep

\* Only a slot with a session goes on to the melt.
LEMMA CheckSessionProtects ==
  ASSUME Protected, NEW r \in Runs, CheckSession(r)
  PROVE  Protected'
<1>1. /\ UNCHANGED <<db, payer, chosen, sent, accepted, crashes>>
      /\ run[r].pc = "check"
  BY DEF CheckSession
<1>2. CASE Return(r) \/ Throw(r)
  BY <1>1, <1>2, EndProtects
<1>3. CASE Goto(r, "melt") /\ session[run[r].group][run[r].old] # NoSession
  <2>1. /\ run' \in [Runs -> RunLocals]
        /\ run'[r].pc = "melt" /\ Stays(r) /\ Others(r)
    BY <1>3, GotoStep DEF RunStates, Protected
  <2>2. RunsOK'
    BY <1>1, <1>3, <2>1, RunMoves DEF Protected, db
  <2> QED
    BY <1>1, <2>1, <2>2, RunStep
<1> QED
  BY <1>2, <1>3 DEF CheckSession

\* The melt spends the coin of a session, which is dormant.
LEMMA MeltProtects ==
  ASSUME Protected, NEW r \in Runs, Melt(r)
  PROVE  Protected'
<1> DEFINE g == run[r].group
           c == run[r].old
           s == session[g][c]
<1>1. /\ UNCHANGED <<db, payer, chosen, accepted, crashes>>
      /\ run[r].pc = "melt"
  BY DEF Melt
<1>2. g \in Groups /\ c \in Coins /\ s # NoSession
  BY <1>1 DEF Protected, RunsOK, InWallet
<1>3. CASE s.melted
  <2>1. Goto(r, "reveal") /\ UNCHANGED sent
    BY <1>3 DEF Melt
  <2>2. /\ run' \in [Runs -> RunLocals]
        /\ run'[r].pc = "reveal" /\ Stays(r) /\ Others(r)
    BY <2>1, GotoStep DEF RunStates, Protected
  <2>3. RunsOK'
    BY <1>1, <1>2, <2>2, RunMoves DEF Protected, db
  <2> QED
    BY <1>1, <2>1, <2>2, <2>3, RunStep
<1>4. CASE ~s.melted
  <2>1. /\ run' = [run EXCEPT ![r] =
             [@ EXCEPT !.pc = "melting", !.new = s.new, !.input = s.input]]
        /\ sent' = sent \cup {MeltReq(g, c, s.new, s.input)}
    BY <1>4 DEF Melt
  <2>2. s.new \in SUBSET Coins /\ s.input \in Nat
    BY <1>2 DEF Protected, TypeOK, Sessions
  <2>3. /\ run' \in [Runs -> RunLocals]
        /\ run'[r].pc = "melting" /\ Stays(r) /\ Others(r)
    <3>1. TypeOK /\ "melting" \in RunStates
      BY DEF Protected, RunStates
    <3> HIDE DEF s
    <3> QED
      BY <2>1, <2>2, <3>1, NewStep
  <2>4. MeltReq(g, c, s.new, s.input) \in Requests
    BY <1>2, <2>2 DEF MeltReq, Requests
  <2>5. TypeOK'
    BY <1>1, <2>1, <2>3, <2>4 DEF Protected, TypeOK, db
  <2>6. RunsOK'
    BY <1>1, <1>2, <2>3, RunMoves DEF Protected, db
  <2>7. CoinsOK'
    <3>1. \A e \in Coins : MeltReq(g, c, s.new, s.input).spend[e] =
                             IF e = c THEN s.input ELSE 0
      BY DEF MeltReq
    <3>2. coin[c].status = "Dormant"
      BY <1>2 DEF Protected, SessionsOK
    <3>3. ASSUME NEW e \in Coins, MeltReq(g, c, s.new, s.input).spend[e] > 0
          PROVE  coin[e].status = "Dormant"
      <4>1. e = c
        BY <3>1, <3>3
      <4> QED
        BY <3>2, <4>1
    <3> QED
      BY <1>1, <2>1, <3>3 DEF Protected, CoinsOK, Fresh, InWallet, db
  <2> QED
    BY <1>1, <2>5, <2>6, <2>7, NothingMoves, PaymentsKept, SessionsKept
    DEF Protected, db
<1> QED
  BY <1>3, <1>4

\* The answer to a melt changes nothing that Protected looks at.
LEMMA MeltSucceedsProtects ==
  ASSUME Protected, NEW r \in Runs, MeltSucceeds(r)
  PROVE  Protected'
<1> DEFINE g == run[r].group
           c == run[r].old
<1>1. /\ run[r].pc = "melting"
      /\ UNCHANGED <<coin, purchase, olds, finished, payer, chosen, sent, accepted,
                     crashes>>
  BY DEF MeltSucceeds
<1>2. g \in Groups /\ c \in Coins /\ session[g][c] # NoSession
  BY <1>1 DEF Protected, RunsOK, InWallet
<1>3. /\ run' \in [Runs -> RunLocals]
      /\ run'[r].pc = "reveal" /\ Stays(r) /\ Others(r)
  BY NewStep DEF MeltSucceeds, RunStates, Protected
<1>4. session[g][c] \in Sessions
  BY <1>2 DEF Protected, TypeOK
<1>5. /\ session' \in [Groups -> [Coins -> Sessions]]
      /\ \A h \in Groups, e \in Coins :
           /\ session'[h][e].new = session[h][e].new
           /\ session'[h][e].revealed = session[h][e].revealed
           /\ <<h, e>> # <<g, c>> => session'[h][e] = session[h][e]
  <2>1. [session[g][c] EXCEPT !.melted = TRUE] \in Sessions
    BY <1>4 DEF Sessions
  <2>2. CASE session[g][c].revealed
    BY <2>2 DEF MeltSucceeds, Protected, TypeOK
  <2>3. CASE ~session[g][c].revealed
    <3>1. session' = [session EXCEPT ![g][c] = [@ EXCEPT !.melted = TRUE]]
      BY <2>3 DEF MeltSucceeds
    <3> QED
      BY <1>2, <1>4, <2>1, <3>1 DEF Protected, TypeOK, Sessions
  <2> QED
    BY <2>2, <2>3
<1>6. session'[g][c] # NoSession
  <2>1. CASE session[g][c].revealed
    BY <1>2, <2>1 DEF MeltSucceeds
  <2>2. CASE ~session[g][c].revealed
    <3>1. session'[g][c].melted
      BY <1>2, <1>4, <2>2 DEF MeltSucceeds, Protected, TypeOK, Sessions
    <3> QED
      BY <3>1 DEF NoSession
  <2> QED
    BY <2>1, <2>2
<1>7. \A h \in Groups, e \in Coins : session'[h][e] # NoSession <=> session[h][e] # NoSession
  BY <1>2, <1>5, <1>6
<1>8. TypeOK'
  BY <1>1, <1>3, <1>5 DEF Protected, TypeOK
<1>9. RunsOK'
  <2>1. /\ run'[r].pc = "reveal" /\ run'[r].group = g /\ run'[r].old = c
        /\ session'[g][c] # NoSession
    BY <1>2, <1>3, <1>6 DEF Stays
  <2>2. \A q \in Runs \ {r} : run[q].pc # "idle" =>
          run[q].group \in Groups /\ run[q].old \in Coins
    BY DEF Protected, RunsOK, InWallet
  <2>3. InWallet' = InWallet
    BY <1>1 DEF InWallet
  <2> HIDE DEF g, c
  <2>4. ASSUME NEW q \in Runs \ {r}
        PROVE  /\ run'[q].pc \in {"melt", "melting", "reveal", "unblind"} =>
                    session'[run'[q].group][run'[q].old] # NoSession
               /\ run'[q].pc = "unblind" =>
                    run'[q].new = session'[run'[q].group][run'[q].old].new
    BY <1>3, <1>5, <1>7, <2>2 DEF Protected, RunsOK, Others
  <2>5. ASSUME NEW q \in Runs, run'[q].pc = "store"
        PROVE  /\ q # r /\ run[q].pc = "store"
               /\ run'[q].new = run[q].new
               /\ \A d \in run'[q].new :
                    /\ coin'[d].status = "absent"
                    /\ \A h \in Groups, e \in Coins : d \notin session'[h][e].new
    <3>1. q # r
      BY <2>1, <2>5
    <3>2. run[q].pc = "store" /\ run'[q].new = run[q].new
      BY <1>3, <2>5, <3>1 DEF Others
    <3> QED
      BY <1>1, <1>5, <3>1, <3>2 DEF Protected, RunsOK
  <2>6. \A q \in Runs : run'[q].pc # "idle" =>
          run'[q].group \in Groups /\ run'[q].old \in InWallet'
    BY <1>1, <1>3, <2>3 DEF Protected, RunsOK, Others, Stays
  <2>7. \A q, u \in Runs : q # u /\ run'[q].pc = "store" /\ run'[u].pc = "store" =>
          run'[q].new \cap run'[u].new = {}
    BY <2>5 DEF Protected, RunsOK
  <2> QED
    BY <1>2, <2>1, <2>4, <2>5, <2>6, <2>7, Zenon DEF RunsOK
<1>10. SessionsOK'
  BY <1>1, <1>5, <1>7 DEF Protected, SessionsOK, InWallet
<1> QED
  BY <1>1, <1>8, <1>9, <1>10, NothingMoves, PaymentsKept, CoinsKept DEF Protected

\* The coins that a run unblinds are those of the session it read.
LEMMA RevealProtects ==
  ASSUME Protected, NEW r \in Runs, Reveal(r)
  PROVE  Protected'
<1> DEFINE s == session[run[r].group][run[r].old]
<1>1. /\ run[r].pc = "reveal"
      /\ run' = [run EXCEPT ![r] = [@ EXCEPT !.pc = "unblind", !.new = s.new]]
      /\ UNCHANGED <<db, payer, chosen, sent, accepted, crashes>>
  BY DEF Reveal
<1>2. s # NoSession /\ s.new \in SUBSET Coins
  BY <1>1 DEF Protected, RunsOK, InWallet, TypeOK, Sessions
<1>3. /\ run' \in [Runs -> RunLocals]
      /\ run'[r].pc = "unblind" /\ run'[r].new = s.new /\ Stays(r) /\ Others(r)
  <2>1. TypeOK /\ "unblind" \in RunStates
    BY DEF Protected, RunStates
  <2> HIDE DEF s
  <2> QED
    BY <1>1, <1>2, <2>1, NewStep
<1>4. RunsOK'
  BY <1>1, <1>2, <1>3, RunMoves DEF Protected, db
<1> QED
  BY <1>1, <1>3, <1>4, RunStep

\* The coins that come into the wallet were absent, so nobody has seen them.
LEMMA RecordRevealProtects ==
  ASSUME Protected, NEW r \in Runs, RecordReveal(r)
  PROVE  Protected'
<1> DEFINE g == run[r].group
           c == run[r].old
           new == run[r].new
<1>1. /\ run[r].pc = "unblind" /\ ~session[g][c].revealed /\ Return(r)
      /\ UNCHANGED <<purchase, olds, payer, chosen, sent, accepted, crashes>>
  BY DEF RecordReveal
<1>2. /\ g \in Groups /\ c \in InWallet /\ c \in Coins
      /\ session[g][c] # NoSession /\ session[g][c].new = new
  BY <1>1 DEF Protected, RunsOK, InWallet
<1>3. session[g][c] \in Sessions /\ new \subseteq Coins
  BY <1>2 DEF Protected, TypeOK, Sessions
<1>4. \A d \in new : coin[d].status = "absent"
  BY <1>1, <1>2 DEF Protected, SessionsOK
<1>5. /\ \A d \in new : coin'[d] = [status |-> "Fresh", amount |-> Value[d]]
      /\ \A d \in Coins \ new : coin'[d] = coin[d]
  BY <1>3 DEF RecordReveal
<1>6. SpentStays /\ WalletStays
  BY <1>4, <1>5 DEF SpentStays, WalletStays, InWallet
<1>7. /\ session' \in [Groups -> [Coins -> Sessions]]
      /\ session'[g][c].new = new /\ session'[g][c].revealed
      /\ \A h \in Groups, e \in Coins : <<h, e>> # <<g, c>> =>
           session'[h][e] = session[h][e]
  <2>1. [session[g][c] EXCEPT !.revealed = TRUE] \in Sessions
    BY <1>3 DEF Sessions
  <2>2. session' = [session EXCEPT ![g][c] = [@ EXCEPT !.revealed = TRUE]]
    BY DEF RecordReveal
  <2> QED
    BY <1>2, <1>3, <2>1, <2>2 DEF Protected, TypeOK, Sessions
<1>8. session'[g][c] # NoSession
  BY <1>7 DEF NoSession
<1>9. run' \in [Runs -> RunLocals] /\ run'[r].pc = "idle" /\ Others(r)
  BY <1>1, EndStep DEF Protected
<1>10. TypeOK'
  <2>1. coin' \in [Coins -> CoinRecords]
    <3>1. \A d \in new : coin'[d] \in CoinRecords
      <4>1. \A d \in new : Value[d] \in Nat
        BY <1>3, CoinsAssumption
      <4>2. \A n \in Nat : [status |-> "Fresh", amount |-> n] \in CoinRecords
        BY DEF CoinRecords
      <4> QED
        BY <1>5, <4>1, <4>2
    <3>2. \A d \in Coins \ new : coin'[d] \in CoinRecords
      BY <1>5 DEF Protected, TypeOK
    <3>3. coin' = [d \in Coins |-> coin'[d]]
      BY DEF RecordReveal
    <3> QED
      BY <3>1, <3>2, <3>3
  <2>2. finished' \in [Groups -> SUBSET Coins]
    BY <1>2 DEF RecordReveal, Protected, TypeOK
  <2> QED
    BY <1>1, <1>7, <1>9, <2>1, <2>2 DEF Protected, TypeOK
<1>11. RunsOK'
  <2>1. \A h \in Groups, e \in Coins :
          /\ session'[h][e].new = session[h][e].new
          /\ session[h][e] # NoSession => session'[h][e] # NoSession
    BY <1>2, <1>7, <1>8
  <2>2. \A q \in Runs : /\ run[q].new \subseteq Coins
                        /\ run[q].pc = "store" => run[q].new \cap new = {}
    BY <1>2 DEF Protected, RunsOK, TypeOK, RunLocals
  <2> QED
    BY <1>5, <1>6, <1>9, <2>1, <2>2 DEF Protected, RunsOK, Others, WalletStays, InWallet
<1>12. SessionsOK'
  <2>1. \A h \in Groups : olds'[h] \subseteq InWallet'
    BY <1>1, <1>6 DEF Protected, SessionsOK, WalletStays
  <2>2. ASSUME NEW h \in Groups, NEW e \in Coins
        PROVE  /\ session'[h][e] # NoSession => coin'[e].status = "Dormant"
               /\ ~session'[h][e].revealed =>
                    \A d \in session'[h][e].new : coin'[d].status = "absent"
    <3>1. CASE <<h, e>> = <<g, c>>
      BY <1>2, <1>6, <1>7, <3>1 DEF Protected, SessionsOK, SpentStays
    <3>2. CASE <<h, e>> # <<g, c>>
      <4>1. session'[h][e] = session[h][e] /\ session[h][e].new \cap new = {}
        BY <1>2, <1>7, <3>2 DEF Protected, SessionsOK
      <4>2. session[h][e].new \subseteq Coins
        BY DEF Protected, TypeOK, Sessions
      <4> QED
        BY <1>5, <1>6, <4>1, <4>2 DEF Protected, SessionsOK, SpentStays
    <3> QED
      BY <3>1, <3>2
  <2>3. \A h \in Groups, e \in Coins : session'[h][e].new = session[h][e].new
    BY <1>2, <1>7
  <2> QED
    BY <2>1, <2>2, <2>3 DEF Protected, SessionsOK
<1>13. CoinsOK'
  <2>1. ASSUME NEW d \in new
        PROVE  coin'[d].status = "Fresh" /\ coin'[d].amount = Value[d]
    <3>1. coin'[d] = [status |-> "Fresh", amount |-> Value[d]]
      BY <1>5
    <3> QED
      BY <3>1
  <2>2. \A d \in Coins : coin'[d].status = "Fresh" => coin'[d].amount = Value[d]
    BY <1>5, <2>1 DEF Protected, CoinsOK, Fresh
  <2>3. \A d \in Coins : coin'[d].status = "absent" => coin'[d].amount = 0
    BY <1>5, <2>1 DEF Protected, CoinsOK, InWallet
  <2>4. \A q \in sent, d \in Coins : q.spend[d] > 0 => coin'[d].status = "Dormant"
    BY <1>6 DEF Protected, CoinsOK, SpentStays
  <2> QED
    BY <1>1, <2>2, <2>3, <2>4 DEF CoinsOK, Fresh, InWallet
<1> QED
  BY <1>1, <1>6, <1>10, <1>11, <1>12, <1>13, PaymentsKept DEF Protected

-----------------------------------------------------------------------------
(* The environment *)

\* The exchange's knowledge is not the wallet's.
LEMMA AcceptProtects ==
  ASSUME Protected, NEW q \in sent, Accept(q)
  PROVE  Protected'
<1>1. /\ accepted' = accepted \cup {q}
      /\ UNCHANGED <<db, payer, chosen, run, sent, crashes>>
  BY DEF Accept
<1>2. TypeOK'
  BY <1>1 DEF Protected, TypeOK, db
<1> QED
  BY <1>1, <1>2, NothingMoves, PaymentsKept, SessionsKept, RunsKept, CoinsKept
  DEF Protected, db

\* A restart only forgets.
LEMMA CrashProtects ==
  ASSUME Protected, Crash
  PROVE  Protected'
<1>1. /\ \A r \in Runs : run'[r].pc = "idle"
      /\ run' \in [Runs -> RunLocals]
  BY NoRunLocals DEF Crash, NoRun
<1>2. /\ payer' \in [Payers -> PayerLocals]
      /\ \A x \in Payers : payer'[x].pc \in {"idle", "done"}
      /\ \A k \in Calls : payer'[k].pc = "idle" => payer[k].pc = "idle"
  BY DEF Crash, Protected, TypeOK, Payers, PayerLocals
<1>3. UNCHANGED <<coin, purchase, olds, session, finished, chosen, sent, accepted>>
  BY DEF Crash, db
<1>4. TypeOK'
  BY <1>1, <1>2, <1>3, CrashAssumption DEF Crash, Protected, TypeOK
<1>5. PayersOK' /\ ReqsOK'
  BY <1>2, <1>3 DEF Protected, PayersOK, ReqsOK, InUse, Payers
<1>6. RunsOK'
  BY <1>1 DEF RunsOK
<1> QED
  BY <1>3, <1>4, <1>5, <1>6, NothingMoves, SessionsKept, CoinsKept DEF Protected

-----------------------------------------------------------------------------
(* The theorems *)

\* A wallet with nothing but the coins it withdrew is protected.
LEMMA InitProtected == Init => Protected
<1> SUFFICES ASSUME Init PROVE Protected
  OBVIOUS
<1>1. TypeOK
  <2>1. NoSession \in Sessions /\ NoPurchase \in PurchaseRecords
    BY DEF NoSession, Sessions, NoPurchase, PurchaseRecords
  <2> QED
    BY <2>1, NoRunLocals, CoinsAssumption, CrashAssumption
    DEF Init, TypeOK, CoinRecords, PayerLocals
<1>2. PayersOK /\ ReqsOK
  BY NamesAssumption DEF Init, PayersOK, ReqsOK, InUse, NoPurchase, Payers
<1>3. RunsOK
  BY DEF Init, RunsOK, NoRun
<1>4. SessionsOK
  BY DEF Init, SessionsOK, NoSession
<1>5. CoinsOK
  BY DEF Init, CoinsOK, Fresh, InWallet
<1> QED
  BY <1>1, <1>2, <1>3, <1>4, <1>5 DEF Protected

\* Every step, of whoever, keeps the wallet protected.
LEMMA Inductive == Protected /\ [Next]_vars => Protected'
<1> SUFFICES ASSUME Protected, [Next]_vars PROVE Protected'
  OBVIOUS
<1>1. ASSUME NEW k \in Calls, ConfirmPay(k) PROVE Protected'
  BY <1>1, SelectCoinsProtects, InsufficientBalanceProtects, RecordConfirmPayProtects
  DEF ConfirmPay
<1>2. ASSUME NEW x \in Payers, Submit(x) PROVE Protected'
  BY <1>2, SubmitPayProtects, PaySucceedsProtects, PayFailsProtects DEF Submit
<1>3. ASSUME NEW r \in Runs, RefreshSession(r) PROVE Protected'
  <2>1. ASSUME CreateFails(r) \/ MeltFails(r) \/ RevealFails(r) \/ AlreadyRevealed(r)
        PROVE  Protected'
    BY <2>1, EndProtects DEF CreateFails, MeltFails, RevealFails, AlreadyRevealed
  <2> QED
    BY <1>3, <2>1, ReadCoinToRefreshProtects, MarkTooSmallProtects,
       StoreSessionProtects, DropSessionProtects, CheckSessionProtects, MeltProtects,
       MeltSucceedsProtects, RevealProtects, RecordRevealProtects
    DEF RefreshSession
<1>4. CASE UNCHANGED vars
  BY <1>4, NothingMoves, PaymentsKept, SessionsKept, RunsKept, CoinsKept
  DEF vars, Protected, TypeOK
<1> QED
  BY <1>1, <1>2, <1>3, <1>4, RefreshByUserProtects, ProcessRefreshGroupProtects,
     AcceptProtects, CrashProtects
  DEF Next, Rest

\* The invariant the other theorems follow from.
THEOREM AlwaysProtected == Spec => []Protected
  BY InitProtected, Inductive, PTL DEF Spec

\* The records and the locals stay of their types; in particular no coin's
\* amount is ever negative, whatever is taken off it.
THEOREM TypeCorrect == Spec => []TypeOK
<1>1. Protected => TypeOK
  BY DEF Protected
<1> QED
  BY <1>1, AlwaysProtected, PTL

\* A fresh coin was never shown to anybody and has its whole value.
THEOREM Untouched == Spec => []FreshNeverShown
<1>1. Protected => FreshNeverShown
  <2> SUFFICES ASSUME Protected, NEW c \in Fresh PROVE
         coin[c].amount = Value[c] /\ \A q \in sent : q.spend[c] = 0
    BY DEF FreshNeverShown
  <2>1. c \in Coins /\ coin[c].status = "Fresh"
    BY DEF Fresh
  <2>2. \A q \in sent : q.spend[c] \in Nat
    BY <2>1 DEF Protected, TypeOK, Requests
  <2> QED
    BY <2>1, <2>2 DEF Protected, CoinsOK
<1> QED
  BY <1>1, AlwaysProtected, PTL

-----------------------------------------------------------------------------
(* What the database says was given away                                   *)

\* A call that signs has chosen a coin, a payReq that is in use was recorded,
\* and a call is recorded once.
CallsOK ==
  \A k \in Calls :
    /\ payer[k].pc = "sign" => \E c \in Coins : chosen[k][c] > 0
    /\ InUse(k) => Recorded(k)
    /\ Recorded(k) => payer[k].pc \notin {"idle", "sign"}

\* What is left of a coin's value is on it.
Left(c) == IF coin[c].status = "absent" THEN 0 ELSE Value[c]
Balanced ==
  /\ IsFiniteSet(Commitments)
  /\ \A c \in Coins : coin[c].amount + Exposure(c, Commitments) = Left(c)

Committed == CallsOK /\ SentIsCommitted /\ Balanced

\* A request more is what it spends more.
LEMMA ExposureGrows ==
  ASSUME NEW R, IsFiniteSet(R), NEW q, q \notin R, NEW c,
         \A r \in R \cup {q} : r.spend[c] \in Nat
  PROVE  /\ IsFiniteSet(R \cup {q})
         /\ Exposure(c, R \cup {q}) = q.spend[c] + Exposure(c, R)
  <1>. DEFINE f == [r \in R \cup {q} |-> r.spend[c]]
              g == [r \in R |-> r.spend[c]]
  <1>1. NaturalOn(f, R \cup {q}) /\ NaturalOn(g, R) /\ \A r \in R : f[r] = g[r]
    BY DEF NaturalOn
  <1>2. f[q] = q.spend[c]
    OBVIOUS
  <1>3. Exposure(c, R \cup {q}) = Sum(f, R \cup {q}) /\ Exposure(c, R) = Sum(g, R)
    BY DEF Exposure
  <1>. HIDE DEF f, g
  <1>4. Sum(f, R \cup {q}) = f[q] + Sum(f, R)
    BY <1>1, SumWith
  <1>5. Sum(f, R) = Sum(g, R)
    BY <1>1, SumsAgree
  <1>6. IsFiniteSet(R \cup {q})
    BY FS_AddElement
  <1>. QED
    BY <1>2, <1>3, <1>4, <1>5, <1>6

\* What a commitment spends is a number.
LEMMA CommitmentsSpendNaturals ==
  ASSUME TypeOK, NEW q \in Commitments, NEW c \in Coins
  PROVE  q.spend[c] \in Nat
  <1>1. ASSUME NEW k \in Calls
        PROVE  PayReq(k).spend[c] \in Nat
    BY DEF PayReq, TypeOK
  <1>2. ASSUME NEW g \in Groups, NEW d \in Coins
        PROVE  MeltReq(g, d, session[g][d].new, session[g][d].input).spend[c] \in Nat
    <2>1. session[g][d].input \in Nat
      BY DEF TypeOK, Sessions
    <2>. QED
      BY <2>1 DEF MeltReq
  <1>3. \/ \E k \in Calls : q = PayReq(k)
        \/ \E g \in Groups, d \in Coins :
             q = MeltReq(g, d, session[g][d].new, session[g][d].input)
    BY DEF Commitments
  <1>. QED
    BY <1>1, <1>2, <1>3

\* The commitments stay what they are when no payReq is recorded and no session
\* stored or replaced.
SamePayments == \A k \in Calls : /\ Recorded(k)' <=> Recorded(k)
                                 /\ Recorded(k) => chosen'[k] = chosen[k]
SameSessions == \A g \in Groups, c \in Coins :
  /\ session'[g][c] # NoSession <=> session[g][c] # NoSession
  /\ session'[g][c].new = session[g][c].new /\ session'[g][c].input = session[g][c].input

LEMMA CommitmentsStay ==
  ASSUME SamePayments, SameSessions
  PROVE  Commitments' = Commitments
  <1>. DEFINE Melted(g, c) == MeltReq(g, c, session[g][c].new, session[g][c].input)
  <1>1. \A k \in Calls : Recorded(k) => PayReq(k)' = PayReq(k)
    BY DEF SamePayments, PayReq
  <1>2. {PayReq(k) : k \in {j \in Calls : Recorded(j)}}'
          = {PayReq(k) : k \in {j \in Calls : Recorded(j)}}
    BY <1>1 DEF SamePayments
  <1>3. \A g \in Groups, c \in Coins : Melted(g, c)' = Melted(g, c)
    BY DEF SameSessions, MeltReq
  <1>4. {s \in Groups \X Coins : session[s[1]][s[2]] # NoSession}'
          = {s \in Groups \X Coins : session[s[1]][s[2]] # NoSession}
    BY DEF SameSessions
  <1>5. {Melted(s[1], s[2]) : s \in {t \in Groups \X Coins : session[t[1]][t[2]] # NoSession}}'
          = {Melted(s[1], s[2]) : s \in {t \in Groups \X Coins : session[t[1]][t[2]] # NoSession}}
    BY <1>3, <1>4
  <1>. QED
    BY <1>2, <1>5 DEF Commitments

\* What is left to show of a step that moves no value.
LEMMA QuietStep ==
  ASSUME Committed, UNCHANGED coin, SamePayments, SameSessions, CallsOK',
         sent' \subseteq sent \cup Commitments
  PROVE  Committed'
  <1>1. Commitments' = Commitments
    BY CommitmentsStay
  <1>2. SentIsCommitted'
    BY <1>1 DEF Committed, SentIsCommitted
  <1>3. Balanced'
    BY <1>1 DEF Committed, Balanced, Left, Exposure
  <1>. QED
    BY <1>2, <1>3 DEF Committed

\* Many steps leave the payments alone, too.
LEMMA QuieterStep ==
  ASSUME Committed, UNCHANGED <<coin, purchase, olds, payer, chosen, sent>>, SameSessions
  PROVE  Committed'
  <1>1. SamePayments /\ CallsOK'
    BY DEF Committed, CallsOK, SamePayments, Recorded, InUse
  <1>. QED
    BY <1>1, QuietStep

LEMMA SessionsAreTheSame ==
  ASSUME UNCHANGED session
  PROVE  SameSessions
  BY DEF SameSessions

-----------------------------------------------------------------------------
(* confirmPay and submitPay *)

LEMMA InitCommitted ==
  ASSUME Init
  PROVE  Committed
  <1>1. /\ \A k \in Calls : ~Recorded(k)
        /\ \A g \in Groups, c \in Coins : session[g][c] = NoSession
    BY DEF Init, Recorded, Groups
  <1>2. Commitments = {}
    BY <1>1 DEF Commitments
  <1>3. \A c \in Coins : Exposure(c, {}) = 0
    BY SumOfNone DEF Exposure
  <1>4. Balanced
    <2>1. \A c \in Coins : coin[c].amount = Left(c) /\ coin[c].amount \in Nat
      BY CoinsAssumption DEF Init, Left
    <2>. QED
      BY <1>2, <1>3, <2>1, FS_EmptySet DEF Balanced
  <1>5. CallsOK
    BY <1>1, NamesAssumption DEF Init, CallsOK, InUse, NoPurchase, Payers
  <1>. QED
    BY <1>4, <1>5 DEF Init, Committed, SentIsCommitted

\* A selection that adds up to a price has a coin in it.
LEMMA SelectionIsSomething ==
  ASSUME NEW F, F \subseteq Coins, NEW n \in Nat \ {0}, NEW f \in [F -> 0..n],
         IsSelection(f, n)
  PROVE  \E c \in F : f[c] > 0
  <1>1. SUFFICES ASSUME \A c \in F : f[c] = 0
                 PROVE  FALSE
    OBVIOUS
  <1>2. IsFiniteSet(F)
    BY CoinsAssumption, FS_Subset
  <1>3. Sum(f, F) = 0
    BY <1>1, <1>2, SumOfZeros
  <1>4. Sum(f, F) = n
    BY DEF IsSelection
  <1>. QED
    BY <1>3, <1>4

LEMMA SelectCoinsCommitted ==
  ASSUME Protected, Committed, NEW k \in Calls, SelectCoins(k)
  PROVE  Committed'
  <1>1. PICK p \in Proposals : \E f \in [Fresh -> 0..Price[p]] :
          /\ IsSelection(f, Price[p])
          /\ payer' = [payer EXCEPT ![k] = [@ EXCEPT !.pc = "sign", !.proposal = p]]
          /\ chosen' = [chosen EXCEPT ![k] =
               [c \in Coins |-> IF c \in Fresh THEN f[c] ELSE 0]]
    BY DEF SelectCoins
  <1>2. PICK f \in [Fresh -> 0..Price[p]] :
          /\ IsSelection(f, Price[p])
          /\ payer' = [payer EXCEPT ![k] = [@ EXCEPT !.pc = "sign", !.proposal = p]]
          /\ chosen' = [chosen EXCEPT ![k] =
               [c \in Coins |-> IF c \in Fresh THEN f[c] ELSE 0]]
    BY <1>1
  <1>3. /\ UNCHANGED <<coin, purchase, olds, session, sent>>
        /\ payer[k].pc = "idle"
    BY DEF SelectCoins, db
  <1>4. /\ chosen \in [Calls -> [Coins -> Nat]] /\ payer \in [Payers -> PayerLocals]
        /\ k \in Payers /\ Fresh \subseteq Coins
    BY DEF Protected, TypeOK, Payers, Fresh
  <1>5. \E c \in Fresh : f[c] > 0
    BY <1>2, <1>4, CoinsAssumption, SelectionIsSomething
  <1>6. \E c \in Coins : chosen'[k][c] > 0
    BY <1>2, <1>4, <1>5
  <1>7. ~Recorded(k)
    BY <1>3 DEF Committed, CallsOK
  <1>8. SamePayments /\ SameSessions
    BY <1>2, <1>3, <1>4, <1>7 DEF SamePayments, SameSessions, Recorded
  <1>9. /\ payer'[k].pc = "sign"
        /\ \A x \in Payers \ {k} : payer'[x] = payer[x]
        /\ \A j \in Calls \ {k} : chosen'[j] = chosen[j]
    BY <1>2, <1>4 DEF PayerLocals
  <1>10. CallsOK'
    BY <1>3, <1>6, <1>7, <1>9 DEF Committed, CallsOK, InUse, Recorded, Payers
  <1>. QED
    BY <1>3, <1>8, <1>10, QuietStep

LEMMA CallEndsCommitted ==
  ASSUME Protected, Committed, NEW k \in Calls, InsufficientBalance(k) \/ RecordAborts(k)
  PROVE  Committed'
  <1>1. /\ UNCHANGED <<coin, purchase, olds, session, chosen, sent>>
        /\ payer' = [payer EXCEPT ![k].pc = "done"]
    BY DEF InsufficientBalance, RecordAborts, db
  <1>2. payer \in [Payers -> PayerLocals] /\ k \in Payers
    BY DEF Protected, TypeOK, Payers
  <1>3. SamePayments /\ SameSessions
    BY <1>1 DEF SamePayments, SameSessions, Recorded
  <1>4. /\ payer'[k].pc = "done"
        /\ \A x \in Payers \ {k} : payer'[x] = payer[x]
    BY <1>1, <1>2 DEF PayerLocals
  <1>5. CallsOK'
    BY <1>1, <1>4 DEF Committed, CallsOK, InUse, Recorded, Payers
  <1>. QED
    BY <1>1, <1>3, <1>5, QuietStep

\* Whoever submits a payReq has it from the database.
LEMMA SubmitPayCommitted ==
  ASSUME Protected, Committed, NEW x \in Payers, NEW p \in Proposals, SubmitPay(x, p)
  PROVE  Committed'
  <1>. DEFINE k == purchase[p].req
  <1>1. /\ UNCHANGED <<coin, purchase, olds, session, chosen>>
        /\ payer' = [payer EXCEPT ![x] = [pc |-> "paying", proposal |-> p, req |-> k]]
        /\ sent' = sent \cup {PayReq(k)}
    BY DEF SubmitPay, db
  <1>2. k \in Calls /\ InUse(k)
    <2>1. k # None
      BY DEF SubmitPay, Protected, PayersOK
    <2>. QED
      BY <2>1 DEF Protected, TypeOK, PurchaseRecords, InUse
  <1>3. Recorded(k) /\ PayReq(k) \in Commitments
    BY <1>2 DEF Committed, CallsOK, Commitments
  <1>. HIDE DEF k
  <1>4. SamePayments /\ SameSessions
    BY <1>1 DEF SamePayments, SameSessions, Recorded
  <1>5. /\ payer'[x].pc = "paying" /\ payer'[x].req = k
        /\ \A y \in Payers \ {x} : payer'[y] = payer[y]
    BY <1>1 DEF Protected, TypeOK
  <1>6. CallsOK'
    BY <1>1, <1>3, <1>5 DEF Committed, CallsOK, InUse, Recorded, Payers
  <1>. QED
    BY <1>1, <1>3, <1>4, <1>6, QuietStep

LEMMA PayEndsCommitted ==
  ASSUME Protected, Committed, NEW x \in Payers, PaySucceeds(x) \/ PayFails(x)
  PROVE  Committed'
  <1>1. /\ UNCHANGED <<coin, olds, session, chosen, sent>>
        /\ payer' = [payer EXCEPT ![x].pc = AfterPay(x)]
        /\ payer[x].pc = "paying"
        /\ \/ UNCHANGED purchase
           \/ purchase' = [purchase EXCEPT ![payer[x].proposal] =
                             [req |-> payer[x].req, pending |-> FALSE]]
    BY DEF PaySucceeds, PayFails, db
  <1>2. /\ payer \in [Payers -> PayerLocals]
        /\ purchase \in [Proposals -> PurchaseRecords]
    BY DEF Protected, TypeOK
  <1>3. SamePayments /\ SameSessions
    BY <1>1 DEF SamePayments, SameSessions, Recorded
  <1>4. /\ payer'[x].pc = AfterPay(x) /\ payer'[x].pc # "paying"
        /\ \A y \in Payers \ {x} : payer'[y] = payer[y]
    BY <1>1, <1>2 DEF PayerLocals, AfterPay
  <1>5. \A k \in Calls : InUse(k)' => InUse(k)
    <2>1. ASSUME NEW k \in Calls, NEW q \in Proposals, purchase'[q].req = k
          PROVE  purchase[q].req = k \/ payer[x].req = k
      BY <1>1, <1>2, <2>1
    <2>. QED
      BY <1>1, <1>4, <2>1 DEF InUse
  <1>6. \A k \in Calls : payer'[k].pc = payer[k].pc \/ payer'[k].pc = "done"
    BY <1>4, NamesAssumption DEF AfterPay, Payers
  <1>7. CallsOK'
    BY <1>1, <1>5, <1>6 DEF Committed, CallsOK, Recorded
  <1>. QED
    BY <1>1, <1>3, <1>7, QuietStep

\* A step that stores a request takes what it spends off its coins.
Takes(q) == \A c \in Coins :
  /\ q.spend[c] \in Nat
  /\ coin'[c].amount + q.spend[c] = coin[c].amount
  /\ coin'[c].status = "absent" <=> coin[c].status = "absent"

LEMMA StoringStep ==
  ASSUME TypeOK, Committed, NEW q, q \notin Commitments,
         Commitments' = Commitments \cup {q}, Takes(q), TypeOK', CallsOK',
         UNCHANGED sent
  PROVE  Committed'
  <1>1. IsFiniteSet(Commitments)
    BY DEF Committed, Balanced
  <1>2. ASSUME NEW c \in Coins
        PROVE  coin'[c].amount + Exposure(c, Commitments') = Left(c)'
    <2>1. \A r \in Commitments : r.spend[c] \in Nat
      BY CommitmentsSpendNaturals
    <2>2. \A r \in Commitments \cup {q} : r.spend[c] \in Nat
      BY <2>1 DEF Takes
    <2>3. Exposure(c, Commitments') = q.spend[c] + Exposure(c, Commitments)
      BY <1>1, <2>2, ExposureGrows
    <2>4. Exposure(c, Commitments) \in Nat
      <3>1. NaturalOn([r \in Commitments |-> r.spend[c]], Commitments)
        BY <2>1 DEF NaturalOn
      <3>. QED
        BY <1>1, <3>1, SumIsNatural DEF Exposure
    <2>5. coin[c].amount \in Nat /\ coin'[c].amount \in Nat
      BY DEF TypeOK, CoinRecords
    <2>6. coin[c].amount + Exposure(c, Commitments) = Left(c)
      BY DEF Committed, Balanced
    <2>7. Left(c)' = Left(c)
      BY DEF Takes, Left
    <2>8. q.spend[c] \in Nat /\ coin'[c].amount + q.spend[c] = coin[c].amount
      BY DEF Takes
    <2>. QED
      BY <2>3, <2>4, <2>5, <2>6, <2>7, <2>8
  <1>3. IsFiniteSet(Commitments')
    BY <1>1, FS_AddElement
  <1>4. SentIsCommitted'
    BY DEF Committed, SentIsCommitted
  <1>. QED
    BY <1>2, <1>3, <1>4 DEF Committed, Balanced

\* recordConfirmPay takes off the coins what its payReq spends.
LEMMA RecordConfirmPayCommitted ==
  ASSUME Protected, Committed, NEW k \in Calls, RecordConfirmPay(k), TypeOK'
  PROVE  Committed'
  <1>. DEFINE used == {c \in Coins : chosen[k][c] > 0}
  <1>1. /\ payer[k].pc = "sign"
        /\ \A c \in used : ~Saturated(c, chosen[k][c])
        /\ purchase' = [purchase EXCEPT ![payer[k].proposal] = [req |-> k, pending |-> TRUE]]
        /\ coin' = [c \in Coins |->
             IF c \in used THEN Taken(c, chosen[k][c]) ELSE coin[c]]
        /\ olds' = [olds EXCEPT ![k] = used]
        /\ payer' = [payer EXCEPT ![k].pc = "recorded"]
        /\ UNCHANGED <<session, chosen, sent>>
    BY DEF RecordConfirmPay
  <1>2. TypeOK /\ k \in Payers /\ k \in Groups
    BY DEF Protected, Payers, Groups
  <1>3. used # {} /\ ~Recorded(k)
    BY <1>1 DEF Committed, CallsOK
  <1>4. /\ payer'[k].pc = "recorded" /\ olds'[k] = used
        /\ \A x \in Payers \ {k} : payer'[x] = payer[x]
        /\ \A j \in Calls \ {k} : olds'[j] = olds[j]
    BY <1>1, <1>2 DEF TypeOK, PayerLocals, Groups
  <1>5. CallsOK'
    <2>1. \A j \in Calls \ {k} : InUse(j)' => InUse(j)
      BY <1>1, <1>2, <1>4 DEF InUse, TypeOK
    <2>. QED
      BY <1>1, <1>3, <1>4, <2>1 DEF Committed, CallsOK, Recorded, Payers
  <1>. HIDE DEF used
  <1>6. Commitments' = Commitments \cup {PayReq(k)}
    <2>1. \A j \in Calls : Recorded(j)' <=> Recorded(j) \/ j = k
      BY <1>3, <1>4 DEF Recorded
    <2>2. \A j \in Calls : PayReq(j)' = PayReq(j)
      BY <1>1 DEF PayReq
    <2>3. {PayReq(j) : j \in {i \in Calls : Recorded(i)}}'
            = {PayReq(j) : j \in {i \in Calls : Recorded(i)}} \cup {PayReq(k)}
      BY <2>1, <2>2
    <2>. QED
      BY <1>1, <2>3 DEF Commitments
  <1>7. PayReq(k) \notin Commitments
    <2>1. \A j \in Calls : Recorded(j) => PayReq(k).by # PayReq(j).by
      BY <1>3 DEF PayReq
    <2>2. \A g \in Groups, c \in Coins :
            PayReq(k).by # MeltReq(g, c, session[g][c].new, session[g][c].input).by
      BY NamesAssumption DEF PayReq, MeltReq, Groups
    <2>. QED
      BY <2>1, <2>2 DEF Commitments
  <1>8. Takes(PayReq(k))
    <2>. SUFFICES ASSUME NEW c \in Coins
                  PROVE  /\ chosen[k][c] \in Nat
                         /\ coin'[c].amount + chosen[k][c] = coin[c].amount
                         /\ coin'[c].status = "absent" <=> coin[c].status = "absent"
      BY DEF Takes, PayReq
    <2>1. chosen[k][c] \in Nat /\ coin[c].amount \in Nat
      BY <1>2 DEF TypeOK, CoinRecords
    <2>2. CASE c \in used
      <3>1. /\ coin'[c] = Taken(c, chosen[k][c]) /\ chosen[k][c] > 0
            /\ chosen[k][c] <= coin[c].amount
        BY <1>1, <2>1, <2>2 DEF used, Saturated
      <3>2. coin[c].status # "absent"
        BY <2>1, <3>1 DEF Protected, CoinsOK, InWallet
      <3>. QED
        BY <2>1, <3>1, <3>2 DEF Taken
    <2>3. CASE c \notin used
      <3>1. coin'[c] = coin[c] /\ chosen[k][c] = 0
        BY <1>1, <2>1, <2>3 DEF used
      <3>. QED
        BY <2>1, <3>1
    <2>. QED
      BY <2>2, <2>3
  <1>. DEFINE q == PayReq(k)
  <1>9. q \notin Commitments /\ Commitments' = Commitments \cup {q} /\ Takes(q)
    BY <1>6, <1>7, <1>8
  <1>. HIDE DEF q
  <1>. QED
    BY <1>1, <1>2, <1>5, <1>9, StoringStep

-----------------------------------------------------------------------------
(* The refresh groups *)

\* A group that the user makes belongs to no payment.
LEMMA RefreshByUserCommitted ==
  ASSUME Protected, Committed, NEW m \in Refreshes, RefreshByUser(m)
  PROVE  Committed'
  <1>1. /\ UNCHANGED <<coin, purchase, session, payer, chosen, sent>>
        /\ \A g \in Groups \ {m} : olds'[g] = olds[g]
    BY DEF RefreshByUser, Protected, TypeOK
  <1>2. \A k \in Calls : Recorded(k)' <=> Recorded(k)
    BY <1>1, NamesAssumption DEF Recorded, Groups
  <1>3. SamePayments /\ SameSessions
    BY <1>1, <1>2 DEF SamePayments, SameSessions
  <1>4. CallsOK'
    BY <1>1, <1>2 DEF Committed, CallsOK, InUse
  <1>. QED
    BY <1>1, <1>3, <1>4, QuietStep

\* These steps of a run change neither a coin nor what a session spends.
LEMMA QuietRunCommitted ==
  ASSUME Committed, NEW r \in Runs,
         \/ ReadCoinToRefresh(r) \/ CreateFails(r) \/ MarkTooSmall(r) \/ DropSession(r)
         \/ CheckSession(r) \/ MeltFails(r) \/ Reveal(r) \/ RevealFails(r)
         \/ AlreadyRevealed(r)
  PROVE  Committed'
  <1>1. UNCHANGED <<coin, purchase, olds, session, payer, chosen, sent>>
    BY DEF ReadCoinToRefresh, CreateFails, MarkTooSmall, DropSession, CheckSession,
           MeltFails, Reveal, RevealFails, AlreadyRevealed, db
  <1>. QED
    BY <1>1, SessionsAreTheSame, QuieterStep

\* A commitment that is melted is that of the stored session.
LEMMA MeltCommitted ==
  ASSUME Protected, Committed, NEW r \in Runs, Melt(r)
  PROVE  Committed'
  <1>. DEFINE g == run[r].group
              c == run[r].old
              s == session[g][c]
  <1>1. /\ UNCHANGED <<coin, purchase, olds, session, payer, chosen>>
        /\ sent' \subseteq sent \cup {MeltReq(g, c, s.new, s.input)}
    BY DEF Melt, db
  <1>2. g \in Groups /\ c \in Coins /\ s # NoSession
    BY DEF Melt, Protected, RunsOK, InWallet
  <1>3. MeltReq(g, c, s.new, s.input) \in Commitments
    <2>1. <<g, c>> \in {t \in Groups \X Coins : session[t[1]][t[2]] # NoSession}
      BY <1>2
    <2>. QED
      BY <2>1 DEF Commitments
  <1>4. SamePayments /\ SameSessions /\ CallsOK'
    BY <1>1 DEF SamePayments, SameSessions, Recorded, Committed, CallsOK, InUse
  <1>. QED
    BY <1>1, <1>3, <1>4, QuietStep

\* What an answer to a melt changes of a session: it counts as melted.
LEMMA MeltedSession ==
  ASSUME Protected, NEW r \in Runs, MeltSucceeds(r)
  PROVE  /\ SameSessions
         /\ \A h \in Groups, e \in Coins :
              session'[h][e].revealed = session[h][e].revealed
  <1>. DEFINE g == run[r].group
              c == run[r].old
  <1>1. g \in Groups /\ c \in Coins /\ session[g][c] # NoSession
    BY DEF MeltSucceeds, Protected, RunsOK, InWallet
  <1>2. /\ session \in [Groups -> [Coins -> Sessions]]
        /\ session[g][c] \in Sessions
    BY <1>1 DEF Protected, TypeOK
  <1>3. CASE session[g][c].revealed
    BY <1>3 DEF MeltSucceeds, SameSessions
  <1>4. CASE ~session[g][c].revealed
    <2>1. session' = [session EXCEPT ![g][c] = [@ EXCEPT !.melted = TRUE]]
      BY <1>4 DEF MeltSucceeds
    <2>2. /\ session'[g][c] = [session[g][c] EXCEPT !.melted = TRUE]
          /\ \A h \in Groups, e \in Coins : <<h, e>> # <<g, c>> =>
               session'[h][e] = session[h][e]
      BY <1>1, <1>2, <2>1
    <2>3. /\ session'[g][c].new = session[g][c].new
          /\ session'[g][c].input = session[g][c].input
          /\ session'[g][c].revealed = session[g][c].revealed
          /\ session'[g][c].melted
      BY <1>2, <2>2 DEF Sessions
    <2>4. session'[g][c] # NoSession
      BY <2>3 DEF NoSession
    <2>. QED
      BY <1>1, <2>2, <2>3, <2>4 DEF SameSessions
  <1>. QED
    BY <1>3, <1>4

\* What a reveal changes of a session: it counts as revealed.
LEMMA RevealedSession ==
  ASSUME Protected, NEW r \in Runs, RecordReveal(r)
  PROVE  /\ run[r].group \in Groups /\ run[r].old \in Coins /\ SameSessions
         /\ session[run[r].group][run[r].old] # NoSession
         /\ session'[run[r].group][run[r].old].revealed
         /\ \A h \in Groups, e \in Coins : <<h, e>> # <<run[r].group, run[r].old>> =>
              session'[h][e] = session[h][e]
  <1>. DEFINE g == run[r].group
              c == run[r].old
  <1>1. session' = [session EXCEPT ![g][c] = [@ EXCEPT !.revealed = TRUE]]
    BY DEF RecordReveal
  <1>2. /\ TypeOK /\ g \in Groups /\ c \in Coins
        /\ session[g][c] # NoSession /\ session[g][c] \in Sessions
    BY DEF RecordReveal, Protected, RunsOK, InWallet, TypeOK
  <1>3. /\ session'[g][c] = [session[g][c] EXCEPT !.revealed = TRUE]
        /\ \A h \in Groups, e \in Coins : <<h, e>> # <<g, c>> =>
             session'[h][e] = session[h][e]
    BY <1>1, <1>2 DEF TypeOK
  <1>4. /\ session'[g][c].new = session[g][c].new
        /\ session'[g][c].input = session[g][c].input
        /\ session'[g][c].revealed
    BY <1>2, <1>3 DEF Sessions
  <1>5. session'[g][c] # NoSession
    BY <1>4 DEF NoSession
  <1>. QED
    BY <1>2, <1>3, <1>4, <1>5 DEF SameSessions

\* A session that was melted spends what it spent.
LEMMA MeltSucceedsCommitted ==
  ASSUME Protected, Committed, NEW r \in Runs, MeltSucceeds(r)
  PROVE  Committed'
  <1>1. UNCHANGED <<coin, purchase, olds, payer, chosen, sent>>
    BY DEF MeltSucceeds
  <1>. QED
    BY <1>1, MeltedSession, QuieterStep

\* A coin may become dormant or come into the wallet when no request changes.
LEMMA CoinStep ==
  ASSUME Committed, UNCHANGED sent, CallsOK', SamePayments, SameSessions,
         \A c \in Coins : coin'[c].amount - Left(c)' = coin[c].amount - Left(c),
         TypeOK, TypeOK'
  PROVE  Committed'
  <1>1. Commitments' = Commitments
    BY CommitmentsStay
  <1>2. SentIsCommitted'
    BY <1>1 DEF Committed, SentIsCommitted
  <1>3. ASSUME NEW c \in Coins
        PROVE  coin'[c].amount + Exposure(c, Commitments') = Left(c)'
    <2>1. Exposure(c, Commitments) \in Nat
      <3>1. NaturalOn([r \in Commitments |-> r.spend[c]], Commitments)
        BY CommitmentsSpendNaturals DEF NaturalOn
      <3>. QED
        BY <3>1, SumIsNatural DEF Exposure, Committed, Balanced
    <2>2. /\ coin[c].amount \in Nat /\ coin'[c].amount \in Nat
          /\ Left(c) \in Nat /\ Left(c)' \in Nat
      BY CoinsAssumption DEF TypeOK, CoinRecords, Left
    <2>3. coin[c].amount + Exposure(c, Commitments) = Left(c)
      BY DEF Committed, Balanced
    <2>. QED
      BY <1>1, <2>1, <2>2, <2>3
  <1>. QED
    BY <1>1, <1>2, <1>3 DEF Committed, Balanced

\* The transaction that stores a session takes its input off the coin.
LEMMA StoreSessionCommitted ==
  ASSUME Protected, Committed, NEW r \in Runs, StoreSession(r), TypeOK'
  PROVE  Committed'
  <1>. DEFINE g == run[r].group
              c == run[r].old
              n == run[r].input
              stored == [NoSession EXCEPT !.new = run[r].new, !.input = n]
  <1>1. /\ run[r].pc = "store" /\ ~Saturated(c, n) /\ session[g][c] = NoSession
        /\ session' = [session EXCEPT ![g][c] = stored]
        /\ coin' = [coin EXCEPT ![c] = Taken(c, n)]
        /\ UNCHANGED <<purchase, olds, payer, chosen, sent>>
    BY DEF StoreSession, MayStore
  <1>2. TypeOK /\ g \in Groups /\ c \in InWallet /\ c \in Coins /\ n \in Nat
    BY <1>1 DEF Protected, RunsOK, InWallet, TypeOK, RunLocals
  <1>3. /\ session'[g][c] = stored
        /\ \A h \in Groups, e \in Coins : <<h, e>> # <<g, c>> =>
             session'[h][e] = session[h][e]
    BY <1>1, <1>2 DEF TypeOK
  <1>4. /\ coin'[c].amount = coin[c].amount - n /\ n <= coin[c].amount
        /\ coin'[c].status = "Dormant" /\ coin[c].status # "absent"
        /\ coin[c].amount \in Nat
        /\ \A d \in Coins \ {c} : coin'[d] = coin[d]
    <2>1. coin'[c] = Taken(c, n) /\ \A d \in Coins \ {c} : coin'[d] = coin[d]
      BY <1>1, <1>2 DEF TypeOK
    <2>2. coin[c].amount \in Nat
      BY <1>2 DEF TypeOK, CoinRecords
    <2>. QED
      BY <1>1, <1>2, <2>1, <2>2 DEF Taken, Saturated, InWallet
  <1>5. SamePayments /\ CallsOK'
    BY <1>1 DEF SamePayments, Recorded, Committed, CallsOK, InUse
  <1>. DEFINE q == MeltReq(g, c, run[r].new, n)
  <1>6. stored.new = run[r].new /\ stored.input = n
    BY DEF NoSession
  <1>7. CASE stored = NoSession
    <2>1. n = 0
      BY <1>7, <1>6 DEF NoSession
    <2>2. SameSessions
      <3>. HIDE DEF g, c, stored
      <3>1. \A h \in Groups, e \in Coins : session'[h][e] = session[h][e]
        BY <1>1, <1>2, <1>3, <1>7
      <3>. QED
        BY <3>1 DEF SameSessions
    <2>3. \A d \in Coins : coin'[d].amount - Left(d)' = coin[d].amount - Left(d)
      BY <1>4, <2>1 DEF Left
    <2>. QED
      BY <1>1, <1>2, <1>5, <2>2, <2>3, CoinStep
  <1>8. CASE stored # NoSession
    <2>1. Commitments' = Commitments \cup {q}
      <3>. DEFINE Melted(h, e) == MeltReq(h, e, session[h][e].new, session[h][e].input)
                  Slots == {s \in Groups \X Coins : session[s[1]][s[2]] # NoSession}
      <3>1. Slots' = Slots \cup {<<g, c>>}
        BY <1>1, <1>2, <1>3, <1>8
      <3>2. \A s \in Slots : Melted(s[1], s[2])' = Melted(s[1], s[2])
        <4>1. ASSUME NEW s \in Slots
              PROVE  session'[s[1]][s[2]] = session[s[1]][s[2]]
          BY <1>1, <1>3
        <4>. QED
          BY <4>1 DEF MeltReq
      <3>3. \A s \in Slots' : s = <<g, c>> => Melted(s[1], s[2])' = q
        <4>. SUFFICES ASSUME NEW s \in Slots', s = <<g, c>>
                      PROVE  Melted(s[1], s[2])' = q
          OBVIOUS
        <4>1. s[1] = g /\ s[2] = c
          OBVIOUS
        <4>2. session'[s[1]][s[2]] = stored
          BY <1>3, <4>1
        <4>. HIDE DEF stored, g, c
        <4>. QED
          BY <1>6, <4>1, <4>2 DEF MeltReq
      <3>4. {Melted(s[1], s[2]) : s \in Slots}' = {Melted(s[1], s[2]) : s \in Slots} \cup {q}
        <4>. HIDE DEF Melted, Slots, q, g, c
        <4>1. <<g, c>> \in Slots' /\ Slots \subseteq Slots'
          BY <3>1
        <4>. QED
          BY <3>1, <3>2, <3>3, <4>1
      <3>5. {PayReq(k) : k \in {j \in Calls : Recorded(j)}}'
              = {PayReq(k) : k \in {j \in Calls : Recorded(j)}}
        BY <1>1 DEF Recorded, PayReq
      <3>. QED
        BY <3>4, <3>5 DEF Commitments
    <2>2. q \notin Commitments
      <3>1. \A k \in Calls : PayReq(k).by # q.by
        BY <1>2, NamesAssumption DEF PayReq, MeltReq, Groups
      <3>2. \A h \in Groups, e \in Coins : <<h, e>> # <<g, c>> =>
              MeltReq(h, e, session[h][e].new, session[h][e].input).by # q.by
        BY DEF MeltReq
      <3>. QED
        BY <1>1, <3>1, <3>2 DEF Commitments
    <2>3. Takes(q)
      <3>1. \A d \in Coins : q.spend[d] = IF d = c THEN n ELSE 0
        BY DEF MeltReq
      <3>2. \A d \in Coins : coin[d].amount \in Nat
        BY <1>2 DEF TypeOK, CoinRecords
      <3>. HIDE DEF q
      <3>. QED
        BY <1>2, <1>4, <3>1, <3>2 DEF Takes
    <2>. HIDE DEF q
    <2>. QED
      BY <1>1, <1>2, <1>5, <2>1, <2>2, <2>3, StoringStep
  <1>. QED
    BY <1>7, <1>8

\* The coins that a reveal adds come with their whole value, which nothing has
\* spent from.
LEMMA RecordRevealCommitted ==
  ASSUME Protected, Committed, NEW r \in Runs, RecordReveal(r), TypeOK'
  PROVE  Committed'
  <1>. DEFINE g == run[r].group
              c == run[r].old
  <1>1. run[r].pc = "unblind" /\ UNCHANGED <<purchase, olds, payer, chosen, sent>>
    BY DEF RecordReveal
  <1>2. /\ TypeOK /\ g \in Groups /\ c \in Coins /\ ~session[g][c].revealed
        /\ session[g][c] # NoSession /\ run[r].new = session[g][c].new
    BY <1>1, RevealedSession DEF RecordReveal, Protected, RunsOK
  <1>3. SameSessions
    BY RevealedSession
  <1>4. SamePayments /\ CallsOK'
    BY <1>1 DEF SamePayments, Recorded, Committed, CallsOK, InUse
  <1>5. ASSUME NEW d \in Coins
        PROVE  coin'[d].amount - Left(d)' = coin[d].amount - Left(d)
    <2>1. CASE d \in run[r].new
      <3>1. coin[d].status = "absent" /\ coin[d].amount = 0
        BY <1>1, <1>2, <2>1 DEF Protected, SessionsOK, CoinsOK, InWallet
      <3>2. coin'[d] = [status |-> "Fresh", amount |-> Value[d]]
        BY <2>1 DEF RecordReveal
      <3>3. coin'[d].amount = Value[d] /\ coin'[d].status # "absent"
        BY <3>2
      <3>4. Value[d] \in Nat
        BY CoinsAssumption
      <3>. QED
        BY <3>1, <3>3, <3>4 DEF Left
    <2>2. CASE d \notin run[r].new
      <3>1. coin'[d] = coin[d]
        BY <2>2 DEF RecordReveal
      <3>. QED
        BY <3>1 DEF Left
    <2>. QED
      BY <2>1, <2>2
  <1>. QED
    BY <1>1, <1>2, <1>3, <1>4, <1>5, CoinStep

-----------------------------------------------------------------------------
(* The environment, and the theorems *)

LEMMA CrashCommitted ==
  ASSUME Protected, Committed, Crash
  PROVE  Committed'
  <1>1. /\ \A x \in Payers : payer'[x].pc \in {"idle", "done"}
        /\ \A k \in Calls : payer'[k].pc = "idle" => payer[k].pc = "idle"
    BY DEF Crash, Protected, TypeOK, Payers, PayerLocals
  <1>2. UNCHANGED <<coin, purchase, olds, session, chosen, sent>>
    BY DEF Crash, db
  <1>3. SamePayments /\ SameSessions
    BY <1>2 DEF SamePayments, SameSessions, Recorded
  <1>4. CallsOK'
    BY <1>1, <1>2 DEF Committed, CallsOK, InUse, Recorded, Payers
  <1>. QED
    BY <1>2, <1>3, <1>4, QuietStep

\* Every step, of whoever, keeps the coins accounted for.
LEMMA NextCommitted ==
  ASSUME Protected, Committed, [Next]_vars, TypeOK'
  PROVE  Committed'
  <1>1. ASSUME NEW k \in Calls, ConfirmPay(k) PROVE Committed'
    BY <1>1, SelectCoinsCommitted, CallEndsCommitted, RecordConfirmPayCommitted
    DEF ConfirmPay
  <1>2. ASSUME NEW x \in Payers, Submit(x) PROVE Committed'
    BY <1>2, SubmitPayCommitted, PayEndsCommitted DEF Submit
  <1>3. ASSUME NEW r \in Runs, RefreshSession(r) PROVE Committed'
    BY <1>3, QuietRunCommitted, StoreSessionCommitted, MeltCommitted,
       MeltSucceedsCommitted, RecordRevealCommitted
    DEF RefreshSession
  <1>4. CASE \/ \E g \in Groups : ProcessRefreshGroup(g)
             \/ \E q \in sent : Accept(q)
             \/ UNCHANGED vars
    <2>1. UNCHANGED <<coin, purchase, olds, session, payer, chosen, sent>>
      BY <1>4 DEF ProcessRefreshGroup, Accept, vars, db
    <2>. QED
      BY <2>1, SessionsAreTheSame, QuieterStep
  <1>. QED
    BY <1>1, <1>2, <1>3, <1>4, RefreshByUserCommitted, CrashCommitted DEF Next, Rest

\* The invariant the others follow from.
THEOREM AlwaysCommitted == Spec => []Committed
  <1>1. Init => Committed
    BY InitCommitted
  <1>2. Protected /\ Protected' /\ Committed /\ [Next]_vars => Committed'
    BY NextCommitted DEF Protected
  <1>. QED
    BY <1>1, <1>2, AlwaysProtected, PTL DEF Spec

\* Nothing leaves the wallet before the database has it, and what was stored is
\* never replaced: what is repeated after a failure or a restart is the same.
THEOREM OnlyStoredIsSent == Spec => []SentIsCommitted
  <1>1. Committed => SentIsCommitted
    BY DEF Committed
  <1>. QED
    BY <1>1, AlwaysCommitted, PTL

\* The value of a coin is on it, or was given away once by a request that the
\* database still has.
THEOREM Accounted == Spec => []EveryCoinAccounted
  <1>1. Committed => EveryCoinAccounted
    BY DEF Committed, Balanced, Left, EveryCoinAccounted, InWallet
  <1>. QED
    BY <1>1, AlwaysCommitted, PTL

\* All that was ever sent, taken together, asks a coin for no more than its
\* value: the exchange never has to refuse a payment or a melt for want of money.
NeverOverspent == \A c \in Coins : Exposure(c, sent) <= Value[c]
THEOREM NoOverspending == Spec => []NeverOverspent
  <1>1. ASSUME Protected, Committed, NEW c \in Coins
        PROVE  Exposure(c, sent) <= Value[c]
    <2>. DEFINE f == [q \in Commitments |-> q.spend[c]]
                g == [q \in sent |-> q.spend[c]]
    <2>1. /\ TypeOK /\ IsFiniteSet(Commitments) /\ sent \subseteq Commitments
          /\ coin[c].amount + Exposure(c, Commitments) = Left(c)
      BY <1>1 DEF Protected, Committed, Balanced, SentIsCommitted
    <2>2. \A q \in Commitments : q.spend[c] \in Nat
      BY <2>1, CommitmentsSpendNaturals
    <2>3. /\ NaturalOn(f, Commitments) /\ NaturalOn(g, sent)
          /\ \A q \in sent : f[q] = g[q]
      BY <2>1, <2>2 DEF NaturalOn
    <2>4. Exposure(c, sent) = Sum(g, sent) /\ Exposure(c, Commitments) = Sum(f, Commitments)
      BY DEF Exposure
    <2>5. coin[c].amount \in Nat /\ Left(c) <= Value[c] /\ Left(c) \in Nat /\ Value[c] \in Nat
      BY <2>1, CoinsAssumption DEF TypeOK, CoinRecords, Left
    <2>. HIDE DEF f, g
    <2>6. IsFiniteSet(sent)
      BY <2>1, FS_Subset
    <2>7. Sum(f, sent) = Sum(g, sent)
      BY <2>3, <2>6, SumsAgree
    <2>8. Sum(f, sent) <= Sum(f, Commitments)
      BY <2>1, <2>3, SumOfPartIsLess
    <2>9. Sum(f, sent) \in Nat /\ Sum(f, Commitments) \in Nat
      <3>1. NaturalOn(f, sent)
        BY <2>1, <2>3 DEF NaturalOn
      <3>. QED
        BY <2>1, <2>3, <2>6, <3>1, SumIsNatural
    <2>. QED
      BY <2>1, <2>4, <2>5, <2>7, <2>8, <2>9
  <1>2. Protected /\ Committed => NeverOverspent
    BY <1>1 DEF NeverOverspent
  <1>. QED
    BY <1>2, AlwaysProtected, AlwaysCommitted, PTL

-----------------------------------------------------------------------------
(* The slots of the refresh groups                                         *)

\* The coins, the calls and the slots are finitely many.
Slots == Groups \X Coins

LEMMA FiniteSets ==
  IsFiniteSet(Coins) /\ IsFiniteSet(Calls) /\ IsFiniteSet(Slots)
  <1>1. IsFiniteSet(Groups)
    BY NamesAssumption, FS_Union DEF Groups
  <1>. QED
    BY <1>1, CoinsAssumption, NamesAssumption, FS_Product DEF Slots

\* What coins are worth is a number.
LEMMA WorthIsNatural ==
  ASSUME NEW S, S \subseteq Coins
  PROVE  Sum(Value, S) \in Nat /\ IsFiniteSet(S)
  <1>1. IsFiniteSet(S)
    BY CoinsAssumption, FS_Subset
  <1>2. NaturalOn(Value, S)
    BY CoinsAssumption DEF NaturalOn
  <1>. QED
    BY <1>1, <1>2, SumIsNatural

\* A product grows with its factor.
LEMMA TimesMore ==
  ASSUME NEW a \in Nat, NEW m \in Nat, NEW n \in Nat, m <= n
  PROVE  a * m <= a * n /\ a * m \in Nat /\ a * n \in Nat
  OBVIOUS

\* What the groups have does not change once they are made.
LEMMA GroupsAreMadeOnce ==
  ASSUME Protected, Committed, [Next]_vars
  PROVE  \A g \in Groups : olds'[g] = olds[g] \/ olds[g] = {}
  <1>1. ASSUME NEW k \in Calls, RecordConfirmPay(k)
        PROVE  \A g \in Groups : olds'[g] = olds[g] \/ olds[g] = {}
    BY <1>1 DEF RecordConfirmPay, Committed, CallsOK, Recorded, Protected, TypeOK
  <1>2. ASSUME NEW m \in Refreshes, RefreshByUser(m)
        PROVE  \A g \in Groups : olds'[g] = olds[g] \/ olds[g] = {}
    BY <1>2 DEF RefreshByUser, Protected, TypeOK
  <1>3. ASSUME NEW r \in Runs, RefreshSession(r)
        PROVE  UNCHANGED olds
    BY <1>3 DEF RefreshSession, ReadCoinToRefresh, CreateFails, MarkTooSmall,
       StoreSession, DropSession, CheckSession, Melt, MeltSucceeds, MeltFails, Reveal,
       RevealFails, RecordReveal, AlreadyRevealed, db
  <1>4. ASSUME \/ \E k \in Calls : SelectCoins(k) \/ InsufficientBalance(k) \/ RecordAborts(k)
               \/ \E x \in Payers : Submit(x)
               \/ \E g \in Groups : ProcessRefreshGroup(g)
               \/ \E q \in sent : Accept(q)
               \/ Crash \/ UNCHANGED vars
        PROVE  UNCHANGED olds
    BY <1>4 DEF SelectCoins, InsufficientBalance, RecordAborts, Submit, SubmitPay,
       PaySucceeds, PayFails, ProcessRefreshGroup, Accept, Crash, vars, db
  <1>. QED
    BY <1>1, <1>2, <1>3, <1>4 DEF Next, ConfirmPay, Rest

\* What is too small stays so when it shrinks.
LEMMA StillTooSmall ==
  ASSUME NEW m \in Nat, NEW n \in Nat, m <= n, TooSmall(n)
  PROVE  TooSmall(m)
  <1>1. Refreshable(m) \in Nat /\ Refreshable(n) \in Nat /\ Refreshable(m) <= Refreshable(n)
    BY FeesAssumption DEF Refreshable
  <1>2. Denominations \subseteq Nat
    BY CoinsAssumption DEF Denominations
  <1>. QED
    BY <1>1, <1>2, FeesAssumption DEF TooSmall

\* No step puts anything on a coin that is in the wallet.
AmountsShrink == \A c \in InWallet : coin'[c].amount <= coin[c].amount

LEMMA CoinsShrink ==
  ASSUME Protected, [Next]_vars
  PROVE  AmountsShrink
  <1>1. /\ \A c \in Coins : coin[c].amount \in Nat
        /\ \A k \in Calls, c \in Coins : chosen[k][c] \in Nat
        /\ \A r \in Runs : run[r].input \in Nat
    BY DEF Protected, TypeOK, CoinRecords, RunLocals
  <1>2. CASE UNCHANGED coin
    BY <1>1, <1>2 DEF AmountsShrink, InWallet
  <1>3. ASSUME NEW k \in Calls, RecordConfirmPay(k)
        PROVE  AmountsShrink
    BY <1>1, <1>3 DEF RecordConfirmPay, Taken, AmountsShrink, InWallet
  <1>4. ASSUME NEW r \in Runs, StoreSession(r)
        PROVE  AmountsShrink
    <2>1. coin' = [coin EXCEPT ![run[r].old] = Taken(run[r].old, run[r].input)]
      BY <1>4 DEF StoreSession
    <2>. QED
      BY <1>1, <2>1 DEF Taken, AmountsShrink, InWallet, Protected, TypeOK
  <1>5. ASSUME NEW r \in Runs, RecordReveal(r)
        PROVE  AmountsShrink
    <2>1. \A d \in run[r].new : d \notin InWallet
      <3>1. /\ run[r].new = session[run[r].group][run[r].old].new
            /\ ~session[run[r].group][run[r].old].revealed
            /\ run[r].group \in Groups /\ run[r].old \in Coins
        BY <1>5 DEF RecordReveal, Protected, RunsOK, InWallet
      <3>. QED
        BY <3>1 DEF Protected, SessionsOK, InWallet
    <2>2. \A c \in InWallet : coin'[c] = coin[c]
      BY <1>5, <2>1 DEF RecordReveal, InWallet
    <2>. QED
      BY <1>1, <2>2 DEF AmountsShrink, InWallet
  <1>6. \/ UNCHANGED coin
        \/ \E k \in Calls : RecordConfirmPay(k)
        \/ \E r \in Runs : StoreSession(r) \/ RecordReveal(r)
    BY DEF Next, ConfirmPay, SelectCoins, InsufficientBalance, RecordAborts, Submit,
           SubmitPay, PaySucceeds, PayFails, RefreshByUser, ProcessRefreshGroup,
           RefreshSession, ReadCoinToRefresh, CreateFails, MarkTooSmall, DropSession,
           CheckSession, Melt, MeltSucceeds, MeltFails, Reveal, RevealFails,
           AlreadyRevealed, Accept, Crash, Rest, vars, db
  <1>. QED
    BY <1>2, <1>3, <1>4, <1>5, <1>6

\* A run that does not move stays in order.
LEMMA RunWaits ==
  ASSUME TypeOK, RunsOK, SlotsKept, AmountsShrink, NEW q \in Runs,
         run'[q].pc = run[q].pc, run'[q].group = run[q].group, run'[q].old = run[q].old,
         run'[q].new = run[q].new, run'[q].input = run[q].input,
         \A g \in Groups : olds[g] \subseteq olds'[g],
         coin' \in [Coins -> CoinRecords]
  PROVE  RunInOrder(q)'
  <1>1. RunInOrder(q) /\ run[q] \in RunLocals
    BY DEF SlotsKept, TypeOK
  <1>2. run[q].pc # "idle" => /\ run[q].group \in Groups /\ run[q].old \in Coins
                              /\ run[q].old \in InWallet
    BY DEF RunsOK, InWallet
  <1>3. run'[q].pc # "idle" => run'[q].old \in olds'[run'[q].group]
    BY <1>1, <1>2 DEF RunInOrder
  <1>4. run'[q].pc = "small" => TooSmall(coin'[run'[q].old].amount)
    <2>1. SUFFICES ASSUME run'[q].pc = "small"
                   PROVE  TooSmall(coin'[run[q].old].amount)
      OBVIOUS
    <2>2. run[q].old \in InWallet /\ TooSmall(coin[run[q].old].amount)
      BY <1>1, <1>2, <2>1 DEF RunInOrder
    <2>3. /\ coin'[run[q].old].amount <= coin[run[q].old].amount
          /\ coin'[run[q].old].amount \in Nat /\ coin[run[q].old].amount \in Nat
      BY <2>2 DEF AmountsShrink, TypeOK, CoinRecords, InWallet
    <2>. QED
      BY <2>2, <2>3, StillTooSmall
  <1>5. run'[q].pc = "store" => /\ run'[q].input = Cost(run'[q].new) + FeeRefresh
                                /\ ~TooSmall(run'[q].input)
    BY <1>1 DEF RunInOrder
  <1>. QED
    BY <1>3, <1>4, <1>5 DEF RunInOrder

\* A run that moves on, or ends, is in order unless it is about to store a
\* session or to mark its slot, and the others wait.
LEMMA RunsInOrder ==
  ASSUME TypeOK, RunsOK, SlotsKept, AmountsShrink, NEW r \in Runs, Others(r),
         \A g \in Groups : olds[g] \subseteq olds'[g],
         coin' \in [Coins -> CoinRecords],
         \/ run'[r].pc = "idle"
         \/ run[r].pc # "idle" /\ Stays(r) /\ run'[r].pc \notin {"small", "store"}
  PROVE  \A q \in Runs : RunInOrder(q)'
  <1>1. RunInOrder(r)'
    <2>1. RunInOrder(r) /\ (run[r].pc # "idle" => run[r].group \in Groups)
      BY DEF SlotsKept, RunsOK
    <2>. QED
      BY <2>1 DEF RunInOrder, Stays
  <1>2. ASSUME NEW q \in Runs \ {r}
        PROVE  RunInOrder(q)'
    BY RunWaits DEF Others
  <1>. QED
    BY <1>1, <1>2

\* A slot that is not touched stays in order, while groups are made.
LEMMA SlotWaits ==
  ASSUME TypeOK, SessionsOK, SlotsKept, AmountsShrink, NEW g \in Groups, NEW c \in Coins,
         session'[g][c] = session[g][c], c \in finished'[g] <=> c \in finished[g],
         olds'[g] = olds[g] \/ olds[g] = {},
         coin' \in [Coins -> CoinRecords]
  PROVE  SlotInOrder(g, c)'
  <1>1. SlotInOrder(g, c)
    BY DEF SlotsKept
  <1>2. c \in olds[g] => c \in olds'[g]
    OBVIOUS
  <1>3. c \in finished[g] /\ session[g][c] = NoSession => TooSmall(coin'[c].amount)
    <2>1. SUFFICES ASSUME c \in finished[g], session[g][c] = NoSession
                   PROVE  TooSmall(coin'[c].amount)
      OBVIOUS
    <2>2. c \in InWallet /\ TooSmall(coin[c].amount)
      BY <1>1, <2>1 DEF SlotInOrder, SessionsOK
    <2>3. /\ coin'[c].amount <= coin[c].amount
          /\ coin'[c].amount \in Nat /\ coin[c].amount \in Nat
      BY <2>2 DEF AmountsShrink, TypeOK, CoinRecords
    <2>. QED
      BY <2>2, <2>3, StillTooSmall
  <1>. QED
    BY <1>1, <1>2, <1>3 DEF SlotInOrder

LEMMA InitSlots ==
  ASSUME Init
  PROVE  SlotsKept /\ FinishedHasNoOpenSession
  BY DEF Init, SlotsKept, RunInOrder, SlotInOrder, NoRun, NoSession, FinishedHasNoOpenSession

-----------------------------------------------------------------------------
(* The steps of the runs keep the slots in order                           *)

\* memoProcessRefresh starts runs on coins of the group.
LEMMA ProcessRefreshGroupSlots ==
  ASSUME Protected, TypeOK', SlotsKept, AmountsShrink, NEW g \in Groups,
         ProcessRefreshGroup(g)
  PROVE  SlotsKept'
  <1>. DEFINE todo == olds[g] \ finished[g]
              Start(c) ==
                [pc |-> IF session[g][c] = NoSession THEN "create" ELSE "melt",
                 group |-> g, old |-> c, new |-> {}, input |-> 0, memo |-> TRUE]
  <1>1. UNCHANGED <<coin, olds, session, finished>>
    BY DEF ProcessRefreshGroup, db
  <1>2. PICK f \in Injection(todo, {r \in Runs : run[r].pc = "idle"}) :
          run' = [r \in Runs |->
            IF \E c \in todo : f[c] = r
            THEN LET c == CHOOSE c \in todo : f[c] = r IN Start(c)
            ELSE run[r]]
    BY DEF ProcessRefreshGroup
  <1>3. ASSUME NEW r \in Runs
        PROVE  run'[r] = run[r] \/ \E c \in todo : run'[r] = Start(c)
    <2>1. CASE \E c \in todo : f[c] = r
      <3>. DEFINE c == CHOOSE c \in todo : f[c] = r
      <3>1. c \in todo
        BY <2>1
      <3>2. run'[r] = Start(c)
        BY <1>2, <2>1
      <3>. QED
        BY <3>1, <3>2
    <2>2. CASE ~\E c \in todo : f[c] = r
      BY <1>2, <2>2
    <2>. QED
      BY <2>1, <2>2
  <1>4. ASSUME NEW r \in Runs, NEW c \in todo, run'[r] = Start(c)
        PROVE  run'[r].old \in olds'[run'[r].group] /\ run'[r].pc \notin {"small", "store"}
    BY <1>1, <1>4
  <1>. HIDE DEF todo, Start
  <1>5. ASSUME NEW r \in Runs
        PROVE  RunInOrder(r)'
    <2>1. CASE run'[r] = run[r]
      BY <1>1, <2>1, RunWaits DEF Protected, TypeOK
    <2>2. CASE \E c \in todo : run'[r] = Start(c)
      BY <1>4, <2>2 DEF RunInOrder
    <2>. QED
      BY <1>3, <2>1, <2>2
  <1>6. ASSUME NEW h \in Groups, NEW c \in Coins
        PROVE  SlotInOrder(h, c)'
    BY <1>1, SlotWaits DEF Protected, TypeOK
  <1>. QED
    BY <1>5, <1>6 DEF SlotsKept

\* A list of denominations that is not empty costs more than too small an
\* amount, and it is empty only for such an amount.
LEMMA ListIsWorthIt ==
  ASSUME NEW n \in Nat, NEW S \in SUBSET Coins, ~TooSmall(n),
         IsDenomList(S, Refreshable(n))
  PROVE  Cost(S) \in Nat /\ ~TooSmall(Cost(S) + FeeRefresh)
  <1>1. /\ IsFiniteSet(S) /\ NaturalOn(Value, S) /\ Sum(Value, S) \in Nat
        /\ \A c \in Coins : Value[c] \in Nat /\ Value[c] > 0
    BY CoinsAssumption, WorthIsNatural DEF NaturalOn
  <1>2. Cardinality(S) \in Nat /\ Cost(S) \in Nat
    <2>1. Cardinality(S) \in Nat
      BY <1>1, FS_CardinalityType
    <2>. QED
      BY <1>1, <2>1, FeesAssumption, TimesMore DEF Cost
  <1>3. PICK c \in Coins : Refreshable(n) >= Value[c] + FeeWithdraw
    <2>1. Refreshable(n) \in Nat
      BY FeesAssumption DEF Refreshable
    <2>. QED
      BY <1>1, <2>1, FeesAssumption DEF TooSmall, Denominations
  <1>4. S # {}
    <2>1. SUFFICES ASSUME S = {}
                   PROVE  FALSE
      OBVIOUS
    <2>2. Cost({}) = 0 /\ Cardinality({}) = 0
      BY SumOfNone, FS_EmptySet, FeesAssumption DEF Cost
    <2>3. Cardinality({d \in S : Value[d] = Value[c]}) =
            (Refreshable(n) - Cost({d \in S : Value[d] > Value[c]})) \div (Value[c] + FeeWithdraw)
      BY DEF IsDenomList, Denominations
    <2>4. 0 = (Refreshable(n) - 0) \div (Value[c] + FeeWithdraw)
      <3>1. {d \in S : Value[d] = Value[c]} = {} /\ {d \in S : Value[d] > Value[c]} = {}
        BY <2>1
      <3>. QED
        BY <2>2, <2>3, <3>1
    <2>5. ASSUME NEW a \in Nat, NEW b \in Nat, a >= b, b > 0, 0 = (a - 0) \div b
          PROVE  FALSE
      BY <2>5
    <2>6. Refreshable(n) \in Nat /\ Value[c] + FeeWithdraw \in Nat /\ Value[c] + FeeWithdraw > 0
      BY <1>1, FeesAssumption DEF Refreshable
    <2>. QED
      BY <1>3, <2>4, <2>5, <2>6
  <1>5. PICK d \in S : TRUE
    BY <1>4
  <1>6. Cost(S) >= Value[d] + FeeWithdraw
    <2>1. Sum(Value, S) = Value[d] + Sum(Value, S \ {d})
      BY <1>1, SumWithout
    <2>2. Sum(Value, S \ {d}) \in Nat
      BY WorthIsNatural
    <2>3. Cardinality(S) >= 1
      BY <1>1, <1>4, FS_CardinalityType, FS_EmptySet
    <2>4. FeeWithdraw * 1 <= FeeWithdraw * Cardinality(S) /\ FeeWithdraw * Cardinality(S) \in Nat
      BY <1>2, <2>3, FeesAssumption, TimesMore
    <2>. QED
      BY <1>1, <2>1, <2>2, <2>4, FeesAssumption DEF Cost
  <1>7. Refreshable(Cost(S) + FeeRefresh) = Cost(S)
    BY <1>2, FeesAssumption DEF Refreshable
  <1>8. Value[d] \in Denominations /\ Value[d] \in Nat
    BY <1>1 DEF Denominations
  <1>. QED
    BY <1>2, <1>6, <1>7, <1>8, FeesAssumption DEF TooSmall

\* The session that a run makes costs what it takes off the coin.
LEMMA ReadCoinToRefreshSlots ==
  ASSUME Protected, TypeOK', SlotsKept, AmountsShrink, NEW r \in Runs, ReadCoinToRefresh(r)
  PROVE  SlotsKept'
  <1>1. run[r].pc = "create" /\ UNCHANGED <<coin, olds, session, finished>>
    BY DEF ReadCoinToRefresh, db
  <1>2. run[r] \in RunLocals /\ run[r].old \in Coins /\ run[r].old \in olds[run[r].group]
    BY <1>1 DEF Protected, TypeOK, RunsOK, InWallet, SlotsKept, RunInOrder
  <1>3. \A q \in Runs \ {r} : run'[q] = run[q]
    BY DEF ReadCoinToRefresh, Goto, Protected, TypeOK
  <1>4. RunInOrder(r)'
    <2>1. CASE TooSmall(coin[run[r].old].amount) /\ Goto(r, "small")
      <3>1. run'[r].pc = "small" /\ Stays(r)
        BY <2>1, GotoStep DEF RunStates, Protected
      <3>. QED
        BY <1>1, <1>2, <2>1, <3>1 DEF RunInOrder, Stays
    <2>2. CASE ~(TooSmall(coin[run[r].old].amount) /\ Goto(r, "small"))
      <3>. DEFINE amount == coin[run[r].old].amount
      <3>1. ~TooSmall(amount) /\ amount \in Nat
        BY <1>2, <2>2 DEF ReadCoinToRefresh, Protected, TypeOK, CoinRecords
      <3>2. PICK new \in SUBSET Unseen, input \in 0..amount :
              /\ IsDenomList(new, Refreshable(amount))
              /\ input = Cost(new) + FeeRefresh
              /\ run' = [run EXCEPT ![r] =
                   [@ EXCEPT !.pc = "store", !.new = new, !.input = input]]
        BY <2>2 DEF ReadCoinToRefresh
      <3>3. /\ run'[r].pc = "store" /\ run'[r].new = new /\ run'[r].input = input
            /\ Stays(r)
        BY <1>2, <3>2 DEF Protected, TypeOK, RunLocals, Stays
      <3>4. ~TooSmall(input)
        <4>1. new \in SUBSET Coins
          BY DEF Unseen
        <4>. HIDE DEF amount
        <4>. QED
          BY <3>1, <3>2, <4>1, ListIsWorthIt
      <3>. QED
        BY <1>1, <1>2, <3>2, <3>3, <3>4 DEF RunInOrder, Stays
    <2>. QED
      BY <2>1, <2>2
  <1>5. ASSUME NEW q \in Runs \ {r}
        PROVE  RunInOrder(q)'
    BY <1>1, <1>3, RunWaits DEF Protected, TypeOK
  <1>6. ASSUME NEW h \in Groups, NEW c \in Coins
        PROVE  SlotInOrder(h, c)'
    BY <1>1, SlotWaits DEF Protected, TypeOK
  <1>. QED
    BY <1>4, <1>5, <1>6 DEF SlotsKept

\* A slot that is too small to refresh is finished.
LEMMA MarkTooSmallSlots ==
  ASSUME Protected, TypeOK', SlotsKept, AmountsShrink, NEW r \in Runs, MarkTooSmall(r)
  PROVE  /\ SlotsKept'
         /\ FinishedHasNoOpenSession /\ ~LosesSession(r) => FinishedHasNoOpenSession'
  <1>. DEFINE g == run[r].group
              c == run[r].old
  <1>1. /\ run[r].pc = "small" /\ Goto(r, "check") /\ UNCHANGED <<coin, olds, session>>
        /\ finished' = [finished EXCEPT ![g] = @ \cup {c}]
    BY DEF MarkTooSmall
  <1>2. /\ run'[r].pc = "check" /\ Stays(r) /\ Others(r)
    BY <1>1, GotoStep DEF Protected, RunStates
  <1>3. g \in Groups /\ c \in Coins /\ c \in olds[g] /\ TooSmall(coin[c].amount)
    BY <1>1 DEF Protected, RunsOK, InWallet, SlotsKept, RunInOrder
  <1>4. /\ finished'[g] = finished[g] \cup {c}
        /\ \A h \in Groups \ {g} : finished'[h] = finished[h]
    BY <1>1, <1>3 DEF Protected, TypeOK
  <1>5. \A q \in Runs : RunInOrder(q)'
    BY <1>1, <1>2, RunsInOrder DEF Protected, TypeOK
  <1>. HIDE DEF g, c
  <1>6. ASSUME NEW h \in Groups, NEW e \in Coins
        PROVE  SlotInOrder(h, e)'
    <2>1. CASE h = g /\ e = c
      <3>1. SlotInOrder(g, c)
        BY <1>3 DEF SlotsKept
      <3>. QED
        BY <1>1, <1>3, <1>4, <2>1, <3>1 DEF SlotInOrder
    <2>2. CASE ~(h = g /\ e = c)
      <3>1. e \in finished'[h] <=> e \in finished[h]
        BY <1>4, <2>2
      <3>. QED
        BY <1>1, <3>1, SlotWaits DEF Protected, TypeOK
    <2>. QED
      BY <2>1, <2>2
  <1>7. FinishedHasNoOpenSession /\ ~LosesSession(r) => FinishedHasNoOpenSession'
    <2>1. ~LosesSession(r) => session[g][c] = NoSession \/ session[g][c].revealed
      BY DEF LosesSession, g, c
    <2>. QED
      BY <1>1, <1>3, <1>4, <2>1 DEF FinishedHasNoOpenSession
  <1>. QED
    BY <1>5, <1>6, <1>7 DEF SlotsKept

\* A session is stored in a slot whose coin was worth it: not one that was
\* finished because the coin was too small.
LEMMA StoreSessionSlots ==
  ASSUME Protected, TypeOK', SlotsKept, AmountsShrink, NEW r \in Runs, StoreSession(r)
  PROVE  SlotsKept' /\ (FinishedHasNoOpenSession => FinishedHasNoOpenSession')
  <1>. DEFINE g == run[r].group
              c == run[r].old
  <1>1. /\ run[r].pc = "store" /\ Stored(r) /\ UNCHANGED <<olds, finished>>
        /\ session' = [session EXCEPT ![g][c] =
             [NoSession EXCEPT !.new = run[r].new, !.input = run[r].input]]
        /\ ~Saturated(c, run[r].input) /\ session[g][c] = NoSession
    BY DEF StoreSession, MayStore
  <1>2. run'[r].pc = "check" /\ Stays(r) /\ Others(r)
    BY <1>1, NewStep DEF Stored, RunStates, Protected
  <1>3. g \in Groups /\ c \in Coins /\ c \in olds[g] /\ ~TooSmall(run[r].input)
    BY <1>1 DEF Protected, RunsOK, InWallet, SlotsKept, RunInOrder
  <1>4. \A h \in Groups, e \in Coins : ~(h = g /\ e = c) =>
          session'[h][e] = session[h][e]
    BY <1>1, <1>3 DEF Protected, TypeOK
  <1>5. c \notin finished[g]
    <2>1. run[r].input \in Nat /\ coin[c].amount \in Nat /\ run[r].input <= coin[c].amount
      BY <1>1, <1>3 DEF Saturated, Protected, TypeOK, RunLocals, CoinRecords
    <2>2. ~TooSmall(coin[c].amount)
      BY <1>3, <2>1, StillTooSmall
    <2>. QED
      BY <1>1, <1>3, <2>2 DEF SlotsKept, SlotInOrder
  <1>6. ~session'[g][c].revealed
    <2>1. session'[g][c] = [NoSession EXCEPT !.new = run[r].new, !.input = run[r].input]
      BY <1>1, <1>3 DEF Protected, TypeOK
    <2>. QED
      BY <2>1 DEF NoSession
  <1>7. \A q \in Runs : RunInOrder(q)'
    BY <1>1, <1>2, RunsInOrder DEF Protected, TypeOK
  <1>. HIDE DEF g, c
  <1>8. ASSUME NEW h \in Groups, NEW e \in Coins
        PROVE  SlotInOrder(h, e)'
    <2>1. CASE h = g /\ e = c
      BY <1>1, <1>3, <1>5, <1>6, <2>1 DEF SlotInOrder
    <2>2. CASE ~(h = g /\ e = c)
      BY <1>1, <1>4, <2>2, SlotWaits DEF Protected, TypeOK
    <2>. QED
      BY <2>1, <2>2
  <1>9. FinishedHasNoOpenSession => FinishedHasNoOpenSession'
    <2>. SUFFICES ASSUME FinishedHasNoOpenSession, NEW h \in Groups, NEW e \in finished[h]
                  PROVE  session'[h][e] = NoSession \/ session'[h][e].revealed
      BY <1>1 DEF FinishedHasNoOpenSession
    <2>1. e \in Coins /\ ~(h = g /\ e = c)
      BY <1>5 DEF Protected, TypeOK
    <2>. QED
      BY <1>4, <2>1 DEF FinishedHasNoOpenSession
  <1>. QED
    BY <1>7, <1>8, <1>9 DEF SlotsKept

\* An answer to a melt, or a reveal, concerns a slot that has its session; the
\* reveal finishes it.
LEMMA AnswerSlots ==
  ASSUME Protected, TypeOK', SlotsKept, AmountsShrink, NEW r \in Runs,
         MeltSucceeds(r) \/ RecordReveal(r)
  PROVE  SlotsKept' /\ (FinishedHasNoOpenSession => FinishedHasNoOpenSession')
  <1>. DEFINE g == run[r].group
              c == run[r].old
  <1>1. /\ UNCHANGED olds
        /\ Others(r) /\ run'[r].pc \in {"idle", "reveal"}
        /\ run'[r].pc # "idle" => Stays(r)
        /\ run[r].pc # "idle"
    <2>1. CASE MeltSucceeds(r)
      <3>1. /\ run'[r].pc = "reveal" /\ Stays(r) /\ Others(r)
        BY <2>1, NewStep DEF MeltSucceeds, RunStates, Protected
      <3>. QED
        BY <2>1, <3>1 DEF MeltSucceeds
    <2>2. CASE RecordReveal(r)
      BY <2>2, EndStep DEF RecordReveal, Protected
    <2>. QED
      BY <2>1, <2>2
  <1>2. SameSessions
    BY MeltedSession, RevealedSession
  <1>3. g \in Groups /\ c \in Coins /\ c \in olds[g]
    BY <1>1 DEF Protected, RunsOK, InWallet, SlotsKept, RunInOrder
  <1>4. /\ \A h \in Groups, e \in Coins :
             session'[h][e].revealed <=>
               session[h][e].revealed \/ (RecordReveal(r) /\ h = g /\ e = c)
        /\ \A h \in Groups, e \in Coins :
             e \in finished'[h] <=>
               e \in finished[h] \/ (RecordReveal(r) /\ h = g /\ e = c)
    <2>1. CASE RecordReveal(r)
      <3>1. \A h \in Groups, e \in Coins :
              e \in finished'[h] <=> e \in finished[h] \/ (h = g /\ e = c)
        BY <1>3, <2>1 DEF RecordReveal, Protected, TypeOK
      <3>2. /\ session'[g][c].revealed
            /\ \A h \in Groups, e \in Coins : <<h, e>> # <<g, c>> =>
                 session'[h][e] = session[h][e]
        BY <2>1, RevealedSession
      <3>. HIDE DEF g, c
      <3>. QED
        BY <2>1, <3>1, <3>2
    <2>2. CASE ~RecordReveal(r)
      <3>1. \A h \in Groups, e \in Coins : session'[h][e].revealed = session[h][e].revealed
        BY <2>2, MeltedSession
      <3>2. UNCHANGED finished
        BY <2>2 DEF MeltSucceeds
      <3>. QED
        BY <2>2, <3>1, <3>2
    <2>. QED
      BY <2>1, <2>2
  <1>5. \A q \in Runs : RunInOrder(q)'
    BY <1>1, RunsInOrder DEF Protected, TypeOK
  <1>. HIDE DEF g, c
  <1>6. ASSUME NEW h \in Groups, NEW e \in Coins
        PROVE  SlotInOrder(h, e)'
    <2>1. SlotInOrder(h, e) /\ (session'[h][e] = NoSession <=> session[h][e] = NoSession)
      BY <1>2 DEF SlotsKept, SameSessions
    <2>2. RecordReveal(r) => session[g][c] # NoSession
      BY RevealedSession DEF g, c
    <2>3. e \in finished[h] /\ session[h][e] = NoSession => TooSmall(coin'[e].amount)
      <3>1. SUFFICES ASSUME e \in finished[h], session[h][e] = NoSession
                     PROVE  TooSmall(coin'[e].amount)
        OBVIOUS
      <3>2. e \in InWallet /\ TooSmall(coin[e].amount)
        BY <2>1, <3>1 DEF SlotInOrder, Protected, SessionsOK
      <3>3. /\ coin'[e].amount <= coin[e].amount
            /\ coin'[e].amount \in Nat /\ coin[e].amount \in Nat
        BY <3>2 DEF AmountsShrink, Protected, TypeOK, CoinRecords
      <3>. QED
        BY <3>2, <3>3, StillTooSmall
    <2>. QED
      BY <1>1, <1>3, <1>4, <2>1, <2>2, <2>3 DEF SlotInOrder
  <1>7. FinishedHasNoOpenSession => FinishedHasNoOpenSession'
    <2>1. \A h \in Groups : finished'[h] \subseteq Coins
      BY DEF TypeOK
    <2>. QED
      BY <1>2, <1>4, <2>1 DEF FinishedHasNoOpenSession, SameSessions
  <1>. QED
    BY <1>5, <1>6, <1>7 DEF SlotsKept

\* A run sends what the session says.
LEMMA RequestStep ==
  ASSUME Protected, NEW r \in Runs, (Melt(r) /\ ~Goto(r, "reveal")) \/ Reveal(r)
  PROVE  /\ Stays(r) /\ Others(r) /\ run'[r].pc \in {"unblind", "melting"}
  <1>. DEFINE s == session[run[r].group][run[r].old]
  <1>1. s.new \in SUBSET Coins /\ s.input \in Nat
    <2>1. run[r].group \in Groups /\ run[r].old \in Coins
      BY DEF Melt, Reveal, Protected, RunsOK, InWallet
    <2>. QED
      BY <2>1 DEF Protected, TypeOK, Sessions
  <1>2. \/ run' = [run EXCEPT ![r] = [@ EXCEPT !.pc = "unblind", !.new = s.new]]
        \/ run' = [run EXCEPT ![r] =
             [@ EXCEPT !.pc = "melting", !.new = s.new, !.input = s.input]]
    BY DEF Melt, Reveal
  <1>. HIDE DEF s
  <1>3. TypeOK /\ "unblind" \in RunStates /\ "melting" \in RunStates
    BY DEF Protected, RunStates
  <1>4. CASE run' = [run EXCEPT ![r] = [@ EXCEPT !.pc = "unblind", !.new = s.new]]
    BY <1>1, <1>3, <1>4, NewStep
  <1>5. CASE run' = [run EXCEPT ![r] =
               [@ EXCEPT !.pc = "melting", !.new = s.new, !.input = s.input]]
    BY <1>1, <1>3, <1>5, NewStep
  <1>. QED
    BY <1>2, <1>4, <1>5

\* A group comes into being, and no slot is touched.
LEMMA SlotsStay ==
  ASSUME Protected, TypeOK', SlotsKept, AmountsShrink, UNCHANGED <<session, finished>>,
         \A g \in Groups : olds'[g] = olds[g] \/ olds[g] = {},
         (UNCHANGED run) \/ \A r \in Runs : run'[r].pc = "idle"
  PROVE  SlotsKept' /\ (FinishedHasNoOpenSession => FinishedHasNoOpenSession')
  <1>1. ASSUME NEW q \in Runs
        PROVE  RunInOrder(q)'
    <2>1. CASE UNCHANGED run
      BY <2>1, RunWaits DEF Protected, TypeOK
    <2>2. CASE run'[q].pc = "idle"
      BY <2>2 DEF RunInOrder
    <2>. QED
      BY <2>1, <2>2
  <1>2. ASSUME NEW h \in Groups, NEW e \in Coins
        PROVE  SlotInOrder(h, e)'
    BY SlotWaits DEF Protected, TypeOK
  <1>. QED
    BY <1>1, <1>2 DEF SlotsKept, FinishedHasNoOpenSession

\* A run moves on, or ends, and no slot is touched.
LEMMA RunGoesOn ==
  ASSUME Protected, TypeOK', SlotsKept, AmountsShrink, NEW r \in Runs,
         UNCHANGED <<olds, session, finished>>, Others(r),
         \/ run'[r].pc = "idle"
         \/ run[r].pc # "idle" /\ Stays(r) /\ run'[r].pc \notin {"small", "store"}
  PROVE  SlotsKept'
  <1>1. \A q \in Runs : RunInOrder(q)'
    BY RunsInOrder DEF Protected, TypeOK
  <1>2. ASSUME NEW h \in Groups, NEW e \in Coins
        PROVE  SlotInOrder(h, e)'
    BY SlotWaits DEF Protected, TypeOK
  <1>. QED
    BY <1>1, <1>2 DEF SlotsKept

\* The slots stay in order, and sessions are kept in the groups' care by every
\* step but one.
LEMMA NextSlots ==
  ASSUME Protected, Protected', Committed, SlotsKept, [Next]_vars
  PROVE  /\ SlotsKept'
         /\ FinishedHasNoOpenSession /\ ~SessionLost => FinishedHasNoOpenSession'
  <1>1. AmountsShrink /\ TypeOK'
    BY CoinsShrink DEF Protected
  <1>2. CASE \/ \E k \in Calls : ConfirmPay(k)
             \/ \E x \in Payers : Submit(x)
             \/ \E m \in Refreshes : RefreshByUser(m)
             \/ \E q \in sent : Accept(q)
             \/ Crash \/ UNCHANGED vars
    <2>1. UNCHANGED <<session, finished>>
      BY <1>2 DEF ConfirmPay, SelectCoins, InsufficientBalance, RecordConfirmPay,
                  RecordAborts, Submit, SubmitPay, PaySucceeds, PayFails, RefreshByUser,
                  Accept, Crash, vars, db
    <2>2. (UNCHANGED run) \/ \A r \in Runs : run'[r].pc = "idle"
      <3>1. Crash => \A r \in Runs : run'[r].pc = "idle"
        BY DEF Crash, NoRun
      <3>2. ~Crash => UNCHANGED run
        BY <1>2 DEF ConfirmPay, SelectCoins, InsufficientBalance, RecordConfirmPay,
                    RecordAborts, Submit, SubmitPay, PaySucceeds, PayFails, RefreshByUser,
                    Accept, vars
      <3>. QED
        BY <3>1, <3>2
    <2>3. \A g \in Groups : olds'[g] = olds[g] \/ olds[g] = {}
      BY GroupsAreMadeOnce
    <2>. QED
      BY <1>1, <2>1, <2>2, <2>3, SlotsStay
  <1>3. ASSUME NEW r \in Runs,
               \/ CreateFails(r) \/ DropSession(r) \/ CheckSession(r) \/ Melt(r)
               \/ MeltFails(r) \/ Reveal(r) \/ RevealFails(r) \/ AlreadyRevealed(r)
        PROVE  SlotsKept' /\ (FinishedHasNoOpenSession => FinishedHasNoOpenSession')
    <2>1. run[r].pc # "idle" /\ UNCHANGED <<olds, session, finished>>
      BY <1>3 DEF CreateFails, DropSession, CheckSession, Melt, MeltFails, Reveal,
                  RevealFails, AlreadyRevealed, db
    <2>2. CASE Return(r) \/ Throw(r)
      BY <2>2, EndStep, <1>1, <2>1, RunGoesOn DEF Protected, FinishedHasNoOpenSession
    <2>3. CASE Goto(r, "melt") \/ Goto(r, "reveal")
      <3>1. /\ Stays(r) /\ Others(r) /\ run'[r].pc \notin {"small", "store"}
        BY <2>3, GotoStep DEF Protected, RunStates
      <3>. QED
        BY <1>1, <2>1, <3>1, RunGoesOn DEF FinishedHasNoOpenSession
    <2>4. CASE DropSession(r)
      <3>1. /\ Stays(r) /\ Others(r) /\ run'[r].pc = "check"
        BY <2>4, NewStep DEF DropSession, Stored, Protected, RunStates
      <3>. QED
        BY <1>1, <2>1, <3>1, RunGoesOn DEF FinishedHasNoOpenSession
    <2>5. CASE (Melt(r) /\ ~Goto(r, "reveal")) \/ Reveal(r)
      <3>1. /\ Stays(r) /\ Others(r) /\ run'[r].pc \in {"unblind", "melting"}
        BY <2>5, RequestStep
      <3>. QED
        BY <1>1, <2>1, <3>1, RunGoesOn DEF FinishedHasNoOpenSession
    <2>. QED
      BY <1>3, <2>2, <2>3, <2>4, <2>5
      DEF CreateFails, CheckSession, MeltFails, RevealFails, AlreadyRevealed
  <1>4. ASSUME NEW g \in Groups, ProcessRefreshGroup(g)
        PROVE  SlotsKept' /\ (FinishedHasNoOpenSession => FinishedHasNoOpenSession')
    BY <1>1, <1>4, ProcessRefreshGroupSlots
    DEF FinishedHasNoOpenSession, ProcessRefreshGroup, db
  <1>5. ASSUME NEW r \in Runs, ReadCoinToRefresh(r)
        PROVE  SlotsKept' /\ (FinishedHasNoOpenSession => FinishedHasNoOpenSession')
    BY <1>1, <1>5, ReadCoinToRefreshSlots
    DEF FinishedHasNoOpenSession, ReadCoinToRefresh, db
  <1>6. ASSUME NEW r \in Runs, StoreSession(r) \/ MeltSucceeds(r) \/ RecordReveal(r)
        PROVE  SlotsKept' /\ (FinishedHasNoOpenSession => FinishedHasNoOpenSession')
    BY <1>1, <1>6, StoreSessionSlots, AnswerSlots
  <1>7. ASSUME NEW r \in Runs, MarkTooSmall(r)
        PROVE  /\ SlotsKept'
               /\ FinishedHasNoOpenSession /\ ~SessionLost => FinishedHasNoOpenSession'
    BY <1>1, <1>7, MarkTooSmallSlots DEF SessionLost
  <1>. QED
    BY <1>2, <1>3, <1>4, <1>5, <1>6, <1>7 DEF Next, RefreshSession, Rest

\* However many runs work on a slot of a refresh group, and whatever fails: a slot
\* is finished without a session only when the coin is too small for one, and
\* a session that gave its coins is finished.
THEOREM SlotsInOrder == Spec => []SlotsKept
  <1>1. Init => SlotsKept
    BY InitSlots
  <1>2. Protected /\ Protected' /\ Committed /\ SlotsKept /\ [Next]_vars => SlotsKept'
    BY NextSlots
  <1>. QED
    BY <1>1, <1>2, AlwaysProtected, AlwaysCommitted, PTL DEF Spec

\* A slot that is finished has no session that is still to give its coins, until
\* a run marks it that found the coin emptied by another run's session: there is
\* no other step of the wallet that gives a session up.
THEOREM SessionsAreKept ==
  Spec => []FinishedHasNoOpenSession \/ <><<SessionLost>>_vars
  <1>1. Init => FinishedHasNoOpenSession
    BY InitSlots
  <1>2. /\ Protected /\ Protected' /\ Committed /\ SlotsKept /\ FinishedHasNoOpenSession
        /\ [Next]_vars
        => FinishedHasNoOpenSession' \/ <<SessionLost>>_vars
    <2>1. Protected /\ SessionLost => ~UNCHANGED vars
      <3>1. SUFFICES ASSUME Protected, NEW r \in Runs, MarkTooSmall(r)
                     PROVE  run' # run
        BY DEF SessionLost, LosesSession, vars
      <3>2. run[r].pc = "small" /\ run'[r].pc = "check"
        BY <3>1, GotoStep DEF MarkTooSmall, Protected, RunStates
      <3>. QED
        BY <3>2
    <2>. QED
      BY <2>1, NextSlots
  <1>. QED
    BY <1>1, <1>2, AlwaysProtected, AlwaysCommitted, SlotsInOrder, PTL DEF Spec

-----------------------------------------------------------------------------
(* The two sums of the purse                                               *)

\* Every slot with what its session will bring, nothing once it has; every call
\* with what it has paid.
Held(s) ==
  IF session[s[1]][s[2]].revealed THEN 0 ELSE Sum(Value, session[s[1]][s[2]].new)
Paid(k) == IF Recorded(k) THEN Sum(chosen[k], Coins) ELSE 0
OnCoins == [c \in Coins |-> coin[c].amount]
InSlots == [s \in Slots |-> Held(s)]
PaidBy == [k \in Calls |-> Paid(k)]

LEMMA Numbers ==
  ASSUME TypeOK
  PROVE  /\ NaturalOn(OnCoins, Coins) /\ NaturalOn(InSlots, Slots)
         /\ NaturalOn(PaidBy, Calls)
         /\ \A k \in Calls : NaturalOn(chosen[k], Coins) /\ Sum(chosen[k], Coins) \in Nat
  <1>1. NaturalOn(OnCoins, Coins)
    BY DEF TypeOK, CoinRecords, OnCoins, NaturalOn
  <1>2. ASSUME NEW s \in Slots
        PROVE  Held(s) \in Nat
    <2>1. session[s[1]][s[2]].new \subseteq Coins
      BY DEF TypeOK, Sessions, Slots
    <2>. QED
      BY <2>1, WorthIsNatural DEF Held
  <1>3. ASSUME NEW k \in Calls
        PROVE  NaturalOn(chosen[k], Coins) /\ Sum(chosen[k], Coins) \in Nat
    <2>1. NaturalOn(chosen[k], Coins)
      BY DEF TypeOK, NaturalOn
    <2>. QED
      BY <2>1, FiniteSets, SumIsNatural
  <1>4. \A k \in Calls : Paid(k) \in Nat
    BY <1>3 DEF Paid
  <1>. QED
    BY <1>1, <1>2, <1>3, <1>4 DEF InSlots, PaidBy, NaturalOn

\* The balance, and what was paid, as sums over all the slots and calls.
PurseAdds ==
  /\ OnRecord = Sum(OnCoins, Coins) + Sum(InSlots, Slots)
  /\ PaidOut = Sum(PaidBy, Calls)
  /\ NaturalOn(OnCoins, Coins) /\ Sum(OnCoins, Coins) \in Nat
  /\ NaturalOn(InSlots, Slots) /\ Sum(InSlots, Slots) \in Nat
  /\ NaturalOn(PaidBy, Calls) /\ Sum(PaidBy, Calls) \in Nat

LEMMA PurseIs == TypeOK => PurseAdds
  <1>. SUFFICES ASSUME TypeOK
                PROVE  PurseAdds
    OBVIOUS
  <1>. DEFINE f == [s \in Groups \X Coins |-> Sum(Value, session[s[1]][s[2]].new)]
              p == [k \in Calls |-> Sum(chosen[k], Coins)]
              R == {k \in Calls : Recorded(k)}
              U == {s \in Groups \X Coins : ~session[s[1]][s[2]].revealed}
  <1>1. NaturalOn(f, Slots)
    <2>1. ASSUME NEW s \in Slots
          PROVE  f[s] \in Nat
      <3>1. session[s[1]][s[2]].new \subseteq Coins
        BY DEF TypeOK, Sessions, Slots
      <3>. QED
        BY <3>1, WorthIsNatural DEF Slots
    <2>. QED
      BY <2>1 DEF NaturalOn
  <1>2. Sum(f, U) = Sum(InSlots, Slots)
    <2>1. U \subseteq Slots
      BY DEF Slots
    <2>2. InSlots = [s \in Slots |-> IF s \in U THEN f[s] ELSE 0]
      BY DEF InSlots, Held, Slots
    <2>. HIDE DEF f, U
    <2>. QED
      BY <1>1, <2>1, <2>2, FiniteSets, SumOfPart
  <1>3. NaturalOn(p, Calls)
    BY Numbers DEF NaturalOn
  <1>4. Sum([k \in Calls |-> Sum(chosen[k], Coins)], R) = Sum(PaidBy, Calls)
    <2>1. PaidBy = [k \in Calls |-> IF k \in R THEN p[k] ELSE 0] /\ R \subseteq Calls
      BY DEF PaidBy, Paid
    <2>2. p = [k \in Calls |-> Sum(chosen[k], Coins)]
      OBVIOUS
    <2>. HIDE DEF p, R
    <2>3. Sum(p, R) = Sum(PaidBy, Calls)
      BY <1>3, <2>1, FiniteSets, SumOfPart
    <2>. QED
      BY <2>2, <2>3
  <1>5. Sum(f, U) = Sum([s \in Groups \X Coins |-> Sum(Value, session[s[1]][s[2]].new)],
                        {s \in Groups \X Coins : ~session[s[1]][s[2]].revealed})
    OBVIOUS
  <1>. HIDE DEF f, p, U
  <1>6. /\ OnRecord = Sum(OnCoins, Coins) + Sum(InSlots, Slots)
        /\ PaidOut = Sum(PaidBy, Calls)
    BY <1>2, <1>4, <1>5 DEF OnRecord, PaidOut, OnCoins
  <1>. QED
    BY <1>6, FiniteSets, Numbers, SumIsNatural DEF PurseAdds

\* A step that leaves every coin's amount, every slot and every payment as they
\* are does not touch the purse.
LEMMA PurseStays ==
  ASSUME TypeOK, TypeOK',
         \A c \in Coins : coin'[c].amount = coin[c].amount,
         \A s \in Slots : Held(s)' = Held(s),
         \A k \in Calls : Paid(k)' = Paid(k)
  PROVE  UNCHANGED <<OnRecord, PaidOut>>
  <1>1. OnCoins' = OnCoins /\ InSlots' = InSlots /\ PaidBy' = PaidBy
    BY DEF OnCoins, InSlots, PaidBy
  <1>2. PurseAdds /\ PurseAdds'
    BY PurseIs, PTL
  <1>. QED
    BY <1>1, <1>2 DEF PurseAdds

\* A slot without a session holds nothing, and neither does one whose session
\* gave its coins.
LEMMA NothingHeld ==
  \A s \in Slots :
    session[s[1]][s[2]] = NoSession \/ session[s[1]][s[2]].revealed => Held(s) = 0
  <1>1. \A s \in Slots : session[s[1]][s[2]] = NoSession => session[s[1]][s[2]].new = {}
    BY DEF NoSession
  <1>2. Sum(Value, {}) = 0
    BY SumOfNone
  <1>. QED
    BY <1>1, <1>2 DEF Held

\* A slot that keeps its new coins holds what it held, unless they come now.
LEMMA HeldStays ==
  ASSUME NEW s \in Slots,
         session'[s[1]][s[2]].new = session[s[1]][s[2]].new,
         session'[s[1]][s[2]].revealed = session[s[1]][s[2]].revealed
  PROVE  Held(s)' = Held(s)
  BY DEF Held

LEMMA PaidStays ==
  ASSUME SamePayments
  PROVE  \A k \in Calls : Paid(k)' = Paid(k)
  BY DEF SamePayments, Paid

-----------------------------------------------------------------------------
(* The steps that the purse sees                                           *)

PurseVars == <<OnRecord, PaidOut>>
PurseStep == [RecordedPurse!Next]_PurseVars

\* The transaction of recordConfirmPay takes the price out of the purse.
LEMMA RecordConfirmPayPays ==
  ASSUME Protected, TypeOK', Committed, NEW k \in Calls, RecordConfirmPay(k)
  PROVE  PurseStep
  <1>. DEFINE used == {c \in Coins : chosen[k][c] > 0}
              n == Sum(chosen[k], Coins)
  <1>1. /\ payer[k].pc = "sign"
        /\ \A c \in used : ~Saturated(c, chosen[k][c])
        /\ coin' = [c \in Coins |->
             IF c \in used THEN Taken(c, chosen[k][c]) ELSE coin[c]]
        /\ olds' = [olds EXCEPT ![k] = used]
        /\ UNCHANGED <<session, finished, chosen>>
    BY DEF RecordConfirmPay
  <1>2. TypeOK /\ k \in Groups /\ PurseAdds /\ PurseAdds'
    <2>1. TypeOK /\ k \in Groups
      BY DEF Protected, Groups
    <2>2. PurseAdds /\ PurseAdds'
      BY <2>1, PurseIs, PTL
    <2>. QED
      BY <2>1, <2>2
  <1>3. /\ \E c \in Coins : chosen[k][c] > 0
        /\ olds[k] = {} /\ olds'[k] = used /\ used # {}
        /\ \A g \in Groups \ {k} : olds'[g] = olds[g]
    BY <1>1, <1>2 DEF Committed, CallsOK, Recorded, TypeOK
  <1>4. NaturalOn(chosen[k], Coins) /\ n \in Nat
    BY <1>2, Numbers
  <1>5. n >= 1
    <2>1. PICK c \in Coins : chosen[k][c] > 0
      BY <1>3
    <2>2. n = chosen[k][c] + Sum(chosen[k], Coins \ {c})
      BY <1>4, FiniteSets, SumWithout
    <2>3. NaturalOn(chosen[k], Coins \ {c}) /\ IsFiniteSet(Coins \ {c})
      BY <1>4, FiniteSets, FS_RemoveElement DEF NaturalOn
    <2>4. Sum(chosen[k], Coins \ {c}) \in Nat
      BY <2>3, SumIsNatural
    <2>. HIDE DEF n
    <2>. QED
      BY <1>4, <2>1, <2>2, <2>4 DEF NaturalOn
  <1>6. Sum(OnCoins, Coins) = Sum(OnCoins', Coins) + n
    <2>1. ASSUME NEW c \in Coins
          PROVE  OnCoins[c] = OnCoins'[c] + chosen[k][c]
      <3>1. coin[c].amount \in Nat /\ chosen[k][c] \in Nat
        BY <1>2 DEF TypeOK, CoinRecords
      <3>2. CASE c \in used
        BY <1>1, <3>1, <3>2 DEF OnCoins, Taken, Saturated
      <3>3. CASE c \notin used
        BY <1>1, <3>1, <3>3 DEF OnCoins
      <3>. QED
        BY <3>2, <3>3
    <2>2. NaturalOn(OnCoins', Coins)
      BY <1>2 DEF PurseAdds
    <2>. HIDE DEF n
    <2>3. Sum(OnCoins, Coins) = Sum(OnCoins', Coins) + Sum(chosen[k], Coins)
      BY <1>4, <2>1, <2>2, FiniteSets, SumOfBoth
    <2>. QED
      BY <2>3 DEF n
  <1>7. InSlots' = InSlots
    BY <1>1, HeldStays DEF InSlots
  <1>8. Sum(PaidBy', Calls) = Sum(PaidBy, Calls) + n
    <2>1. PaidBy[k] = 0 /\ PaidBy'[k] = n
      BY <1>1, <1>3 DEF PaidBy, Paid, Recorded
    <2>2. \A j \in Calls \ {k} : PaidBy'[j] = PaidBy[j]
      BY <1>1, <1>3 DEF PaidBy, Paid, Recorded, Groups
    <2>3. NaturalOn(PaidBy, Calls) /\ NaturalOn(PaidBy', Calls)
      BY <1>2 DEF PurseAdds
    <2>. HIDE DEF n
    <2>4. Sum(PaidBy', Calls) + PaidBy[k] = Sum(PaidBy, Calls) + PaidBy'[k]
      BY <2>2, <2>3, FiniteSets, SumChanges
    <2>. QED
      BY <1>2, <2>1, <2>4 DEF PurseAdds
  <1>. HIDE DEF n, used
  <1>9. /\ n \in 1..OnRecord /\ OnRecord' = OnRecord - n
        /\ PaidOut' = PaidOut + n
    BY <1>2, <1>4, <1>5, <1>6, <1>7, <1>8 DEF PurseAdds
  <1>. QED
    BY <1>9 DEF PurseStep, RecordedPurse!Next, RecordedPurse!Pay

\* The transaction that stores a session costs the fees of one refresh.
LEMMA StoreSessionMakesChange ==
  ASSUME Protected, TypeOK', SlotsKept, NEW r \in Runs, StoreSession(r)
  PROVE  PurseStep
  <1>. DEFINE g == run[r].group
              c == run[r].old
              new == run[r].new
              input == run[r].input
              fee == FeeRefresh + FeeWithdraw * Cardinality(new)
  <1>1. /\ run[r].pc = "store" /\ ~Saturated(c, input) /\ session[g][c] = NoSession
        /\ session' = [session EXCEPT ![g][c] =
             [NoSession EXCEPT !.new = new, !.input = input]]
        /\ coin' = [coin EXCEPT ![c] = Taken(c, input)]
        /\ UNCHANGED <<olds, finished, chosen>>
    BY DEF StoreSession, MayStore
  <1>2. /\ TypeOK /\ g \in Groups /\ c \in Coins
        /\ new \subseteq Coins /\ input \in Nat /\ coin[c].amount \in Nat
    BY <1>1 DEF Protected, RunsOK, InWallet, TypeOK, RunLocals, CoinRecords
  <1>3. PurseAdds /\ PurseAdds'
    BY <1>2, PurseIs, PTL
  <1>4. input = Sum(Value, new) + fee
    <2>1. input = Cost(new) + FeeRefresh
      BY <1>1 DEF SlotsKept, RunInOrder
    <2>2. /\ Sum(Value, new) \in Nat /\ Cardinality(new) \in Nat
          /\ FeeWithdraw * Cardinality(new) \in Nat
      BY <1>2, WorthIsNatural, FS_CardinalityType, FeesAssumption, TimesMore
    <2>. QED
      BY <2>1, <2>2, FeesAssumption DEF Cost
  <1>5. fee \in 0..(FeeRefresh + FeeWithdraw * Cardinality(Coins)) /\ Sum(Value, new) \in Nat
    <2>1. /\ Sum(Value, new) \in Nat
          /\ Cardinality(new) \in Nat /\ Cardinality(Coins) \in Nat
          /\ Cardinality(new) <= Cardinality(Coins)
      BY <1>2, WorthIsNatural, FS_CardinalityType, FS_Subset, CoinsAssumption
    <2>2. /\ FeeWithdraw * Cardinality(new) <= FeeWithdraw * Cardinality(Coins)
          /\ FeeWithdraw * Cardinality(new) \in Nat
          /\ FeeWithdraw * Cardinality(Coins) \in Nat
      BY <2>1, FeesAssumption, TimesMore
    <2>. QED
      BY <2>1, <2>2, FeesAssumption
  <1>. HIDE DEF fee
  <1>6. Sum(OnCoins', Coins) + input = Sum(OnCoins, Coins)
    <2>1. OnCoins'[c] = OnCoins[c] - input /\ OnCoins[c] \in Nat /\ input <= OnCoins[c]
      BY <1>1, <1>2 DEF OnCoins, Taken, Saturated, TypeOK
    <2>2. \A d \in Coins \ {c} : OnCoins'[d] = OnCoins[d]
      BY <1>1, <1>2 DEF OnCoins, TypeOK
    <2>3. NaturalOn(OnCoins, Coins) /\ NaturalOn(OnCoins', Coins)
      BY <1>3 DEF PurseAdds
    <2>. HIDE DEF c, input
    <2>4. Sum(OnCoins', Coins) + OnCoins[c] = Sum(OnCoins, Coins) + OnCoins'[c]
      BY <1>2, <2>2, <2>3, FiniteSets, SumChanges
    <2>. QED
      BY <1>2, <1>3, <2>1, <2>4 DEF PurseAdds
  <1>7. Sum(InSlots', Slots) = Sum(InSlots, Slots) + Sum(Value, new)
    <2>. DEFINE s == <<g, c>>
    <2>1. s \in Slots /\ s[1] = g /\ s[2] = c
      BY <1>2 DEF Slots
    <2>2. InSlots[s] = 0
      BY <1>1, <2>1, NothingHeld DEF InSlots
    <2>3. session'[g][c] = [NoSession EXCEPT !.new = new, !.input = input]
      BY <1>1, <1>2 DEF TypeOK
    <2>4. session'[g][c].new = new /\ ~session'[g][c].revealed
      BY <2>3 DEF NoSession
    <2>5. InSlots'[s] = Sum(Value, new)
      BY <2>1, <2>4 DEF InSlots, Held
    <2>6. ASSUME NEW t \in Slots \ {s}
          PROVE  InSlots'[t] = InSlots[t]
      <3>1. t[1] \in Groups /\ t[2] \in Coins /\ ~(t[1] = g /\ t[2] = c)
        BY DEF Slots
      <3>2. session'[t[1]][t[2]] = session[t[1]][t[2]]
        BY <1>1, <1>2, <3>1 DEF TypeOK
      <3>3. Held(t)' = Held(t)
        BY <1>1, <3>2, HeldStays
      <3>. QED
        BY <3>3 DEF InSlots
    <2>7. NaturalOn(InSlots, Slots) /\ NaturalOn(InSlots', Slots)
      BY <1>3 DEF PurseAdds
    <2>. HIDE DEF s
    <2>8. Sum(InSlots', Slots) + InSlots[s] = Sum(InSlots, Slots) + InSlots'[s]
      BY <2>1, <2>6, <2>7, FiniteSets, SumChanges
    <2>. QED
      BY <1>3, <1>5, <2>2, <2>5, <2>8 DEF PurseAdds
  <1>8. PaidBy' = PaidBy
    BY <1>1 DEF PaidBy, Paid, Recorded
  <1>. HIDE DEF input, new
  <1>9. fee <= OnRecord /\ OnRecord' = OnRecord - fee /\ PaidOut' = PaidOut
    BY <1>2, <1>3, <1>4, <1>5, <1>6, <1>7, <1>8 DEF PurseAdds
  <1>10. CASE fee = 0
    <2>1. UNCHANGED PurseVars
      BY <1>3, <1>9, <1>10 DEF PurseVars, PurseAdds
    <2>. QED
      BY <2>1 DEF PurseStep
  <1>11. CASE fee # 0
    <2>1. fee \in 1..(FeeRefresh + FeeWithdraw * Cardinality(Coins))
      BY <1>5, <1>11
    <2>2. RecordedPurse!MakeChange
      BY <1>9, <2>1 DEF RecordedPurse!MakeChange
    <2>. QED
      BY <2>2 DEF PurseStep, RecordedPurse!Next
  <1>. QED
    BY <1>10, <1>11

\* The transaction that adds the new coins moves them from the slot to the coins.
LEMMA RecordRevealMoves ==
  ASSUME Protected, TypeOK', NEW r \in Runs, RecordReveal(r)
  PROVE  UNCHANGED PurseVars
  <1>. DEFINE g == run[r].group
              c == run[r].old
              new == run[r].new
              s == <<g, c>>
              come == [d \in Coins |-> IF d \in new THEN Value[d] ELSE 0]
  <1>1. /\ run[r].pc = "unblind" /\ ~session[g][c].revealed
        /\ finished' = [finished EXCEPT ![g] = @ \cup {c}]
        /\ coin' = [d \in Coins |->
             IF d \in new THEN [status |-> "Fresh", amount |-> Value[d]] ELSE coin[d]]
        /\ UNCHANGED <<olds, chosen>>
    BY DEF RecordReveal
  <1>2. /\ TypeOK /\ g \in Groups /\ c \in Coins /\ SameSessions
        /\ session[g][c] # NoSession /\ session[g][c].new = new /\ new \subseteq Coins
    <2>1. g \in Groups /\ c \in Coins /\ SameSessions /\ session[g][c] # NoSession
      BY RevealedSession
    <2>2. session[g][c].new = new /\ new \subseteq Coins
      BY <1>1 DEF Protected, RunsOK, TypeOK, RunLocals
    <2>. QED
      BY <2>1, <2>2 DEF Protected
  <1>3. PurseAdds /\ PurseAdds'
    BY <1>2, PurseIs, PTL
  <1>4. Sum(OnCoins', Coins) = Sum(OnCoins, Coins) + Sum(Value, new)
    <2>1. ASSUME NEW d \in Coins
          PROVE  OnCoins'[d] = OnCoins[d] + come[d] /\ come[d] \in Nat
      <3>1. Value[d] \in Nat /\ coin[d].amount \in Nat
        BY <1>2, CoinsAssumption DEF TypeOK, CoinRecords
      <3>2. CASE d \in new
        <4>1. coin[d].amount = 0
          BY <1>1, <1>2, <3>2 DEF Protected, SessionsOK, CoinsOK, InWallet
        <4>2. coin'[d].amount = Value[d]
          BY <1>1, <3>2
        <4>. QED
          BY <3>1, <3>2, <4>1, <4>2 DEF OnCoins
      <3>3. CASE d \notin new
        BY <1>1, <3>1, <3>3 DEF OnCoins
      <3>. QED
        BY <3>2, <3>3
    <2>2. NaturalOn(come, Coins) /\ NaturalOn(OnCoins, Coins) /\ NaturalOn(Value, Coins)
      BY <1>3, <2>1, CoinsAssumption DEF NaturalOn, PurseAdds
    <2>3. Sum(Value, new) = Sum(come, Coins)
      BY <1>2, <2>2, FiniteSets, SumOfPart
    <2>. HIDE DEF come
    <2>4. Sum(OnCoins', Coins) = Sum(OnCoins, Coins) + Sum(come, Coins)
      BY <2>1, <2>2, FiniteSets, SumOfBoth
    <2>. QED
      BY <2>3, <2>4
  <1>5. Sum(InSlots, Slots) = Sum(InSlots', Slots) + Sum(Value, new)
    <2>1. s \in Slots /\ s[1] = g /\ s[2] = c
      BY <1>2 DEF Slots
    <2>3. InSlots[s] = Sum(Value, new)
      BY <1>1, <1>2, <2>1 DEF InSlots, Held
    <2>4. session'[g][c].revealed
      BY RevealedSession
    <2>6. InSlots'[s] = 0
      BY <2>1, <2>4 DEF InSlots, Held
    <2>7. ASSUME NEW t \in Slots \ {s}
          PROVE  InSlots'[t] = InSlots[t]
      <3>1. t[1] \in Groups /\ t[2] \in Coins /\ ~(t[1] = g /\ t[2] = c)
        BY DEF Slots
      <3>2. session'[t[1]][t[2]] = session[t[1]][t[2]]
        BY <3>1, RevealedSession
      <3>3. Held(t)' = Held(t)
        BY <3>2, HeldStays
      <3>. QED
        BY <3>3 DEF InSlots
    <2>8. NaturalOn(InSlots, Slots) /\ NaturalOn(InSlots', Slots)
      BY <1>3 DEF PurseAdds
    <2>. HIDE DEF s, new
    <2>9. Sum(InSlots', Slots) + InSlots[s] = Sum(InSlots, Slots) + InSlots'[s]
      BY <2>1, <2>7, <2>8, FiniteSets, SumChanges
    <2>. QED
      BY <1>3, <2>3, <2>6, <2>9 DEF PurseAdds
  <1>6. PaidBy' = PaidBy
    BY <1>1 DEF PaidBy, Paid, Recorded
  <1>7. Sum(Value, new) \in Nat
    BY <1>2, WorthIsNatural
  <1>. HIDE DEF new
  <1>. QED
    BY <1>3, <1>4, <1>5, <1>6, <1>7 DEF PurseAdds, PurseVars

-----------------------------------------------------------------------------
(* The steps that it does not see, and the theorems                        *)

\* A step that touches neither a coin nor a slot leaves the purse alone, unless
\* it records a payment.
LEMMA UnseenStep ==
  ASSUME TypeOK, TypeOK', SamePayments, UNCHANGED coin,
         \A s \in Slots : Held(s)' = Held(s)
  PROVE  UNCHANGED PurseVars
  BY PaidStays, PurseStays DEF PurseVars

\* The steps of the payments that record none, the exchange's, and a restart.
LEMMA PaymentUnseen ==
  ASSUME Protected, TypeOK', Committed,
         \/ \E k \in Calls : SelectCoins(k) \/ InsufficientBalance(k) \/ RecordAborts(k)
         \/ \E x \in Payers : Submit(x)
         \/ \E q \in sent : Accept(q)
         \/ Crash \/ UNCHANGED vars
  PROVE  UNCHANGED PurseVars
  <1>1. UNCHANGED <<coin, olds, session, finished>>
    BY DEF SelectCoins, InsufficientBalance, RecordAborts, Submit, SubmitPay, PaySucceeds,
           PayFails, Accept, Crash, vars, db
  <1>2. SamePayments
    <2>1. ASSUME NEW k \in Calls, SelectCoins(k)
          PROVE  \A j \in Calls : Recorded(j) => chosen'[j] = chosen[j]
      <3>1. ~Recorded(k)
        BY <2>1 DEF SelectCoins, Committed, CallsOK
      <3>2. \A j \in Calls \ {k} : chosen'[j] = chosen[j]
        BY <2>1 DEF SelectCoins, Protected, TypeOK
      <3>. QED
        BY <3>1, <3>2
    <2>2. (\A k \in Calls : ~SelectCoins(k)) => UNCHANGED chosen
      BY DEF InsufficientBalance, RecordAborts, Submit, SubmitPay, PaySucceeds,
             PayFails, Accept, Crash, vars
    <2>. QED
      BY <1>1, <2>1, <2>2 DEF SamePayments, Recorded
  <1>3. \A s \in Slots : Held(s)' = Held(s)
    BY <1>1, HeldStays
  <1>. QED
    BY <1>1, <1>2, <1>3, UnseenStep DEF Protected

\* The steps of the refresh groups that neither store a session nor add coins.
LEMMA RefreshUnseen ==
  ASSUME Protected, TypeOK',
         \/ \E m \in Refreshes : RefreshByUser(m)
         \/ \E g \in Groups : ProcessRefreshGroup(g)
         \/ \E r \in Runs :
              \/ ReadCoinToRefresh(r) \/ CreateFails(r) \/ MarkTooSmall(r)
              \/ DropSession(r) \/ CheckSession(r) \/ Melt(r) \/ MeltSucceeds(r)
              \/ MeltFails(r) \/ Reveal(r) \/ RevealFails(r) \/ AlreadyRevealed(r)
  PROVE  UNCHANGED PurseVars
  <1>1. UNCHANGED <<coin, chosen>>
    BY DEF RefreshByUser, ProcessRefreshGroup, ReadCoinToRefresh, CreateFails,
           MarkTooSmall, DropSession, CheckSession, Melt, MeltSucceeds, MeltFails, Reveal,
           RevealFails, AlreadyRevealed, db
  <1>2. SamePayments
    <2>1. ASSUME NEW m \in Refreshes, RefreshByUser(m)
          PROVE  SamePayments
      <3>1. \A g \in Groups \ {m} : olds'[g] = olds[g]
        BY <2>1 DEF RefreshByUser, Protected, TypeOK
      <3>. QED
        BY <1>1, <3>1, NamesAssumption DEF SamePayments, Recorded, Groups
    <2>2. (UNCHANGED olds) => SamePayments
      BY <1>1 DEF SamePayments, Recorded
    <2>3. UNCHANGED olds \/ \E m \in Refreshes : RefreshByUser(m)
      BY DEF ProcessRefreshGroup, ReadCoinToRefresh, CreateFails, MarkTooSmall,
             DropSession, CheckSession, Melt, MeltSucceeds, MeltFails, Reveal,
             RevealFails, AlreadyRevealed, db
    <2>. QED
      BY <2>1, <2>2, <2>3
  <1>3. ASSUME NEW s \in Slots
        PROVE  Held(s)' = Held(s)
    <2>1. ASSUME NEW r \in Runs, MeltSucceeds(r)
          PROVE  Held(s)' = Held(s)
      <3>1. /\ session'[s[1]][s[2]].new = session[s[1]][s[2]].new
            /\ session'[s[1]][s[2]].revealed = session[s[1]][s[2]].revealed
        BY <2>1, MeltedSession DEF SameSessions, Slots
      <3>. QED
        BY <3>1, HeldStays
    <2>2. (UNCHANGED session) => Held(s)' = Held(s)
      BY HeldStays
    <2>3. UNCHANGED session \/ \E r \in Runs : MeltSucceeds(r)
      BY DEF RefreshByUser, ProcessRefreshGroup, ReadCoinToRefresh, CreateFails,
             MarkTooSmall, DropSession, CheckSession, Melt, MeltFails, Reveal,
             RevealFails, AlreadyRevealed, db
    <2>. QED
      BY <2>1, <2>2, <2>3
  <1>. QED
    BY <1>1, <1>2, <1>3, UnseenStep DEF Protected

\* Every step of the wallet is one of the purse, or leaves it alone.
LEMMA NextIsPurseStep ==
  ASSUME Protected, TypeOK', Committed, SlotsKept, [Next]_vars
  PROVE  PurseStep
  <1>1. ASSUME NEW k \in Calls, RecordConfirmPay(k) PROVE PurseStep
    BY <1>1, RecordConfirmPayPays
  <1>2. ASSUME NEW r \in Runs, StoreSession(r) PROVE PurseStep
    BY <1>2, StoreSessionMakesChange
  <1>3. ASSUME NEW r \in Runs, RecordReveal(r) PROVE PurseStep
    BY <1>3, RecordRevealMoves DEF PurseStep
  <1>4. ASSUME \/ \E k \in Calls : SelectCoins(k) \/ InsufficientBalance(k) \/ RecordAborts(k)
               \/ \E x \in Payers : Submit(x)
               \/ \E q \in sent : Accept(q)
               \/ Crash \/ UNCHANGED vars
        PROVE  PurseStep
    BY <1>4, PaymentUnseen DEF PurseStep
  <1>5. ASSUME \/ \E m \in Refreshes : RefreshByUser(m)
               \/ \E g \in Groups : ProcessRefreshGroup(g)
               \/ \E r \in Runs :
                    \/ ReadCoinToRefresh(r) \/ CreateFails(r) \/ MarkTooSmall(r)
                    \/ DropSession(r) \/ CheckSession(r) \/ Melt(r) \/ MeltSucceeds(r)
                    \/ MeltFails(r) \/ Reveal(r) \/ RevealFails(r) \/ AlreadyRevealed(r)
        PROVE  PurseStep
    BY <1>5, RefreshUnseen DEF PurseStep
  <1>. QED
    BY <1>1, <1>2, <1>3, <1>4, <1>5 DEF Next, ConfirmPay, RefreshSession, Rest

LEMMA InitIsPurse ==
  ASSUME Init, TypeOK
  PROVE  RecordedPurse!Init
  <1>1. PurseAdds
    BY PurseIs
  <1>2. /\ \A k \in Calls : Paid(k) = 0
        /\ \A s \in Slots : Held(s) = 0
    <2>1. \A s \in Slots : session[s[1]][s[2]] = NoSession
      BY DEF Init, Slots
    <2>2. \A k \in Calls : ~Recorded(k)
      BY DEF Init, Recorded, Groups
    <2>. QED
      BY <2>1, <2>2, NothingHeld DEF Paid
  <1>3. Sum(PaidBy, Calls) = 0 /\ Sum(InSlots, Slots) = 0
    BY <1>2, FiniteSets, SumOfZeros DEF PaidBy, InSlots
  <1>4. Sum(OnCoins, Coins) = Sum(Value, Withdrawn)
    <2>1. OnCoins = [c \in Coins |-> IF c \in Withdrawn THEN Value[c] ELSE 0]
      BY DEF Init, OnCoins
    <2>2. NaturalOn(Value, Coins) /\ Withdrawn \subseteq Coins
      BY CoinsAssumption DEF NaturalOn
    <2>. QED
      BY <2>1, <2>2, FiniteSets, SumOfPart
  <1>. QED
    BY <1>1, <1>3, <1>4 DEF PurseAdds, RecordedPurse!Init

\* Whatever runs, fails and restarts, and however many runs work on one slot: the
\* coins and the sessions on record are a purse, from which only payments and the
\* fees of refreshes are taken.
THEOREM MoneyStaysOnRecord == Spec => KeepsOnRecord
  <1>1. Init /\ Protected => RecordedPurse!Init
    BY InitIsPurse DEF Protected
  <1>2. Protected /\ Protected' /\ Committed /\ SlotsKept /\ [Next]_vars =>
          [RecordedPurse!Next]_<<OnRecord, PaidOut>>
    BY NextIsPurseStep DEF Protected, PurseStep, PurseVars
  <1>. QED
    BY <1>1, <1>2, AlwaysProtected, AlwaysCommitted, SlotsInOrder, PTL
    DEF Spec, KeepsOnRecord, RecordedPurse!Spec

\* What is on record is in a group's care if no slot was finished with a session
\* that is still to give its coins.
LEMMA RecoverableIsOnRecord ==
  ASSUME TypeOK, SlotsKept, FinishedHasNoOpenSession
  PROVE  Recoverable = OnRecord
  <1>. DEFINE f == [s \in Groups \X Coins |-> Sum(Value, session[s[1]][s[2]].new)]
              U == {s \in Groups \X Coins : ~session[s[1]][s[2]].revealed}
              On(T) == [s \in Slots |-> IF s \in T THEN f[s] ELSE 0]
  <1>1. NaturalOn(f, Slots)
    <2>1. ASSUME NEW s \in Slots
          PROVE  f[s] \in Nat
      <3>1. session[s[1]][s[2]].new \subseteq Coins
        BY DEF TypeOK, Sessions, Slots
      <3>. QED
        BY <3>1, WorthIsNatural DEF Slots
    <2>. QED
      BY <2>1 DEF NaturalOn
  <1>2. OpenSlots \subseteq Slots /\ U \subseteq Slots
    BY DEF OpenSlots, Slots
  <1>3. ASSUME NEW s \in Slots
        PROVE  On(OpenSlots)[s] = On(U)[s]
    <2>1. /\ s[1] \in Groups /\ s[2] \in Coins /\ SlotInOrder(s[1], s[2])
          /\ f[s] = Sum(Value, session[s[1]][s[2]].new)
      BY DEF Slots, SlotsKept
    <2>2. CASE session[s[1]][s[2]] = NoSession
      <3>1. session[s[1]][s[2]].new = {}
        BY <2>2 DEF NoSession
      <3>. QED
        BY <2>1, <3>1, SumOfNone
    <2>3. CASE session[s[1]][s[2]] # NoSession
      <3>1. s \in OpenSlots <=> s[2] \notin finished[s[1]]
        BY <2>1, <2>3 DEF SlotInOrder, OpenSlots, Slots
      <3>2. s[2] \in finished[s[1]] <=> session[s[1]][s[2]].revealed
        BY <2>1, <2>3 DEF SlotInOrder, FinishedHasNoOpenSession
      <3>. QED
        BY <3>1, <3>2 DEF Slots
    <2>. QED
      BY <2>2, <2>3
  <1>4. On(OpenSlots) = On(U)
    BY <1>3
  <1>5. f = [s \in Groups \X Coins |-> Sum(Value, session[s[1]][s[2]].new)]
    OBVIOUS
  <1>6. Sum(f, OpenSlots) = Sum(On(OpenSlots), Slots) /\ Sum(f, U) = Sum(On(U), Slots)
    <2>. HIDE DEF f, U
    <2>. QED
      BY <1>1, <1>2, FiniteSets, SumOfPart
  <1>7. Sum(f, OpenSlots) = Sum(f, U)
    BY <1>4, <1>6
  <1>. QED
    BY <1>5, <1>7 DEF Recoverable, OnRecord

\* No interleaving of payments, refreshes, failures and restarts creates money, or
\* loses more of it than the fees, unless a run finishes a slot whose coin another
\* run emptied into a session: but for that step the wallet is a purse.
THEOREM IsAPurse == Spec => ImplementsPurse \/ <><<SessionLost>>_vars
  <1>. DEFINE Same == Recoverable = OnRecord
  <1>1. Protected /\ SlotsKept /\ FinishedHasNoOpenSession => Same
    BY RecoverableIsOnRecord DEF Protected
  <1>2. Init /\ Protected /\ Same => ThePurse!Init
    BY InitIsPurse DEF Protected, ThePurse!Init, RecordedPurse!Init
  <1>3. /\ Protected /\ Protected' /\ Committed /\ SlotsKept /\ Same /\ Same'
        /\ [Next]_vars
        => [ThePurse!Next]_<<Recoverable, PaidOut>>
    <2>. SUFFICES ASSUME Protected, Protected', Committed, SlotsKept, Same, Same',
                         [Next]_vars
                  PROVE  [ThePurse!Next]_<<Recoverable, PaidOut>>
      OBVIOUS
    <2>1. PurseStep
      BY NextIsPurseStep DEF Protected
    <2>2. CASE RecordedPurse!Pay
      BY <2>2 DEF RecordedPurse!Pay, ThePurse!Pay, ThePurse!Next
    <2>3. CASE RecordedPurse!MakeChange
      BY <2>3 DEF RecordedPurse!MakeChange, ThePurse!MakeChange, ThePurse!Next
    <2>4. CASE UNCHANGED PurseVars
      BY <2>4 DEF PurseVars
    <2>. QED
      BY <2>1, <2>2, <2>3, <2>4 DEF PurseStep, RecordedPurse!Next
  <1>. HIDE DEF Same
  <1>. QED
    BY <1>1, <1>2, <1>3, AlwaysProtected, AlwaysCommitted, SlotsInOrder, SessionsAreKept, PTL
    DEF Spec, ImplementsPurse, ThePurse!Spec

-----------------------------------------------------------------------------
(* When no two runs share a slot                                           *)

\* A payment with one coin, and every call of Wallet.refresh, makes a group of
\* one coin.
OneCoinGroups == \A g \in Groups : \A c, d \in olds[g] : c = d

\* An active run of such a group holds the group's memo, and so is the only one.
MemosOK ==
  /\ \A r \in Runs : run[r].pc # "idle" =>
       run[r].memo /\ run[r].group \in Groups /\ run[r].old \in olds[run[r].group]
  /\ \A q, r \in Runs : q # r /\ run[q].pc # "idle" /\ run[r].pc # "idle" =>
       run[q].group # run[r].group

\* What a run does to the places and memos of the others.
LEMMA RunsGoOn ==
  ASSUME TypeOK, MemosOK, NEW r \in Runs, RefreshSession(r)
  PROVE  \A q \in Runs : run'[q].pc # "idle" =>
           /\ run[q].pc # "idle" /\ run'[q].group = run[q].group
           /\ run'[q].old = run[q].old /\ run'[q].memo = run[q].memo
  <1>1. \A q \in Runs : run[q] \in RunLocals
    BY DEF TypeOK
  <1>2. run[r].pc # "idle"
    BY DEF RefreshSession, ReadCoinToRefresh, CreateFails, MarkTooSmall, StoreSession,
           DropSession, CheckSession, Melt, MeltSucceeds, MeltFails, Reveal, RevealFails,
           RecordReveal, AlreadyRevealed
  <1>3. CASE Throw(r)
    <2>1. \A q \in Runs \ {r} : run[q].pc # "idle" => run[q].group # run[r].group
      BY <1>2 DEF MemosOK
    <2>2. \A q \in Runs \ {r} : run[q].pc # "idle" => run'[q] = run[q]
      BY <1>3, <2>1 DEF Throw
    <2>3. \A q \in Runs \ {r} : run[q].pc = "idle" => run'[q].pc = "idle"
      BY <1>1, <1>3 DEF Throw, RunLocals
    <2>4. run'[r].pc = "idle"
      BY <1>3 DEF Throw, NoRun
    <2>. QED
      BY <2>2, <2>3, <2>4
  <1>4. CASE Return(r)
    <2>1. run'[r].pc = "idle" /\ \A q \in Runs \ {r} : run'[q] = run[q]
      BY <1>4 DEF Return, NoRun, TypeOK
    <2>. QED
      BY <2>1
  <1>5. CASE \E l : /\ run' = [run EXCEPT ![r] = l]
                    /\ l.group = run[r].group /\ l.old = run[r].old
                    /\ l.memo = run[r].memo
    BY <1>2, <1>5 DEF TypeOK
  <1>6. CASE \E s \in RunStates : Goto(r, s)
    <2>1. PICK s \in RunStates : run' = [run EXCEPT ![r] = [@ EXCEPT !.pc = s]]
      BY <1>6 DEF Goto
    <2>2. LET l == [run[r] EXCEPT !.pc = s] IN
            /\ l.group = run[r].group /\ l.old = run[r].old /\ l.memo = run[r].memo
      BY <1>1 DEF RunLocals
    <2>. QED
      BY <1>5, <2>1, <2>2
  <1>7. CASE \E s, new : run' = [run EXCEPT ![r] = [@ EXCEPT !.pc = s, !.new = new]]
    <2>1. PICK s, new : run' = [run EXCEPT ![r] = [@ EXCEPT !.pc = s, !.new = new]]
      BY <1>7
    <2>2. LET l == [run[r] EXCEPT !.pc = s, !.new = new] IN
            /\ l.group = run[r].group /\ l.old = run[r].old /\ l.memo = run[r].memo
      BY <1>1 DEF RunLocals
    <2>. QED
      BY <1>5, <2>1, <2>2
  <1>8. CASE \E s, new, input : run' = [run EXCEPT ![r] =
               [@ EXCEPT !.pc = s, !.new = new, !.input = input]]
    <2>1. PICK s, new, input : run' = [run EXCEPT ![r] =
               [@ EXCEPT !.pc = s, !.new = new, !.input = input]]
      BY <1>8
    <2>2. LET l == [run[r] EXCEPT !.pc = s, !.new = new, !.input = input] IN
            /\ l.group = run[r].group /\ l.old = run[r].old /\ l.memo = run[r].memo
      BY <1>1 DEF RunLocals
    <2>. QED
      BY <1>5, <2>1, <2>2
  <1>9. \/ Throw(r) \/ Return(r) \/ \E s \in RunStates : Goto(r, s)
        \/ \E s, new : run' = [run EXCEPT ![r] = [@ EXCEPT !.pc = s, !.new = new]]
        \/ \E s, new, input : run' = [run EXCEPT ![r] =
             [@ EXCEPT !.pc = s, !.new = new, !.input = input]]
    <2>1. CASE ReadCoinToRefresh(r)
      BY <2>1 DEF ReadCoinToRefresh, RunStates
    <2>2. CASE Melt(r) \/ Reveal(r) \/ MeltSucceeds(r) \/ StoreSession(r) \/ DropSession(r)
      <3>1. ASSUME Melt(r)
            PROVE  \/ Goto(r, "reveal")
                   \/ \E new, input : run' = [run EXCEPT ![r] =
                        [@ EXCEPT !.pc = "melting", !.new = new, !.input = input]]
        BY <3>1 DEF Melt
      <3>2. ASSUME Reveal(r)
            PROVE  \E new : run' = [run EXCEPT ![r] = [@ EXCEPT !.pc = "unblind", !.new = new]]
        BY <3>2 DEF Reveal
      <3>3. ASSUME MeltSucceeds(r) \/ StoreSession(r) \/ DropSession(r)
            PROVE  \E s : run' = [run EXCEPT ![r] =
                     [@ EXCEPT !.pc = s, !.new = {}, !.input = 0]]
        BY <3>3 DEF MeltSucceeds, StoreSession, DropSession, Stored
      <3>4. "reveal" \in RunStates
        BY DEF RunStates
      <3>. QED
        BY <2>2, <3>1, <3>2, <3>3, <3>4
    <2>3. CASE CheckSession(r) \/ MarkTooSmall(r)
      BY <2>3 DEF CheckSession, MarkTooSmall, RunStates
    <2>4. CASE CreateFails(r) \/ MeltFails(r) \/ RevealFails(r) \/ RecordReveal(r)
               \/ AlreadyRevealed(r)
      BY <2>4 DEF CreateFails, MeltFails, RevealFails, RecordReveal, AlreadyRevealed
    <2>. QED
      BY <2>1, <2>2, <2>3, <2>4 DEF RefreshSession
  <1>. QED
    BY <1>3, <1>4, <1>6, <1>7, <1>8, <1>9

LEMMA NextMemos ==
  ASSUME Protected, Committed, MemosOK, OneCoinGroups, [Next]_vars
  PROVE  MemosOK'
  <1>1. \A g \in Groups : olds'[g] = olds[g] \/ olds[g] = {}
    BY GroupsAreMadeOnce
  <1>2. CASE \A q \in Runs : run'[q].pc # "idle" =>
               /\ run[q].pc # "idle" /\ run'[q].group = run[q].group
               /\ run'[q].old = run[q].old /\ run'[q].memo = run[q].memo
    BY <1>1, <1>2 DEF MemosOK
  <1>3. ASSUME NEW g \in Groups, ProcessRefreshGroup(g)
        PROVE  MemosOK'
    <2>. DEFINE todo == olds[g] \ finished[g]
                Start(c) ==
                  [pc |-> IF session[g][c] = NoSession THEN "create" ELSE "melt",
                   group |-> g, old |-> c, new |-> {}, input |-> 0, memo |-> TRUE]
    <2>1. UNCHANGED olds /\ ~InFlight(g)
      BY <1>3 DEF ProcessRefreshGroup, db
    <2>2. PICK f \in Injection(todo, {r \in Runs : run[r].pc = "idle"}) :
            run' = [r \in Runs |->
              IF \E c \in todo : f[c] = r
              THEN LET c == CHOOSE c \in todo : f[c] = r IN Start(c)
              ELSE run[r]]
      BY <1>3 DEF ProcessRefreshGroup
    <2>3. \A c, d \in todo : c = d
      BY DEF OneCoinGroups
    <2>4. ASSUME NEW r \in Runs
          PROVE  run'[r] = run[r] \/ \E c \in todo : f[c] = r /\ run'[r] = Start(c)
      <3>1. CASE \E c \in todo : f[c] = r
        <4>. DEFINE c == CHOOSE c \in todo : f[c] = r
        <4>1. c \in todo /\ f[c] = r
          BY <3>1
        <4>2. run'[r] = Start(c)
          BY <2>2, <3>1
        <4>. QED
          BY <4>1, <4>2
      <3>2. CASE ~\E c \in todo : f[c] = r
        BY <2>2, <3>2
      <3>. QED
        BY <3>1, <3>2
    <2>5. \A r \in Runs : run[r].pc # "idle" => run[r].group # g
      BY <2>1 DEF MemosOK, InFlight
    <2>6. \A c \in todo : /\ Start(c).memo /\ Start(c).group = g /\ Start(c).old = c
      OBVIOUS
    <2>7. todo \subseteq olds[g]
      OBVIOUS
    <2>. HIDE DEF todo, Start
    <2>8. \A r \in Runs : run'[r].pc # "idle" =>
            run'[r].memo /\ run'[r].group \in Groups /\ run'[r].old \in olds'[run'[r].group]
      BY <2>1, <2>4, <2>6, <2>7 DEF MemosOK
    <2>9. \A q, r \in Runs : q # r /\ run'[q].pc # "idle" /\ run'[r].pc # "idle" =>
            run'[q].group # run'[r].group
      BY <2>3, <2>4, <2>5, <2>6 DEF MemosOK
    <2>. QED
      BY <2>8, <2>9 DEF MemosOK
  <1>4. (UNCHANGED run) => MemosOK'
    BY <1>2
  <1>5. Crash => MemosOK'
    BY DEF Crash, NoRun, MemosOK
  <1>6. ASSUME NEW r \in Runs, RefreshSession(r)
        PROVE  MemosOK'
    BY <1>2, <1>6, RunsGoOn DEF Protected
  <1>7. ASSUME \/ \E k \in Calls : ConfirmPay(k)
               \/ \E x \in Payers : Submit(x)
               \/ \E m \in Refreshes : RefreshByUser(m)
               \/ \E q \in sent : Accept(q)
               \/ UNCHANGED vars
        PROVE  UNCHANGED run
    BY <1>7 DEF ConfirmPay, SelectCoins, InsufficientBalance, RecordConfirmPay,
       RecordAborts, Submit, SubmitPay, PaySucceeds, PayFails, RefreshByUser, Accept,
       vars, db
  <1>. QED
    BY <1>3, <1>4, <1>5, <1>6, <1>7 DEF Next, Rest

\* Then a run that is about to make a session, or to mark its slot, finds the
\* slot without one.
MakersOK ==
  \A r \in Runs : run[r].pc \in {"create", "small", "store"} =>
    session[run[r].group][run[r].old] = NoSession

\* The sessions of another group are nobody else's business.
LEMMA OtherMakers ==
  ASSUME Protected, MemosOK, MakersOK, NEW r \in Runs, Others(r), run[r].pc # "idle",
         \/ run'[r].pc \notin {"create", "small", "store"}
         \/ /\ run[r].pc \in {"create", "small", "store"} /\ Stays(r)
            /\ UNCHANGED session,
         \A h \in Groups \ {run[r].group} : session'[h] = session[h]
  PROVE  MakersOK'
  <1>1. ASSUME NEW q \in Runs \ {r}, run'[q].pc \in {"create", "small", "store"}
        PROVE  session'[run'[q].group][run'[q].old] = NoSession
    <2>1. /\ run'[q].group = run[q].group /\ run'[q].old = run[q].old
          /\ run[q].pc \in {"create", "small", "store"}
      BY <1>1 DEF Others
    <2>2. run[q].group \in Groups \ {run[r].group}
      BY <2>1 DEF MemosOK
    <2>. QED
      BY <2>1, <2>2 DEF MakersOK
  <1>2. run'[r].pc \in {"create", "small", "store"} =>
          session'[run'[r].group][run'[r].old] = NoSession
    BY DEF MakersOK, Stays
  <1>. QED
    BY <1>1, <1>2 DEF MakersOK

LEMMA NextMakers ==
  ASSUME Protected, MemosOK, MakersOK, [Next]_vars
  PROVE  MakersOK'
  <1>1. CASE \/ \E k \in Calls : ConfirmPay(k)
             \/ \E x \in Payers : Submit(x)
             \/ \E m \in Refreshes : RefreshByUser(m)
             \/ \E q \in sent : Accept(q)
             \/ Crash \/ UNCHANGED vars
    <2>1. UNCHANGED session
      BY <1>1 DEF ConfirmPay, SelectCoins, InsufficientBalance, RecordConfirmPay,
                  RecordAborts, Submit, SubmitPay, PaySucceeds, PayFails, RefreshByUser,
                  Accept, Crash, vars, db
    <2>2. (UNCHANGED run) \/ \A r \in Runs : run'[r].pc = "idle"
      <3>1. Crash => \A r \in Runs : run'[r].pc = "idle"
        BY DEF Crash, NoRun
      <3>2. ~Crash => UNCHANGED run
        BY <1>1 DEF ConfirmPay, SelectCoins, InsufficientBalance, RecordConfirmPay,
                    RecordAborts, Submit, SubmitPay, PaySucceeds, PayFails, RefreshByUser,
                    Accept, vars
      <3>. QED
        BY <3>1, <3>2
    <2>. QED
      BY <2>1, <2>2 DEF MakersOK
  <1>2. ASSUME NEW g \in Groups, ProcessRefreshGroup(g)
        PROVE  MakersOK'
    <2>. DEFINE todo == olds[g] \ finished[g]
                Start(c) ==
                  [pc |-> IF session[g][c] = NoSession THEN "create" ELSE "melt",
                   group |-> g, old |-> c, new |-> {}, input |-> 0, memo |-> TRUE]
    <2>1. UNCHANGED session
      BY <1>2 DEF ProcessRefreshGroup, db
    <2>2. PICK f \in Injection(todo, {r \in Runs : run[r].pc = "idle"}) :
            run' = [r \in Runs |->
              IF \E c \in todo : f[c] = r
              THEN LET c == CHOOSE c \in todo : f[c] = r IN Start(c)
              ELSE run[r]]
      BY <1>2 DEF ProcessRefreshGroup
    <2>3. ASSUME NEW r \in Runs
          PROVE  run'[r] = run[r] \/ \E c : run'[r] = Start(c)
      BY <2>2
    <2>4. \A c : Start(c).pc \in {"create", "small", "store"} =>
            session[Start(c).group][Start(c).old] = NoSession
      OBVIOUS
    <2>. HIDE DEF Start
    <2>. QED
      BY <2>1, <2>3, <2>4 DEF MakersOK
  <1>3. ASSUME NEW r \in Runs,
               \/ CreateFails(r) \/ CheckSession(r) \/ Melt(r) \/ MeltFails(r)
               \/ Reveal(r) \/ RevealFails(r) \/ AlreadyRevealed(r) \/ MarkTooSmall(r)
               \/ DropSession(r) \/ ReadCoinToRefresh(r)
        PROVE  MakersOK'
    <2>1. run[r].pc # "idle" /\ UNCHANGED session
      BY <1>3 DEF CreateFails, CheckSession, Melt, MeltFails, Reveal, RevealFails,
                  AlreadyRevealed, MarkTooSmall, DropSession, ReadCoinToRefresh, db
    <2>2. CASE Return(r) \/ Throw(r)
      BY <2>1, <2>2, EndStep, OtherMakers DEF Protected
    <2>3. CASE \/ Goto(r, "melt") \/ Goto(r, "reveal") \/ Goto(r, "check")
      <3>1. Others(r) /\ run'[r].pc \in {"melt", "reveal", "check"}
        BY <2>3, GotoStep DEF Protected, RunStates
      <3>. QED
        BY <2>1, <3>1, OtherMakers
    <2>4. CASE DropSession(r)
      <3>1. Others(r) /\ run'[r].pc = "check"
        BY <2>4, NewStep DEF DropSession, Stored, Protected, RunStates
      <3>. QED
        BY <2>1, <3>1, OtherMakers
    <2>5. CASE (Melt(r) /\ ~Goto(r, "reveal")) \/ Reveal(r)
      <3>1. Others(r) /\ run'[r].pc \in {"unblind", "melting"}
        BY <2>5, RequestStep
      <3>. QED
        BY <2>1, <3>1, OtherMakers
    <2>6. CASE ReadCoinToRefresh(r)
      <3>1. run[r] \in RunLocals /\ run[r].pc = "create"
        BY <2>6 DEF ReadCoinToRefresh, Protected, TypeOK
      <3>2. \A q \in Runs \ {r} : run'[q] = run[q]
        BY <2>6 DEF ReadCoinToRefresh, Goto, Protected, TypeOK
      <3>3. Stays(r)
        <4>1. CASE Goto(r, "small")
          BY <4>1, GotoStep DEF Protected, RunStates
        <4>2. CASE ~Goto(r, "small")
          <5>1. PICK new, input : run' = [run EXCEPT ![r] =
                  [@ EXCEPT !.pc = "store", !.new = new, !.input = input]]
            BY <2>6, <4>2 DEF ReadCoinToRefresh
          <5>. QED
            BY <3>1, <5>1 DEF Protected, TypeOK, RunLocals, Stays
        <4>. QED
          BY <4>1, <4>2
      <3>. QED
        BY <2>1, <3>1, <3>2, <3>3, OtherMakers DEF Others
    <2>. QED
      BY <1>3, <2>2, <2>3, <2>4, <2>5, <2>6
      DEF CreateFails, CheckSession, MeltFails, RevealFails, AlreadyRevealed, MarkTooSmall
  <1>4. ASSUME NEW r \in Runs, StoreSession(r) \/ MeltSucceeds(r) \/ RecordReveal(r)
        PROVE  MakersOK'
    <2>1. run[r].pc # "idle" /\ Others(r) /\ run'[r].pc \notin {"create", "small", "store"}
      <3>1. CASE StoreSession(r)
        BY <3>1, NewStep DEF StoreSession, Stored, RunStates, Protected
      <3>2. CASE MeltSucceeds(r)
        BY <3>2, NewStep DEF MeltSucceeds, RunStates, Protected
      <3>3. CASE RecordReveal(r)
        BY <3>3, EndStep DEF RecordReveal, Protected
      <3>. QED
        BY <1>4, <3>1, <3>2, <3>3
    <2>2. \A h \in Groups \ {run[r].group} : session'[h] = session[h]
      BY <1>4 DEF StoreSession, MeltSucceeds, RecordReveal, Protected, TypeOK
    <2>. QED
      BY <2>1, <2>2, OtherMakers
  <1>. QED
    BY <1>1, <1>2, <1>3, <1>4 DEF Next, RefreshSession, Rest

\* A wallet whose payments take one coin each is a purse, whatever the calls, the
\* runs, the failures and the restarts do: there is never a second run that could
\* finish the slot of another one's session.
THEOREM OneCoinPurse == Spec /\ []OneCoinGroups => ImplementsPurse
  <1>1. Init => MemosOK /\ MakersOK
    BY DEF Init, NoRun, MemosOK, MakersOK
  <1>2. Protected /\ Committed /\ MemosOK /\ OneCoinGroups /\ [Next]_vars => MemosOK'
    BY NextMemos
  <1>3. Protected /\ MemosOK /\ MakersOK /\ [Next]_vars => MakersOK'
    BY NextMakers
  <1>4. MakersOK => ~SessionLost
    BY DEF MakersOK, SessionLost, LosesSession, MarkTooSmall
  <1>. QED
    BY <1>1, <1>2, <1>3, <1>4, AlwaysProtected, AlwaysCommitted, IsAPurse, PTL DEF Spec

-----------------------------------------------------------------------------
(* The balance that is shown                                               *)

\* What the sessions of unfinished groups give is what their slots hold.
LEMMA IncomingIsHeld ==
  ASSUME TypeOK, SlotsKept, OneCoinGroups
  PROVE  PendingIncomingRefresh \in Nat /\ PendingIncomingRefresh <= Sum(InSlots, Slots)
  <1>. DEFINE U == {g \in Groups : Unfinished(g)}
              G == [g \in Groups |-> Sum([c \in Coins |-> Incoming(g, c)], olds[g])]
              At(T) == {s \in Slots : s[1] \in T /\ s[2] \in olds[s[1]]}
              Good == {T \in SUBSET U : Sum(G, T) = Sum(InSlots, At(T))}
  <1>1. IsFiniteSet(Groups) /\ IsFiniteSet(U)
    BY NamesAssumption, FS_Union, FS_Subset DEF Groups
  <1>2. NaturalOn(InSlots, Slots) /\ IsFiniteSet(Slots)
    BY Numbers, FiniteSets
  <1>3. ASSUME NEW g \in U
        PROVE  \E c \in Coins : /\ At({g}) = {<<g, c>>}
                                /\ G[g] = InSlots[<<g, c>>]
    <2>1. /\ olds[g] \subseteq Coins /\ finished[g] \subseteq olds[g]
          /\ olds[g] # finished[g] /\ g \in Groups
      BY DEF TypeOK, SlotsKept, SlotInOrder, Unfinished
    <2>2. PICK c \in Coins : c \in olds[g] \ finished[g]
      BY <2>1
    <2>3. olds[g] = {c}
      BY <2>2 DEF OneCoinGroups
    <2>4. ~session[g][c].revealed
      BY <2>1, <2>2 DEF SlotsKept, SlotInOrder
    <2>5. At({g}) = {<<g, c>>}
      <3>1. \A s \in Slots : s[1] = g => s = <<g, s[2]>> /\ s[2] \in Coins
        BY DEF Slots
      <3>2. <<g, c>> \in Slots /\ <<g, c>>[1] = g
        BY <2>1 DEF Slots
      <3>. QED
        BY <2>3, <3>1, <3>2
    <2>6. G[g] = InSlots[<<g, c>>]
      <3>. DEFINE h == [d \in Coins |-> Incoming(g, d)]
      <3>1. h[c] = Sum(Value, session[g][c].new) /\ session[g][c].new \subseteq Coins
        BY <2>1 DEF Incoming, TypeOK, Sessions
      <3>2. G[g] = Sum(h, {c})
        BY <2>1, <2>3
      <3>3. InSlots[<<g, c>>] = Sum(Value, session[g][c].new)
        BY <2>1, <2>4 DEF InSlots, Slots, Held
      <3>4. h[c] \in Nat
        BY <3>1, WorthIsNatural
      <3>. HIDE DEF h, G
      <3>5. NaturalOn(h, {} \cup {c}) /\ IsFiniteSet({}) /\ {} \cup {c} = {c}
        BY <3>4, FS_EmptySet DEF NaturalOn
      <3>6. Sum(h, {} \cup {c}) = h[c] + Sum(h, {})
        BY <3>5, SumWith
      <3>. QED
        BY <3>1, <3>2, <3>3, <3>4, <3>5, <3>6, SumOfNone
    <2>. QED
      BY <2>5, <2>6
  <1>4. NaturalOn(G, U)
    BY <1>2, <1>3 DEF NaturalOn, Slots
  <1>5. {} \in Good
    <2>1. At({}) = {}
      OBVIOUS
    <2>. QED
      BY <2>1, SumOfNone
  <1>6. ASSUME NEW T \in Good, NEW g \in U, T \subseteq U, g \notin T
        PROVE  T \cup {g} \in Good
    <2>1. Sum(G, T) = Sum(InSlots, At(T))
      OBVIOUS
    <2>2. PICK c \in Coins : At({g}) = {<<g, c>>} /\ G[g] = InSlots[<<g, c>>]
      BY <1>3
    <2>3. At(T \cup {g}) = At(T) \cup At({g}) /\ At({g}) \cap At(T) = {}
      BY <1>6
    <2>4. At(T) \subseteq Slots /\ At({g}) \subseteq Slots
      OBVIOUS
    <2>. DEFINE A == At(T)
    <2>5. /\ At(T \cup {g}) = A \cup {<<g, c>>} /\ <<g, c>> \notin A
          /\ A \subseteq Slots /\ <<g, c>> \in Slots
      BY <2>2, <2>3, <2>4
    <2>. HIDE DEF A
    <2>6. IsFiniteSet(A) /\ NaturalOn(InSlots, A \cup {<<g, c>>})
      BY <1>2, <2>5, FS_Subset DEF NaturalOn
    <2>7. Sum(InSlots, A \cup {<<g, c>>}) = InSlots[<<g, c>>] + Sum(InSlots, A)
      BY <2>5, <2>6, SumWith
    <2>. HIDE DEF G, U
    <2>8. IsFiniteSet(T) /\ NaturalOn(G, T \cup {g})
      BY <1>1, <1>4, <1>6, FS_Subset DEF NaturalOn
    <2>9. Sum(G, T \cup {g}) = G[g] + Sum(G, T)
      BY <1>6, <2>8, SumWith
    <2>10. Sum(G, T \cup {g}) = Sum(InSlots, At(T \cup {g}))
      BY <2>1, <2>2, <2>5, <2>7, <2>9 DEF A
    <2>. QED
      BY <1>6, <2>10
  <1>7. Sum(G, U) = Sum(InSlots, At(U)) /\ At(U) \subseteq Slots
    <2>1. \A T \in Good : \A g \in U : T \subseteq U /\ g \notin T => T \cup {g} \in Good
      BY <1>6
    <2>. HIDE DEF Good, U
    <2>2. U \in Good
      BY <1>1, <1>5, <2>1, SubsetInduction
    <2>. QED
      BY <2>2 DEF Good
  <1>8. PendingIncomingRefresh = Sum(G, U)
    BY DEF PendingIncomingRefresh
  <1>9. Sum(G, U) \in Nat
    <2>. HIDE DEF U, G
    <2>. QED
      BY <1>1, <1>4, SumIsNatural
  <1>. HIDE DEF U, G, At
  <1>. QED
    BY <1>2, <1>7, <1>8, <1>9, SumOfPartIsLess

\* The records never hold more than was put into the wallet.
Funded == OnRecord + PaidOut <= Sum(Value, Withdrawn)

LEMMA DepositIsNatural == Sum(Value, Withdrawn) \in Nat
  BY CoinsAssumption, WorthIsNatural

LEMMA StaysFunded ==
  ASSUME TypeOK, TypeOK', Funded, PurseStep
  PROVE  Funded'
  <1>1. OnRecord \in Nat /\ PaidOut \in Nat /\ OnRecord' \in Nat /\ PaidOut' \in Nat
    <2>1. PurseAdds /\ PurseAdds'
      BY PurseIs, PTL
    <2>. QED
      BY <2>1 DEF PurseAdds
  <1>2. CASE RecordedPurse!Pay
    BY <1>1, <1>2, DepositIsNatural DEF RecordedPurse!Pay, Funded
  <1>3. CASE RecordedPurse!MakeChange
    BY <1>1, <1>3, DepositIsNatural DEF RecordedPurse!MakeChange, Funded
  <1>4. CASE UNCHANGED PurseVars
    BY <1>4 DEF PurseVars, Funded
  <1>. QED
    BY <1>2, <1>3, <1>4 DEF PurseStep, RecordedPurse!Next

LEMMA ShownIsFunded ==
  ASSUME TypeOK, SlotsKept, OneCoinGroups, Funded
  PROVE  ShownIsThere
  <1>1. PurseAdds
    BY PurseIs
  <1>2. Available \in Nat /\ Available <= Sum(OnCoins, Coins)
    <2>1. Available = Sum(OnCoins, Fresh) /\ Fresh \subseteq Coins
      BY DEF Available, OnCoins, Fresh
    <2>2. IsFiniteSet(Fresh) /\ NaturalOn(OnCoins, Fresh)
      BY <1>1, <2>1, FiniteSets, FS_Subset DEF PurseAdds, NaturalOn
    <2>. QED
      BY <1>1, <2>1, <2>2, FiniteSets, SumIsNatural, SumOfPartIsLess DEF PurseAdds
  <1>3. PendingIncomingRefresh \in Nat /\ PendingIncomingRefresh <= Sum(InSlots, Slots)
    BY IncomingIsHeld
  <1>. QED
    BY <1>1, <1>2, <1>3, DepositIsNatural DEF PurseAdds, Funded, ShownIsThere

\* In groups of one coin the balance shown never exceeds the coins withdrawn less
\* the payments.  In a group of several, a session that gave its coins is counted
\* beside them until the whole group is finished.
THEOREM ShownIsHad == Spec /\ []OneCoinGroups => []ShownIsThere
  <1>1. Init /\ Protected => Funded
    <2>. SUFFICES ASSUME Init, Protected
                  PROVE  Funded
      OBVIOUS
    <2>1. RecordedPurse!Init
      BY InitIsPurse DEF Protected
    <2>. QED
      BY <2>1, DepositIsNatural DEF RecordedPurse!Init, Funded
  <1>2. Protected /\ Protected' /\ Committed /\ SlotsKept /\ Funded /\ [Next]_vars => Funded'
    BY NextIsPurseStep, StaysFunded DEF Protected
  <1>3. Protected /\ SlotsKept /\ OneCoinGroups /\ Funded => ShownIsThere
    BY ShownIsFunded DEF Protected
  <1>. QED
    BY <1>1, <1>2, <1>3, AlwaysProtected, AlwaysCommitted, SlotsInOrder, PTL DEF Spec

-----------------------------------------------------------------------------
(* selectPayCoins.  It goes over the coins in one order, and its loop is a  *)
(* fold: what holds of what has been chosen (SoFar) holds before the first *)
(* coin, and after each one it has taken up.                               *)

\* The selections of a currency with any fractional base; what is undefined is the empty tuple.
CONSTANTS fractionalLength, maxAmountValue
Choice == INSTANCE Selection WITH Throws <- <<"throws">>, Undef <- <<>>, Forever <- <<"forever">>

LEMMA SameCardinality == \A S : Choice!Cardinality(S) = Cardinality(S)
  BY DEF Choice!Cardinality, Cardinality
LEMMA SameSum == ASSUME NEW f, NEW S PROVE Choice!Sum(f, S) = Sum(f, S)
  BY DEF Choice!Sum, Sum, Choice!MapThenSumSet, MapThenSumSet, Choice!MapThenFoldSet, MapThenFoldSet

\* Coins of which something is known, with different names.
Known(c) == c.coinPub \in Nat /\ c.available \in Nat /\ c.feeDeposit \in Nat
AreInfos(S) == /\ IsFiniteSet(S)
               /\ \A c \in S : Known(c)
               /\ \A c, d \in S : c # d => c.coinPub # d.coinPub

ByWorth(S) == {q \in S \X S : Choice!IsBefore(q[1], q[2])}

LEMMA ByWorthOrders ==
  ASSUME NEW S, AreInfos(S)
  PROVE  Orders(ByWorth(S), S)
  <1>1. \A x, y \in S : <<x, y>> \in ByWorth(S) <=> Choice!IsBefore(x, y)
    BY DEF ByWorth
  <1>2. \A x \in S : ~Choice!IsBefore(x, x)
    BY DEF Choice!IsBefore, AreInfos, Known
  <1>3. \A x, y, z \in S : Choice!IsBefore(x, y) /\ Choice!IsBefore(y, z) => Choice!IsBefore(x, z)
    BY DEF Choice!IsBefore, AreInfos, Known
  <1>4. \A x, y \in S : x # y => Choice!IsBefore(x, y) \/ Choice!IsBefore(y, x)
    BY DEF Choice!IsBefore, AreInfos, Known
  <1>. QED
    BY <1>1, <1>2, <1>3, <1>4 DEF Orders

\* The coins in the order in which selectPayCoins goes over them.
Line(S) == Choice!InOrder(S, Choice!IsBefore)

LEMMA CoinsInLine ==
  ASSUME NEW S, AreInfos(S)
  PROVE  /\ DOMAIN Line(S) = 1..Cardinality(S) /\ Cardinality(S) \in Nat
         /\ \A i \in 1..Cardinality(S) : Line(S)[i] \in S
         /\ \A x \in S : \E i \in 1..Cardinality(S) : Line(S)[i] = x
         /\ \A i, j \in 1..Cardinality(S) :
              i < j => Choice!IsBefore(Line(S)[i], Line(S)[j]) /\ Line(S)[i] # Line(S)[j]
  <1>. DEFINE n == Cardinality(S)
              R == ByWorth(S)
              p == [i \in 1..n |-> CHOOSE x \in S : Cardinality({y \in S : Choice!IsBefore(y, x)}) = i - 1]
  <1>0. IsFiniteSet(S)
    BY DEF AreInfos
  <1>1. Line(S) = p
    BY DEF Line, Choice!InOrder, Choice!Cardinality, Cardinality
  <1>2. \A x \in S : {y \in S : Choice!IsBefore(y, x)} = Below(R, S, x)
    BY DEF Below, ByWorth
  <1>3. ASSUME NEW i \in 1..n, \E x \in S : Cardinality(Below(R, S, x)) = i - 1
        PROVE  p[i] \in S /\ Cardinality(Below(R, S, p[i])) = i - 1
    <2>1. \E x \in S : Cardinality({y \in S : Choice!IsBefore(y, x)}) = i - 1
      BY <1>2, <1>3
    <2>. HIDE DEF R
    <2>2. p[i] \in S /\ Cardinality({y \in S : Choice!IsBefore(y, p[i])}) = i - 1
      BY <2>1
    <2>. QED
      BY <1>2, <2>2
  <1>4. Orders(R, S)
    BY ByWorthOrders
  <1>. HIDE DEF R, p
  <1>5. /\ \A i \in 1..n : p[i] \in S
        /\ \A x \in S : \E i \in 1..n : p[i] = x
        /\ \A i, j \in 1..n : i < j => <<p[i], p[j]>> \in R /\ p[i] # p[j]
    BY <1>0, <1>3, <1>4, Sorted
  <1>6. DOMAIN p = 1..n
    BY DEF p
  <1>. QED
    BY <1>0, <1>1, <1>5, <1>6, FS_CardinalityType DEF R, ByWorth

-----------------------------------------------------------------------------
\* The loop, and the recursive function of its fold.
TakeUp(base, s) == Choice!FoldLeft(Choice!UseCoin, base, s)
Used(g, base, s) ==
  [t \in SUBSET (DOMAIN s) |-> IF t = {} THEN base ELSE Choice!UseCoin(g[t \ {Max(t)}], s[Max(t)])]

LEMMA UsedIs ==
  ASSUME NEW s, NEW base
  PROVE  TakeUp(base, s) = (CHOOSE g : g = Used(g, base, s))[DOMAIN s]
  BY DEF TakeUp, Choice!FoldLeft, Choice!MapThenFoldSet, Used, Choice!Max, Max

Takings(S) == [remaining : Nat, limit : Nat, chosen : Seq([coin : S, contribution : Nat])]

LEMMA UseCoinTyped ==
  ASSUME NEW S, NEW c \in S, Known(c), NEW a \in Takings(S)
  PROVE  Choice!UseCoin(a, c) \in Takings(S)
  <1>1. a.remaining \in Nat /\ a.limit \in Nat /\ a.chosen \in Seq([coin : S, contribution : Nat])
    BY DEF Takings
  <1>. DEFINE spend == Choice!Remainder(c.feeDeposit, a.limit)
              gives == IF Choice!Remainder(c.available, spend) > a.remaining
                       THEN IF a.remaining + spend < c.feeDeposit THEN c.feeDeposit ELSE a.remaining + spend
                       ELSE c.available
              rest == IF Choice!Remainder(c.available, spend) > a.remaining THEN 0
                      ELSE Choice!Remainder(a.remaining + spend, c.available)
              limit == Choice!Remainder(a.limit, c.feeDeposit)
  <1>2. spend \in Nat /\ gives \in Nat /\ rest \in Nat /\ limit \in Nat
    <2>1. c.feeDeposit \in Nat /\ c.available \in Nat
      BY DEF Known
    <2>2. spend \in Nat /\ limit \in Nat
      BY <1>1, <2>1 DEF Choice!Remainder
    <2>. HIDE DEF spend, limit
    <2>3. a.remaining + spend \in Nat
      BY <1>1, <2>2
    <2>4. gives \in Nat
      BY <2>1, <2>3
    <2>5. rest \in Nat
      BY <2>1, <2>3 DEF Choice!Remainder
    <2>. QED
      BY <2>2, <2>4, <2>5
  <1>3. Choice!UseCoin(a, c) = IF c.feeDeposit >= c.available \/ a.remaining = 0 THEN a
          ELSE [remaining |-> rest, limit |-> limit, chosen |-> Append(a.chosen, [coin |-> c, contribution |-> gives])]
    BY DEF Choice!UseCoin
  <1>. HIDE DEF spend, gives, rest, limit
  <1>4. Append(a.chosen, [coin |-> c, contribution |-> gives]) \in Seq([coin : S, contribution : Nat])
    BY <1>1, <1>2
  <1>. QED
    BY <1>2, <1>3, <1>4 DEF Takings

\* selectPayCoins takes up one coin after the other.
LEMMA UseWalks ==
  ASSUME NEW n \in Nat, NEW S, NEW s, DOMAIN s = 1..n,
         \A i \in 1..n : s[i] \in S /\ Known(s[i]),
         NEW base \in Takings(S)
  PROVE  \E w : /\ w[0] = base
                /\ \A k \in 0..n : w[k] \in Takings(S)
                /\ \A k \in 1..n : w[k] = Choice!UseCoin(w[k - 1], s[k])
                /\ TakeUp(base, s) = w[n]
  <1>. DEFINE A == Takings(S)
              h == CHOOSE g : g = Used(g, base, s)
              F == [p \in (1..n) \X A |-> Choice!UseCoin(p[2], s[p[1]])]
  <1>1. \A x \in 1..n, a \in A : F[<<x, a>>] = Choice!UseCoin(a, s[x]) /\ F[<<x, a>>] \in A
    <2>1. \A x \in 1..n, a \in A : Choice!UseCoin(a, s[x]) \in A
      BY UseCoinTyped
    <2>. QED
      BY <2>1
  <1>2. TakeUp(base, s) = h[1..n]
    BY UsedIs
  <1>3. base \in A
    OBVIOUS
  <1>. HIDE DEF A, F, h
  <1>4. Operates(F, n, A)
    BY <1>1 DEF Operates
  <1>5. PICK g : FixedFold(F, base, n, A, g)
    BY <1>3, <1>4, FoldIsFixed
  <1>6. g = Used(g, base, s)
    <2>1. \A t \in SUBSET (1..n) : t # {} => F[<<Max(t), g[t \ {Max(t)}]>>] = Choice!UseCoin(g[t \ {Max(t)}], s[Max(t)])
      BY <1>1, <1>5 DEF FixedFold
    <2>. QED
      BY <1>5, <2>1 DEF Used, FixedFold
  <1>7. h = Used(h, base, s)
    BY <1>6 DEF h
  <1>8. \A t \in SUBSET (1..n) : h[t] = IF t = {} THEN base ELSE Choice!UseCoin(h[t \ {Max(t)}], s[Max(t)])
    <2>1. \A k : k = Used(h, base, s) => \A t \in SUBSET (1..n) :
            k[t] = IF t = {} THEN base ELSE Choice!UseCoin(h[t \ {Max(t)}], s[Max(t)])
      BY DEF Used
    <2>. QED
      BY <1>7, <2>1
  <1>9. PICK w : Walks(F, base, n, A, w) /\ w[n] = h[1..n]
    <2>1. ASSUME NEW t \in SUBSET (1..n), t # {}, h[t \ {Max(t)}] \in A
          PROVE  h[t] = F[<<Max(t), h[t \ {Max(t)}]>>]
      BY <1>1, <1>5, <1>8, <2>1 DEF FixedFold
    <2>2. Follows(F, base, n, A, h)
      BY <1>8, <2>1 DEF Follows
    <2>. QED
      BY <1>3, <1>4, <2>2, FoldWalks
  <1>10. \A k \in 1..n : w[k] = Choice!UseCoin(w[k - 1], s[k])
    <2>1. \A k \in 1..n : k - 1 \in 0..n
      OBVIOUS
    <2>. QED
      BY <1>1, <1>9, <2>1 DEF Walks
  <1>. QED
    BY <1>2, <1>9, <1>10 DEF Walks, A

-----------------------------------------------------------------------------
(* What the coins contribute, and what their deposits cost *)

Fees(S) == [c \in S |-> c.feeDeposit]
Worths(S) == [c \in S |-> c.available]
Usable(S) == {c \in S : c.feeDeposit < c.available}

LEMMA FeesAreNatural == ASSUME NEW S, AreInfos(S) PROVE NaturalOn(Fees(S), S) /\ NaturalOn(Worths(S), S)
  BY DEF AreInfos, Known, Fees, Worths, NaturalOn

LEMMA SumOfFees ==
  ASSUME NEW S, AreInfos(S), NEW T, T \subseteq S
  PROVE  /\ Choice!Sum([c \in T |-> c.feeDeposit], T) = Sum(Fees(S), T)
         /\ Choice!Sum([c \in T |-> c.available], T) = Sum(Worths(S), T)
         /\ Sum(Fees(S), T) \in Nat /\ Sum(Worths(S), T) \in Nat
  <1>1. IsFiniteSet(T)
    BY FS_Subset DEF AreInfos
  <1>2. NaturalOn(Fees(S), T) /\ NaturalOn(Worths(S), T)
    BY FeesAreNatural DEF NaturalOn
  <1>. DEFINE f == [c \in T |-> c.feeDeposit]
              g == [c \in T |-> c.available]
  <1>3. \A c \in T : f[c] = Fees(S)[c] /\ g[c] = Worths(S)[c]
    BY DEF Fees, Worths
  <1>. HIDE DEF f, g
  <1>4. Sum(f, T) = Sum(Fees(S), T) /\ Sum(g, T) = Sum(Worths(S), T)
    BY <1>1, <1>2, <1>3, SumsAgree
  <1>5. Sum(Fees(S), T) \in Nat /\ Sum(Worths(S), T) \in Nat
    BY <1>1, <1>2, SumIsNatural
  <1>. QED
    BY <1>4, <1>5, SameSum DEF f, g

\* What one coin more adds.
LEMMA OneCoinMore ==
  ASSUME NEW S, AreInfos(S), NEW T, T \subseteq S, NEW c \in S, c \notin T
  PROVE  /\ Sum(Fees(S), T \cup {c}) = c.feeDeposit + Sum(Fees(S), T)
         /\ Sum(Worths(S), T \cup {c}) = c.available + Sum(Worths(S), T)
  <1>1. IsFiniteSet(T)
    BY FS_Subset DEF AreInfos
  <1>2. NaturalOn(Fees(S), T \cup {c}) /\ NaturalOn(Worths(S), T \cup {c})
    BY FeesAreNatural DEF NaturalOn
  <1>3. Fees(S)[c] = c.feeDeposit /\ Worths(S)[c] = c.available
    BY DEF Fees, Worths
  <1>. QED
    BY <1>1, <1>2, <1>3, SumWith

LEMMA ContributedIs ==
  ASSUME NEW S, NEW choice \in Seq([coin : S, contribution : Nat])
  PROVE  /\ Choice!Contributed(choice) = Sum([i \in DOMAIN choice |-> choice[i].contribution], DOMAIN choice)
         /\ Choice!Contributed(choice) \in Nat
  <1>. DEFINE D == DOMAIN choice
              f == [i \in DOMAIN choice |-> choice[i].contribution]
  <1>1. Choice!Contributed(choice) = Sum(f, D)
    BY SameSum DEF Choice!Contributed
  <1>2. /\ DOMAIN choice = 1..Len(choice) /\ Len(choice) \in Nat
        /\ \A i \in 1..Len(choice) : choice[i] \in [coin : S, contribution : Nat]
    <2>. DEFINE E == [coin : S, contribution : Nat]
    <2>1. choice \in Seq(E)
      OBVIOUS
    <2>. HIDE DEF E
    <2>2. /\ DOMAIN choice = 1..Len(choice) /\ Len(choice) \in Nat
          /\ \A i \in 1..Len(choice) : choice[i] \in E
      BY <2>1
    <2>. QED
      BY <2>2 DEF E
  <1>3. IsFiniteSet(D)
    <2>1. IsFiniteSet(1..Len(choice))
      BY <1>2, FS_Interval
    <2>. QED
      BY <1>2, <2>1
  <1>4. NaturalOn(f, D)
    BY <1>2 DEF NaturalOn
  <1>. HIDE DEF f, D
  <1>. QED
    BY <1>1, <1>3, <1>4, SumIsNatural DEF f, D

LEMMA ContributedGrows ==
  ASSUME NEW S, NEW choice \in Seq([coin : S, contribution : Nat]), NEW x \in [coin : S, contribution : Nat]
  PROVE  /\ Choice!Contributed(Append(choice, x)) = Choice!Contributed(choice) + x.contribution
         /\ Choice!CoinsOf(Append(choice, x)) = Choice!CoinsOf(choice) \cup {x.coin}
  <1>. DEFINE m == Len(choice)
              more == Append(choice, x)
              f == [i \in DOMAIN choice |-> choice[i].contribution]
              g == [i \in DOMAIN more |-> more[i].contribution]
              E == [coin : S, contribution : Nat]
  <1>0. choice \in Seq(E) /\ x \in E
    OBVIOUS
  <1>. HIDE DEF E
  <1>1. /\ m \in Nat /\ DOMAIN choice = 1..m /\ more \in Seq(E)
        /\ DOMAIN more = 1..(m + 1) /\ \A i \in 1..m : more[i] = choice[i]
        /\ more[m + 1] = x /\ \A i \in 1..(m + 1) : more[i] \in E
    BY <1>0
  <1>2. 1..(m + 1) = (1..m) \cup {m + 1} /\ m + 1 \notin 1..m
    BY <1>1
  <1>3. /\ \A i \in 1..(m + 1) : more[i] \in [coin : S, contribution : Nat]
        /\ more \in Seq([coin : S, contribution : Nat])
    BY <1>1 DEF E
  <1>4. IsFiniteSet(1..m)
    BY <1>1, FS_Interval
  <1>5. Choice!CoinsOf(more) = Choice!CoinsOf(choice) \cup {x.coin}
    <2>. HIDE DEF more, m
    <2>1. Choice!CoinsOf(more) = {more[i].coin : i \in (1..m) \cup {m + 1}}
      BY <1>1, <1>2 DEF Choice!CoinsOf
    <2>2. Choice!CoinsOf(choice) = {more[i].coin : i \in 1..m}
      BY <1>1 DEF Choice!CoinsOf
    <2>. QED
      BY <1>1, <2>1, <2>2
  <1>6. NaturalOn(g, 1..(m + 1)) /\ g[m + 1] = x.contribution /\ \A i \in 1..m : g[i] = f[i]
    <2>. HIDE DEF more, m
    <2>1. \A i \in 1..(m + 1) : g[i] = more[i].contribution
      BY <1>1
    <2>2. \A i \in 1..m : f[i] = choice[i].contribution
      BY <1>1
    <2>. HIDE DEF f, g
    <2>3. m + 1 \in 1..(m + 1) /\ 1..m \subseteq 1..(m + 1)
      BY <1>1
    <2>. QED
      BY <1>1, <1>3, <2>1, <2>2, <2>3 DEF NaturalOn
  <1>7. Choice!Contributed(more) = Sum(g, 1..(m + 1)) /\ Choice!Contributed(choice) = Sum(f, 1..m)
    BY <1>1, <1>3, ContributedIs
  <1>. HIDE DEF f, g, more, m
  <1>8. Sum(g, 1..(m + 1)) = g[m + 1] + Sum(g, 1..m)
    BY <1>2, <1>4, <1>6, SumWith
  <1>9. NaturalOn(g, 1..m) /\ Sum(g, 1..m) \in Nat
    <2>1. NaturalOn(g, 1..m)
      BY <1>2, <1>6 DEF NaturalOn
    <2>. QED
      BY <1>4, <2>1, SumIsNatural
  <1>10. NaturalOn(f, 1..m)
    BY <1>6, <1>9 DEF NaturalOn
  <1>11. Sum(g, 1..m) = Sum(f, 1..m)
    BY <1>4, <1>6, <1>9, <1>10, SumsAgree
  <1>12. x.contribution \in Nat
    OBVIOUS
  <1>13. Choice!Contributed(more) = Choice!Contributed(choice) + x.contribution
    BY <1>6, <1>7, <1>8, <1>9, <1>11, <1>12
  <1>. QED
    BY <1>5, <1>13 DEF more

-----------------------------------------------------------------------------
\* What has been chosen when the coins of before have been taken up.
SoFar(S, amount, feeLimit, before, a) ==
  LET C == Choice!CoinsOf(a.chosen)
      fees == Sum(Fees(S), C)
      paid == Choice!Contributed(a.chosen)
  IN /\ a \in Takings(S)
     /\ C \subseteq before \cap Usable(S)
     /\ a.limit = Choice!Remainder(feeLimit, fees)
     /\ \A i \in DOMAIN a.chosen :
          /\ a.chosen[i].contribution \in a.chosen[i].coin.feeDeposit..a.chosen[i].coin.available
          /\ a.remaining > 0 \/ i < Len(a.chosen) => a.chosen[i].contribution = a.chosen[i].coin.available
          /\ \A c \in Usable(S) : Choice!IsBefore(c, a.chosen[i].coin) => c \in C
     /\ \A i, j \in DOMAIN a.chosen : i < j => Choice!IsBefore(a.chosen[i].coin, a.chosen[j].coin)
     /\ a.remaining > 0 => /\ C = before \cap Usable(S)
                           /\ paid = Sum(Worths(S), C)
                           /\ paid + a.remaining = amount + Choice!Remainder(fees, feeLimit)
     /\ a.remaining = 0 => paid >= amount + Choice!Remainder(fees, feeLimit)
     /\ (\A c \in S : c.feeDeposit = 0) => paid + a.remaining = amount

LEMMA SoFarAtFirst ==
  ASSUME NEW S, AreInfos(S), NEW amount \in Nat, NEW feeLimit \in Nat
  PROVE  SoFar(S, amount, feeLimit, {}, [remaining |-> amount, limit |-> feeLimit, chosen |-> <<>>])
  <1>1. Choice!CoinsOf(<<>>) = {}
    BY DEF Choice!CoinsOf
  <1>2. <<>> \in Seq([coin : S, contribution : Nat]) /\ DOMAIN <<>> = {}
    OBVIOUS
  <1>3. Choice!Contributed(<<>>) = 0
    BY <1>2, ContributedIs, SumOfNone
  <1>4. Sum(Fees(S), {}) = 0 /\ Sum(Worths(S), {}) = 0
    BY SumOfNone
  <1>. DEFINE a == [remaining |-> amount, limit |-> feeLimit, chosen |-> <<>>]
  <1>5. a \in Takings(S) /\ a.chosen = <<>> /\ a.remaining = amount /\ a.limit = feeLimit
    BY <1>2 DEF Takings
  <1>. HIDE DEF a
  <1>6. Choice!Remainder(feeLimit, 0) = feeLimit /\ Choice!Remainder(0, feeLimit) = 0
    BY DEF Choice!Remainder
  <1>7. SoFar(S, amount, feeLimit, {}, a)
    BY <1>1, <1>2, <1>3, <1>4, <1>5, <1>6 DEF SoFar
  <1>. QED
    BY <1>7 DEF a

\* What a coin pays of what remains, and of its fee; and what remains then.
Gives(fee, available, remaining, spend) ==
  IF Choice!Remainder(available, spend) > remaining
  THEN IF remaining + spend < fee THEN fee ELSE remaining + spend
  ELSE available
StillDue(available, remaining, spend) ==
  IF Choice!Remainder(available, spend) > remaining THEN 0 ELSE Choice!Remainder(remaining + spend, available)

CoinPays(fee, available, remaining, spend) ==
  LET gives == Gives(fee, available, remaining, spend)
      rest == StillDue(available, remaining, spend)
  IN /\ gives \in fee..available /\ gives \in Nat /\ rest \in Nat
     /\ rest > 0 => gives = available /\ gives + rest = remaining + spend
     /\ rest = 0 => gives >= remaining + spend
     /\ fee = 0 => gives + rest = remaining

LEMMA OneCoinPays ==
  ASSUME NEW fee \in Nat, NEW available \in Nat, fee < available, NEW remaining \in Nat, NEW spend \in Nat, spend <= fee
  PROVE  CoinPays(fee, available, remaining, spend)
  <1>. DEFINE gives == Gives(fee, available, remaining, spend)
              rest == StillDue(available, remaining, spend)
  <1>1. available - spend \in Nat /\ Choice!Remainder(available, spend) = available - spend
    BY DEF Choice!Remainder
  <1>2. CASE available - spend > remaining
    <2>1. rest = 0 /\ gives = IF remaining + spend < fee THEN fee ELSE remaining + spend
      BY <1>1, <1>2 DEF Gives, StillDue
    <2>. QED
      BY <1>2, <2>1 DEF CoinPays
  <1>3. CASE ~(available - spend > remaining)
    <2>1. gives = available /\ rest = remaining + spend - available
      BY <1>1, <1>3 DEF Gives, StillDue, Choice!Remainder
    <2>. QED
      BY <1>3, <2>1 DEF CoinPays
  <1>. QED
    BY <1>2, <1>3

LEMMA AllPaysOff ==
  ASSUME NEW paid \in Nat, NEW remaining \in Nat, NEW amount \in Nat, NEW toll \in Nat, NEW spend \in Nat,
         NEW gives \in Nat, NEW rest \in Nat, paid + remaining = amount + toll,
         rest > 0 => gives + rest = remaining + spend,
         rest = 0 => gives >= remaining + spend
  PROVE  /\ rest > 0 => paid + gives + rest = amount + (toll + spend)
         /\ rest = 0 => paid + gives >= amount + (toll + spend)
  OBVIOUS

LEMMA SoFarOn ==
  ASSUME NEW S, AreInfos(S), NEW amount \in Nat, NEW feeLimit \in Nat,
         NEW before, before \subseteq S, NEW c \in S, c \notin before,
         \A b \in S : b \in before <=> Choice!IsBefore(b, c),
         NEW a, SoFar(S, amount, feeLimit, before, a)
  PROVE  SoFar(S, amount, feeLimit, before \cup {c}, Choice!UseCoin(a, c))
  <1>. DEFINE C == Choice!CoinsOf(a.chosen)
              fees == Sum(Fees(S), C)
              paid == Choice!Contributed(a.chosen)
  <1>1. Known(c) /\ c.feeDeposit \in Nat /\ c.available \in Nat
    BY DEF AreInfos, Known
  <1>2. /\ a.remaining \in Nat /\ a.limit \in Nat /\ a.chosen \in Seq([coin : S, contribution : Nat])
        /\ C \subseteq before \cap Usable(S) /\ C \subseteq S
        /\ a.limit = Choice!Remainder(feeLimit, fees)
    BY DEF SoFar, Takings
  <1>3. fees \in Nat /\ paid \in Nat /\ Sum(Worths(S), C) \in Nat
    BY <1>2, SumOfFees, ContributedIs
  <1>4. CASE c.feeDeposit >= c.available \/ a.remaining = 0
    <2>1. Choice!UseCoin(a, c) = a
      BY <1>4 DEF Choice!UseCoin
    <2>2. a.remaining > 0 => (before \cup {c}) \cap Usable(S) = before \cap Usable(S)
      BY <1>1, <1>2, <1>4 DEF Usable
    <2>. QED
      BY <2>1, <2>2 DEF SoFar
  <1>5. CASE ~(c.feeDeposit >= c.available) /\ a.remaining # 0
    <2>. DEFINE spend == Choice!Remainder(c.feeDeposit, a.limit)
                gives == Gives(c.feeDeposit, c.available, a.remaining, spend)
                rest == StillDue(c.available, a.remaining, spend)
                x == [coin |-> c, contribution |-> gives]
                b == [remaining |-> rest, limit |-> Choice!Remainder(a.limit, c.feeDeposit),
                      chosen |-> Append(a.chosen, x)]
                toll == Choice!Remainder(fees, feeLimit)
                m == Len(a.chosen)
    <2>1. Choice!UseCoin(a, c) = b
      BY <1>5 DEF Choice!UseCoin, Gives, StillDue
    <2>2. c \in Usable(S) /\ c \notin C /\ c.feeDeposit < c.available /\ a.remaining > 0
      BY <1>1, <1>2, <1>5 DEF Usable
    <2>3. /\ C = before \cap Usable(S) /\ paid = Sum(Worths(S), C)
          /\ paid + a.remaining = amount + toll
          /\ (\A d \in S : d.feeDeposit = 0) => paid + a.remaining = amount
      BY <2>2 DEF SoFar
    <2>4. spend \in Nat /\ toll \in Nat /\ a.limit = Choice!Remainder(feeLimit, fees)
      BY <1>1, <1>2, <1>3 DEF Choice!Remainder
    <2>5. /\ Choice!Remainder(c.feeDeposit + fees, feeLimit) = toll + spend
          /\ Choice!Remainder(a.limit, c.feeDeposit) = Choice!Remainder(feeLimit, c.feeDeposit + fees)
          /\ spend <= c.feeDeposit
      BY <1>1, <1>3, <2>4 DEF Choice!Remainder
    <2>6. /\ gives \in c.feeDeposit..c.available /\ gives \in Nat /\ rest \in Nat
          /\ rest > 0 => gives = c.available /\ gives + rest = a.remaining + spend
          /\ rest = 0 => gives >= a.remaining + spend
          /\ c.feeDeposit = 0 => gives + rest = a.remaining
      <3>1. a.remaining \in Nat
        BY <1>2
      <3>2. spend <= c.feeDeposit
        BY <2>5
      <3>3. c.feeDeposit \in Nat /\ c.available \in Nat /\ c.feeDeposit < c.available /\ spend \in Nat
        BY <1>1, <2>2, <2>4
      <3>4. CoinPays(c.feeDeposit, c.available, a.remaining, spend)
        BY <3>1, <3>2, <3>3, OneCoinPays
      <3>. QED
        BY <3>4 DEF CoinPays
    <2>. HIDE DEF gives, rest, spend
    <2>7. x \in [coin : S, contribution : Nat]
      BY <2>6
    <2>8. /\ Choice!Contributed(b.chosen) = paid + gives
          /\ Choice!CoinsOf(b.chosen) = C \cup {c}
      <3>1. x.coin = c /\ x.contribution = gives /\ b.chosen = Append(a.chosen, x)
        OBVIOUS
      <3>2. /\ Choice!Contributed(Append(a.chosen, x)) = Choice!Contributed(a.chosen) + x.contribution
            /\ Choice!CoinsOf(Append(a.chosen, x)) = Choice!CoinsOf(a.chosen) \cup {x.coin}
        <4>. DEFINE E == [coin : S, contribution : Nat]
        <4>1. \A q \in Seq(E), y \in E :
                /\ Choice!Contributed(Append(q, y)) = Choice!Contributed(q) + y.contribution
                /\ Choice!CoinsOf(Append(q, y)) = Choice!CoinsOf(q) \cup {y.coin}
          BY ContributedGrows
        <4>2. a.chosen \in Seq(E) /\ x \in E
          BY <1>2, <2>7
        <4>. HIDE DEF x, E
        <4>. QED
          BY <4>1, <4>2
      <3>. QED
        BY <3>1, <3>2
    <2>9. Sum(Fees(S), C \cup {c}) = c.feeDeposit + fees /\ Sum(Worths(S), C \cup {c}) = c.available + Sum(Worths(S), C)
      BY <1>2, <2>2, OneCoinMore
    <2>10. b \in Takings(S)
      <3>1. b.limit \in Nat
        BY <1>1, <1>2 DEF Choice!Remainder
      <3>. QED
        BY <1>2, <2>6, <2>7, <3>1 DEF Takings
    <2>11. /\ m \in Nat /\ DOMAIN a.chosen = 1..m /\ DOMAIN b.chosen = 1..(m + 1) /\ Len(b.chosen) = m + 1
           /\ \A i \in 1..m : b.chosen[i] = a.chosen[i]
           /\ b.chosen[m + 1] = x
      BY <1>2, <2>7
    <2>12. C \cup {c} = (before \cup {c}) \cap Usable(S)
      BY <2>2, <2>3
    <2>. HIDE DEF x
    <2>13. ASSUME NEW i \in DOMAIN b.chosen
           PROVE  /\ b.chosen[i].contribution \in b.chosen[i].coin.feeDeposit..b.chosen[i].coin.available
                  /\ b.remaining > 0 \/ i < Len(b.chosen) => b.chosen[i].contribution = b.chosen[i].coin.available
                  /\ \A d \in Usable(S) : Choice!IsBefore(d, b.chosen[i].coin) => d \in C \cup {c}
                  /\ i <= m => b.chosen[i].coin \in C
      <3>1. CASE i \in 1..m
        <4>1. b.chosen[i] = a.chosen[i] /\ i \in DOMAIN a.chosen
          BY <2>11, <3>1
        <4>2. /\ a.chosen[i].contribution \in a.chosen[i].coin.feeDeposit..a.chosen[i].coin.available
              /\ a.chosen[i].contribution = a.chosen[i].coin.available
              /\ \A d \in Usable(S) : Choice!IsBefore(d, a.chosen[i].coin) => d \in C
          BY <2>2, <4>1 DEF SoFar
        <4>3. a.chosen[i].coin \in C
          BY <4>1 DEF Choice!CoinsOf
        <4>. HIDE DEF b, C
        <4>. QED
          BY <4>1, <4>2, <4>3
      <3>2. CASE i = m + 1
        <4>1. b.chosen[i].coin = c /\ b.chosen[i].contribution = gives /\ b.remaining = rest
          BY <2>11, <3>2 DEF x
        <4>2. ~(i < Len(b.chosen)) /\ ~(i <= m)
          BY <2>11, <3>2
        <4>3. \A d \in Usable(S) : Choice!IsBefore(d, c) => d \in C
          BY <2>3 DEF Usable
        <4>. HIDE DEF b, C
        <4>. QED
          BY <2>6, <4>1, <4>2, <4>3
      <3>. QED
        BY <2>11, <3>1, <3>2
    <2>14. ASSUME NEW i \in DOMAIN b.chosen, NEW j \in DOMAIN b.chosen, i < j
           PROVE  Choice!IsBefore(b.chosen[i].coin, b.chosen[j].coin)
      <3>1. i \in 1..m /\ b.chosen[i] = a.chosen[i]
        BY <2>11, <2>14
      <3>2. CASE j \in 1..m
        BY <2>11, <2>14, <3>1, <3>2 DEF SoFar
      <3>3. CASE j = m + 1
        <4>1. b.chosen[j].coin = c /\ b.chosen[i].coin \in C
          BY <2>11, <2>13, <3>1, <3>3 DEF x
        <4>. QED
          BY <2>3, <4>1 DEF Usable
      <3>. QED
        BY <2>11, <3>2, <3>3
    <2>15. b.remaining = rest /\ b.limit = Choice!Remainder(feeLimit, c.feeDeposit + fees)
      BY <2>5
    <2>. HIDE DEF b, C, fees, paid, toll
    <2>16. SoFar(S, amount, feeLimit, before \cup {c}, b)
      <3>0. /\ paid \in Nat /\ a.remaining \in Nat /\ toll \in Nat /\ spend \in Nat /\ gives \in Nat /\ rest \in Nat
            /\ paid + a.remaining = amount + toll
            /\ rest > 0 => gives + rest = a.remaining + spend
            /\ rest = 0 => gives >= a.remaining + spend
        BY <1>2, <1>3, <2>3, <2>4, <2>6
      <3>1. b.remaining > 0 => /\ paid + gives = Sum(Worths(S), C \cup {c})
                               /\ paid + gives + b.remaining = amount + (toll + spend)
        <4>1. rest > 0 => paid + gives + rest = amount + (toll + spend)
          BY <3>0, AllPaysOff
        <4>2. rest > 0 => paid + gives = Sum(Worths(S), C \cup {c})
          BY <1>1, <1>3, <2>3, <2>6, <2>9
        <4>. QED
          BY <2>15, <4>1, <4>2
      <3>2. b.remaining = 0 => paid + gives >= amount + (toll + spend)
        <4>1. rest = 0 => paid + gives >= amount + (toll + spend)
          BY <3>0, AllPaysOff
        <4>. QED
          BY <2>15, <4>1
      <3>3. (\A d \in S : d.feeDeposit = 0) => (paid + gives) + b.remaining = amount
        <4>1. SUFFICES ASSUME \A d \in S : d.feeDeposit = 0
                       PROVE  (paid + gives) + b.remaining = amount
          OBVIOUS
        <4>2. c.feeDeposit = 0 /\ paid + a.remaining = amount
          BY <2>3, <4>1
        <4>. QED
          BY <1>2, <1>3, <2>6, <2>15, <4>2
      <3>. QED
        BY <2>5, <2>8, <2>9, <2>10, <2>12, <2>13, <2>14, <2>15, <3>1, <3>2, <3>3 DEF SoFar
    <2>. QED
      BY <2>1, <2>16
  <1>. QED
    BY <1>4, <1>5

FirstOf(S, k) == {Line(S)[i] : i \in 1..k}

LEMMA FirstAreBefore ==
  ASSUME NEW S, AreInfos(S), NEW k \in 1..Cardinality(S)
  PROVE  /\ FirstOf(S, k - 1) \subseteq S /\ Line(S)[k] \in S /\ Line(S)[k] \notin FirstOf(S, k - 1)
         /\ FirstOf(S, k) = FirstOf(S, k - 1) \cup {Line(S)[k]}
         /\ \A b \in S : b \in FirstOf(S, k - 1) <=> Choice!IsBefore(b, Line(S)[k])
  <1>. DEFINE n == Cardinality(S)
              p == Line(S)
  <1>1. /\ n \in Nat /\ \A i \in 1..n : p[i] \in S
        /\ \A x \in S : \E i \in 1..n : p[i] = x
        /\ \A i, j \in 1..n : i < j => Choice!IsBefore(p[i], p[j]) /\ p[i] # p[j]
    BY CoinsInLine
  <1>2. /\ \A x \in S : ~Choice!IsBefore(x, x)
        /\ \A x, y \in S : Choice!IsBefore(x, y) => ~Choice!IsBefore(y, x)
    BY DEF Choice!IsBefore, AreInfos, Known
  <1>. HIDE DEF n, p
  <1>3. k \in 1..n /\ 1..k = (1..(k - 1)) \cup {k} /\ 1..(k - 1) \subseteq 1..n /\ \A i \in 1..(k - 1) : i < k
    BY <1>1 DEF n
  <1>4. FirstOf(S, k - 1) = {p[i] : i \in 1..(k - 1)} /\ FirstOf(S, k) = {p[i] : i \in 1..k}
    BY DEF FirstOf, p
  <1>5. FirstOf(S, k) = FirstOf(S, k - 1) \cup {p[k]}
    BY <1>3, <1>4
  <1>6. FirstOf(S, k - 1) \subseteq S /\ p[k] \in S /\ p[k] \notin FirstOf(S, k - 1)
    BY <1>1, <1>3, <1>4
  <1>7. ASSUME NEW b \in S
        PROVE  b \in FirstOf(S, k - 1) <=> Choice!IsBefore(b, p[k])
    <2>1. ASSUME b \in FirstOf(S, k - 1)
          PROVE  Choice!IsBefore(b, p[k])
      BY <1>1, <1>3, <1>4, <2>1
    <2>2. ASSUME Choice!IsBefore(b, p[k])
          PROVE  b \in FirstOf(S, k - 1)
      <3>1. PICK i \in 1..n : p[i] = b
        BY <1>1
      <3>2. i # k
        BY <1>2, <1>6, <2>2, <3>1
      <3>3. ~(k < i)
        BY <1>1, <1>2, <1>3, <1>6, <2>2, <3>1
      <3>4. i \in 1..(k - 1)
        BY <1>3, <3>1, <3>2, <3>3
      <3>. QED
        BY <1>4, <3>1, <3>4
    <2>. QED
      BY <2>1, <2>2
  <1>. QED
    BY <1>5, <1>6, <1>7 DEF p

AtFirst(amount, feeLimit) == [remaining |-> amount, limit |-> feeLimit, chosen |-> <<>>]
AllTakenUp(S, amount, feeLimit) == TakeUp(AtFirst(amount, feeLimit), Line(S))

\* When all coins were taken up.
LEMMA SoFarAtLast ==
  ASSUME NEW S, AreInfos(S), NEW amount \in Nat, NEW feeLimit \in Nat
  PROVE  SoFar(S, amount, feeLimit, S, AllTakenUp(S, amount, feeLimit))
  <1>. DEFINE n == Cardinality(S)
              s == Line(S)
              base == AtFirst(amount, feeLimit)
  <1>1. /\ DOMAIN s = 1..n /\ n \in Nat /\ \A i \in 1..n : s[i] \in S
        /\ \A x \in S : \E i \in 1..n : s[i] = x
    BY CoinsInLine
  <1>2. SoFar(S, amount, feeLimit, {}, base)
    BY SoFarAtFirst DEF AtFirst
  <1>3. base \in Takings(S)
    BY <1>2 DEF SoFar
  <1>4. \A i \in 1..n : s[i] \in S /\ Known(s[i])
    BY <1>1 DEF AreInfos
  <1>. HIDE DEF n, s, base
  <1>5. PICK w : /\ w[0] = base
                 /\ \A k \in 0..n : w[k] \in Takings(S)
                 /\ \A k \in 1..n : w[k] = Choice!UseCoin(w[k - 1], s[k])
                 /\ TakeUp(base, s) = w[n]
    BY <1>1, <1>3, <1>4, UseWalks
  <1>. DEFINE Good == {k \in 0..n : SoFar(S, amount, feeLimit, FirstOf(S, k), w[k])}
  <1>6. 0 \in Good
    <2>1. FirstOf(S, 0) = {}
      BY DEF FirstOf
    <2>2. SoFar(S, amount, feeLimit, FirstOf(S, 0), w[0])
      BY <1>2, <1>5, <2>1
    <2>3. 0 \in 0..n
      BY <1>1
    <2>. QED
      BY <2>2, <2>3
  <1>7. ASSUME NEW k \in 1..n, k - 1 \in Good
        PROVE  k \in Good
    <2>1. /\ FirstOf(S, k - 1) \subseteq S /\ s[k] \in S /\ s[k] \notin FirstOf(S, k - 1)
          /\ FirstOf(S, k) = FirstOf(S, k - 1) \cup {s[k]}
          /\ \A b \in S : b \in FirstOf(S, k - 1) <=> Choice!IsBefore(b, s[k])
      BY FirstAreBefore DEF n, s
    <2>2. SoFar(S, amount, feeLimit, FirstOf(S, k - 1), w[k - 1])
      BY <1>7
    <2>3. SoFar(S, amount, feeLimit, FirstOf(S, k - 1) \cup {s[k]}, Choice!UseCoin(w[k - 1], s[k]))
      BY <2>1, <2>2, SoFarOn
    <2>4. k \in 0..n /\ w[k] = Choice!UseCoin(w[k - 1], s[k])
      BY <1>5
    <2>. QED
      BY <2>1, <2>3, <2>4
  <1>8. SoFar(S, amount, feeLimit, FirstOf(S, n), w[n])
    <2>. HIDE DEF Good
    <2>1. \A k \in 0..n : k \in Good
      BY <1>1, <1>6, <1>7, UpTo
    <2>2. n \in 0..n
      BY <1>1
    <2>. QED
      BY <2>1, <2>2 DEF Good
  <1>9. FirstOf(S, n) = S
    <2>1. FirstOf(S, n) = {s[i] : i \in 1..n}
      BY DEF FirstOf, s
    <2>. QED
      BY <1>1, <2>1
  <1>. QED
    BY <1>5, <1>8, <1>9 DEF AllTakenUp, base, s

LEMMA SelectionIs ==
  ASSUME NEW S, NEW amount, NEW feeLimit
  PROVE  Choice!SelectPayCoins(S, amount, feeLimit)
           = IF S = {} \/ AllTakenUp(S, amount, feeLimit).remaining > 0 THEN <<>>
             ELSE [paymentAmount |-> amount, chosen |-> AllTakenUp(S, amount, feeLimit).chosen,
                   customerWireFees |-> 0, customerDepositFees |-> 0]
  BY DEF Choice!SelectPayCoins, AllTakenUp, TakeUp, AtFirst, Line

LEMMA SelectionOrNothing ==
  ASSUME NEW paid, NEW choice
  PROVE  [paymentAmount |-> paid, chosen |-> choice, customerWireFees |-> 0, customerDepositFees |-> 0] # <<>>
  <1>. DEFINE r == [paymentAmount |-> paid, chosen |-> choice, customerWireFees |-> 0, customerDepositFees |-> 0]
  <1>1. "chosen" \in DOMAIN r
    OBVIOUS
  <1>2. DOMAIN <<>> = {}
    OBVIOUS
  <1>. QED
    BY <1>1, <1>2

\* Whatever coins there are: the coins that are selected pay the amount and the fees that
\* the merchant does not bear, each once and with no more than it has, and an amount is
\* refused only if all coins together cannot pay it (selectPayCoins).
THEOREM SelectionsPay ==
  ASSUME NEW S, AreInfos(S), NEW amount \in Nat, NEW feeLimit \in Nat
  PROVE  Choice!PaymentFits(S, amount, feeLimit)
  <1>. DEFINE a == AllTakenUp(S, amount, feeLimit)
              C == Choice!CoinsOf(a.chosen)
              r == Choice!SelectPayCoins(S, amount, feeLimit)
  <1>1. SoFar(S, amount, feeLimit, S, a)
    BY SoFarAtLast
  <1>2. C \subseteq S \cap Usable(S) /\ C \subseteq S /\ Usable(S) \subseteq S /\ a.remaining \in Nat
        /\ a.chosen \in Seq([coin : S, contribution : Nat])
    BY <1>1 DEF SoFar, Takings, Usable
  <1>3. Choice!Toll(C, feeLimit) = Choice!Remainder(Sum(Fees(S), C), feeLimit)
    BY <1>2, SumOfFees DEF Choice!Toll
  <1>. HIDE DEF a
  <1>4. CASE r = <<>>
    <2>1. S = {} \/ a.remaining > 0
      BY <1>4, SelectionIs, SelectionOrNothing DEF a
    <2>2. CASE S # {} /\ a.remaining > 0
      <3>1. /\ C = Usable(S) /\ Choice!Contributed(a.chosen) = Sum(Worths(S), C)
            /\ Choice!Contributed(a.chosen) + a.remaining = amount + Choice!Remainder(Sum(Fees(S), C), feeLimit)
        <4>1. S \cap Usable(S) = Usable(S)
          BY <1>2
        <4>. QED
          BY <1>1, <2>2, <4>1 DEF SoFar
      <3>2. Choice!Sum([c \in Usable(S) |-> c.available], Usable(S)) = Sum(Worths(S), C) /\ Sum(Worths(S), C) \in Nat
        BY <1>2, <3>1, SumOfFees
      <3>3. Choice!Sum([c \in Usable(S) |-> c.available], Usable(S)) < amount + Choice!Toll(Usable(S), feeLimit)
        <4>1. Sum(Worths(S), C) < amount + Choice!Toll(C, feeLimit)
          <5>1. Choice!Toll(C, feeLimit) \in Nat
            <6>1. Sum(Fees(S), C) \in Nat
              BY <1>2, SumOfFees
            <6>. QED
              BY <1>3, <6>1 DEF Choice!Remainder
          <5>. HIDE DEF C
          <5>. QED
            BY <1>2, <1>3, <2>2, <3>1, <3>2, <5>1
        <4>. QED
          BY <3>1, <3>2, <4>1
      <3>. QED
        BY <1>4, <3>3 DEF Choice!PaymentFits, Usable
    <2>. QED
      BY <1>4, <2>1, <2>2 DEF Choice!PaymentFits
  <1>5. CASE r # <<>>
    <2>1. r.chosen = a.chosen /\ ~(a.remaining > 0)
      BY <1>5, SelectionIs DEF a
    <2>2. a.remaining = 0
      BY <1>2, <2>1
    <2>3. Choice!Contributed(a.chosen) >= amount + Choice!Toll(C, feeLimit)
      BY <1>1, <1>3, <2>2 DEF SoFar
    <2>4. \A i \in DOMAIN a.chosen : a.chosen[i].contribution \in a.chosen[i].coin.feeDeposit..a.chosen[i].coin.available
      BY <1>1 DEF SoFar
    <2>5. \A i, j \in DOMAIN a.chosen : i # j => a.chosen[i].coin # a.chosen[j].coin
      <3>1. \A x \in S : ~Choice!IsBefore(x, x)
        BY DEF Choice!IsBefore, AreInfos, Known
      <3>2. \A i \in DOMAIN a.chosen : i \in Int /\ a.chosen[i].coin \in C
        <4>1. DOMAIN a.chosen = 1..Len(a.chosen)
          BY <1>2
        <4>. QED
          BY <4>1 DEF Choice!CoinsOf
      <3>3. \A i, j \in DOMAIN a.chosen : i < j => Choice!IsBefore(a.chosen[i].coin, a.chosen[j].coin)
        BY <1>1 DEF SoFar
      <3>4. ASSUME NEW i \in DOMAIN a.chosen, NEW j \in DOMAIN a.chosen, i # j
            PROVE  a.chosen[i].coin # a.chosen[j].coin
        <4>1. i < j \/ j < i
          BY <3>2, <3>4
        <4>. QED
          BY <1>2, <3>1, <3>2, <3>3, <4>1
      <3>. QED
        BY <3>4
    <2>. HIDE DEF r
    <2>6. PICK q : q = r /\ q.chosen = a.chosen
      BY <2>1
    <2>. QED
      BY <1>2, <1>5, <2>1, <2>3, <2>4, <2>5 DEF Choice!PaymentFits, r
  <1>. QED
    BY <1>4, <1>5

-----------------------------------------------------------------------------
(* selectPayCoins and the purchases: SelectCoins chooses any selection, and *)
(* those that the code makes are among them.                               *)

\* What is contributed by a coin.
Given(choice, x) ==
  IF \E i \in DOMAIN choice : choice[i].coin = x
  THEN choice[CHOOSE i \in DOMAIN choice : choice[i].coin = x].contribution ELSE 0

LEMMA GivenAdds ==
  ASSUME NEW S, IsFiniteSet(S), NEW choice \in Seq([coin : S, contribution : Nat]),
         \A i, j \in DOMAIN choice : i # j => choice[i].coin # choice[j].coin
  PROVE  /\ \A i \in DOMAIN choice : Given(choice, choice[i].coin) = choice[i].contribution
         /\ \A x \in S : Given(choice, x) \in Nat
         /\ Sum([x \in S |-> Given(choice, x)], S) = Choice!Contributed(choice)
  <1>. DEFINE D == DOMAIN choice
              E == [coin : S, contribution : Nat]
              h == [i \in D |-> choice[i].coin]
              f == [x \in S |-> Given(choice, x)]
              g == [i \in D |-> choice[i].contribution]
  <1>1. D = 1..Len(choice) /\ Len(choice) \in Nat /\ \A i \in D : choice[i] \in E
    <2>1. choice \in Seq(E)
      OBVIOUS
    <2>. HIDE DEF E
    <2>. QED
      BY <2>1
  <1>2. IsFiniteSet(D)
    <2>1. IsFiniteSet(1..Len(choice))
      BY <1>1, FS_Interval
    <2>. QED
      BY <1>1, <2>1
  <1>3. \A i \in D : Given(choice, choice[i].coin) = choice[i].contribution
    BY DEF Given
  <1>4. \A i \in D : choice[i].coin \in S /\ choice[i].contribution \in Nat
    BY <1>1
  <1>5. \A x \in S : Given(choice, x) \in Nat
    BY <1>4 DEF Given
  <1>6. \A i \in D : h[i] = choice[i].coin /\ g[i] = choice[i].contribution
    OBVIOUS
  <1>7. \A x \in S : f[x] = Given(choice, x)
    OBVIOUS
  <1>. DEFINE T == Image(h, D)
  <1>8. T \subseteq S /\ \A x \in S : x \notin T => Given(choice, x) = 0
    BY <1>4, <1>6 DEF Image, Given
  <1>9. Choice!Contributed(choice) = Sum(g, D)
    BY ContributedIs
  <1>10. Injective(h, D)
    BY <1>6 DEF Injective
  <1>. HIDE DEF D, E, h, f, g
  <1>11. NaturalOn(f, T) /\ NaturalOn(f, S)
    BY <1>5, <1>7, <1>8 DEF NaturalOn
  <1>12. \A i \in D : g[i] = f[h[i]]
    BY <1>3, <1>4, <1>6, <1>7
  <1>13. Sum(g, D) = Sum(f, T)
    BY <1>2, <1>10, <1>11, <1>12, SumOfImage
  <1>14. Sum(f, T) = Sum(f, S)
    <2>. HIDE DEF T
    <2>1. Sum(f, T) = Sum([x \in S |-> IF x \in T THEN f[x] ELSE 0], S)
      BY <1>8, <1>11, SumOfPart
    <2>2. \A x \in S : [y \in S |-> IF y \in T THEN f[y] ELSE 0][x] = f[x]
      BY <1>7, <1>8
    <2>3. Sum([x \in S |-> IF x \in T THEN f[x] ELSE 0], S) = Sum(f, S)
      <3>. DEFINE k == [x \in S |-> IF x \in T THEN f[x] ELSE 0]
      <3>1. \A x \in S : k[x] = f[x]
        BY <2>2
      <3>. HIDE DEF k
      <3>2. Sum(k, S) = Sum(f, S)
        BY <1>11, <3>1, SumsAgree
      <3>. QED
        BY <3>2 DEF k
    <2>. QED
      BY <2>1, <2>3
  <1>. QED
    BY <1>3, <1>5, <1>9, <1>13, <1>14 DEF f, D

-----------------------------------------------------------------------------
\* The fresh coins as selectPayCoins gets them, by the order of their names; the merchant
\* bears the fees.
Info(Name, c) == [coinPub |-> Name[c], available |-> coin[c].amount, feeDeposit |-> 0]
Infos(Name) == {Info(Name, c) : c \in Fresh}
Names == {Name \in [Coins -> Nat] : \A c, d \in Coins : c # d => Name[c] # Name[d]}

LEMMA InfosAreCoins ==
  ASSUME TypeOK, NEW Name \in Names
  PROVE  /\ AreInfos(Infos(Name)) /\ IsFiniteSet(Fresh)
         /\ \A c \in Fresh : /\ Info(Name, c) \in Infos(Name) /\ coin[c].amount \in Nat
                             /\ Info(Name, c).available = coin[c].amount
                             /\ Info(Name, c).feeDeposit = 0
         /\ \A x \in Infos(Name) : x.feeDeposit = 0
         /\ \A c, d \in Fresh : Info(Name, c) = Info(Name, d) => c = d
         /\ Sum(Worths(Infos(Name)), Infos(Name)) = Sum([c \in Coins |-> coin[c].amount], Fresh)
  <1>. DEFINE S == Infos(Name)
              h == [c \in Fresh |-> Info(Name, c)]
              g == [c \in Coins |-> coin[c].amount]
  <1>1. IsFiniteSet(Fresh) /\ Fresh \subseteq Coins
    BY CoinsAssumption, FS_Subset DEF Fresh
  <1>2. \A c \in Fresh : coin[c].amount \in Nat /\ Name[c] \in Nat
    BY <1>1 DEF TypeOK, CoinRecords, Names
  <1>3. \A c \in Fresh : h[c] = Info(Name, c)
    OBVIOUS
  <1>4. \A c, d \in Fresh : Info(Name, c) = Info(Name, d) => c = d
    BY <1>1 DEF Info, Names
  <1>5. Injective(h, Fresh)
    BY <1>3, <1>4 DEF Injective
  <1>6. Image(h, Fresh) = S
    BY DEF Image, Infos
  <1>7. \A x \in S : Known(x) /\ x.feeDeposit = 0
    BY <1>2 DEF Known, Infos, Info
  <1>8. \A x, y \in S : x # y => x.coinPub # y.coinPub
    BY <1>1 DEF Infos, Info, Names
  <1>9. \A c \in Fresh : g[c] = Worths(S)[h[c]]
    <2>1. ASSUME NEW c \in Fresh
          PROVE  g[c] = Worths(S)[h[c]]
      <3>1. h[c] \in S /\ h[c] = Info(Name, c)
        BY DEF Infos
      <3>2. Worths(S)[h[c]] = h[c].available
        BY <3>1 DEF Worths
      <3>. QED
        BY <1>1, <3>1, <3>2 DEF Info
    <2>. QED
      BY <2>1
  <1>10. NaturalOn(Worths(S), S)
    BY <1>7 DEF Worths, NaturalOn, Known
  <1>. HIDE DEF S, h, g
  <1>11. Sum(g, Fresh) = Sum(Worths(S), S) /\ IsFiniteSet(S)
    BY <1>1, <1>5, <1>6, <1>9, <1>10, SumOfImage
  <1>12. AreInfos(S)
    BY <1>7, <1>8, <1>11 DEF AreInfos
  <1>13. \A c \in Fresh : Info(Name, c) \in S /\ Info(Name, c).available = coin[c].amount /\ Info(Name, c).feeDeposit = 0
    BY DEF S, Infos, Info
  <1>. QED
    BY <1>1, <1>2, <1>4, <1>7, <1>11, <1>12, <1>13 DEF S, g

\* What a selection gives to each coin is one of those SelectCoins chooses from.
LEMMA SelectionIsOne ==
  ASSUME TypeOK, NEW Name \in Names, NEW price \in Nat,
         NEW a, SoFar(Infos(Name), price, 0, Infos(Name), a), a.remaining = 0
  PROVE  /\ [c \in Fresh |-> Given(a.chosen, Info(Name, c))] \in [Fresh -> 0..price]
         /\ IsSelection([c \in Fresh |-> Given(a.chosen, Info(Name, c))], price)
  <1>. DEFINE S == Infos(Name)
              s == a.chosen
              n == Len(a.chosen)
              f == [c \in Fresh |-> Given(a.chosen, Info(Name, c))]
              k == [x \in S |-> Given(a.chosen, x)]
              h == [c \in Fresh |-> Info(Name, c)]
  <1>1. /\ AreInfos(S) /\ IsFiniteSet(S) /\ IsFiniteSet(Fresh)
        /\ \A c \in Fresh : /\ Info(Name, c) \in S /\ coin[c].amount \in Nat
                            /\ Info(Name, c).available = coin[c].amount
                            /\ Info(Name, c).feeDeposit = 0
        /\ \A x \in S : x.feeDeposit = 0
        /\ \A c, d \in Fresh : Info(Name, c) = Info(Name, d) => c = d
    BY InfosAreCoins DEF AreInfos
  <1>2. /\ s \in Seq([coin : S, contribution : Nat]) /\ n \in Nat /\ DOMAIN s = 1..n
        /\ Choice!Contributed(s) = price
    <2>1. a \in Takings(S) /\ Choice!Contributed(s) + a.remaining = price
      BY <1>1 DEF SoFar
    <2>2. s \in Seq([coin : S, contribution : Nat])
      BY <2>1 DEF Takings
    <2>3. Choice!Contributed(s) \in Nat
      BY <2>2, ContributedIs
    <2>. QED
      BY <2>1, <2>2, <2>3
  <1>3. \A i \in 1..n : /\ s[i].coin \in S /\ s[i].contribution \in Nat /\ i \in Nat
                        /\ s[i].contribution <= s[i].coin.available
                        /\ i < n => s[i].contribution = s[i].coin.available
                        /\ \A x \in Usable(S) : Choice!IsBefore(x, s[i].coin) => \E j \in 1..n : s[j].coin = x
    <2>1. ASSUME NEW i \in 1..n
          PROVE  s[i].coin \in S /\ s[i].contribution \in Nat
      <3>. DEFINE E == [coin : S, contribution : Nat]
      <3>1. s \in Seq(E)
        BY <1>2
      <3>. HIDE DEF E
      <3>2. s[i] \in E
        BY <1>2, <3>1
      <3>. QED
        BY <3>2 DEF E
    <2>2. ASSUME NEW i \in 1..n
          PROVE  /\ s[i].contribution \in s[i].coin.feeDeposit..s[i].coin.available
                 /\ i < n => s[i].contribution = s[i].coin.available
                 /\ \A x \in Usable(S) : Choice!IsBefore(x, s[i].coin) => x \in Choice!CoinsOf(s)
      BY <1>2 DEF SoFar
    <2>3. Choice!CoinsOf(s) = {s[i].coin : i \in 1..n}
      BY <1>2 DEF Choice!CoinsOf
    <2>4. \A x \in S : x.available \in Nat
      BY <1>1 DEF AreInfos, Known
    <2>. QED
      BY <1>1, <1>2, <2>1, <2>2, <2>3, <2>4
  <1>4. \A i, j \in 1..n : i < j => Choice!IsBefore(s[i].coin, s[j].coin)
    BY <1>2 DEF SoFar
  <1>5. /\ \A x \in S : ~Choice!IsBefore(x, x)
        /\ \A x, y \in S : Choice!IsBefore(x, y) => ~Choice!IsBefore(y, x)
    BY <1>1 DEF Choice!IsBefore, AreInfos, Known
  <1>6. \A i, j \in 1..n : i # j => s[i].coin # s[j].coin
    <2>1. ASSUME NEW i \in 1..n, NEW j \in 1..n, i # j
          PROVE  s[i].coin # s[j].coin
      <3>1. i < j \/ j < i
        BY <1>3, <2>1
      <3>. QED
        BY <1>3, <1>4, <1>5, <3>1
    <2>. QED
      BY <2>1
  <1>. HIDE DEF S, s, n
  <1>7. /\ \A i \in 1..n : Given(s, s[i].coin) = s[i].contribution
        /\ \A x \in S : Given(s, x) \in Nat
        /\ Sum([x \in S |-> Given(s, x)], S) = price
    <2>1. \A i, j \in DOMAIN s : i # j => s[i].coin # s[j].coin
      BY <1>2, <1>6
    <2>2. /\ \A i \in DOMAIN s : Given(s, s[i].coin) = s[i].contribution
          /\ \A x \in S : Given(s, x) \in Nat
          /\ Sum([x \in S |-> Given(s, x)], S) = Choice!Contributed(s)
      BY <1>1, <1>2, <2>1, GivenAdds
    <2>. QED
      BY <1>2, <2>2
  <1>8. \A x \in S : Given(s, x) > 0 => \E i \in 1..n : s[i].coin = x
    BY <1>2 DEF Given
  <1>9. \A c \in Fresh : f[c] = k[h[c]] /\ f[c] \in Nat /\ f[c] = Given(s, Info(Name, c))
    BY <1>1, <1>7 DEF s
  <1>10. Sum(f, Fresh) = price
    <2>1. Image(h, Fresh) = S
      BY DEF Image, S, Infos
    <2>2. Injective(h, Fresh)
      BY <1>1 DEF Injective
    <2>3. NaturalOn(k, S)
      BY <1>7 DEF NaturalOn, s
    <2>4. \A c \in Fresh : f[c] = k[h[c]]
      BY <1>9
    <2>5. Sum(k, S) = price
      BY <1>7 DEF s
    <2>. HIDE DEF f, k, h
    <2>6. Sum(f, Fresh) = Sum(k, Image(h, Fresh))
      BY <1>1, <2>1, <2>2, <2>3, <2>4, SumOfImage
    <2>. QED
      BY <2>1, <2>5, <2>6
  <1>11. ASSUME NEW c \in Fresh, f[c] > 0
         PROVE  \E i \in 1..n : s[i].coin = Info(Name, c) /\ f[c] = s[i].contribution
    <2>1. PICK i \in 1..n : s[i].coin = Info(Name, c)
      BY <1>1, <1>8, <1>9, <1>11
    <2>2. f[c] = Given(s, s[i].coin)
      BY <1>9, <2>1
    <2>3. f[c] = s[i].contribution
      BY <1>7, <2>2
    <2>. HIDE DEF f
    <2>. QED
      BY <2>1, <2>3
  <1>12. DOMAIN f = Fresh
    OBVIOUS
  <1>. HIDE DEF f, k, h
  <1>13. \A c \in Fresh : f[c] <= coin[c].amount
    <2>1. ASSUME NEW c \in Fresh
          PROVE  f[c] <= coin[c].amount
      <3>1. CASE f[c] > 0
        BY <1>1, <1>3, <1>11, <2>1, <3>1
      <3>2. CASE f[c] = 0
        BY <1>1, <3>2
      <3>. QED
        BY <1>9, <3>1, <3>2
    <2>. QED
      BY <2>1
  \* Of two coins that give something, the one that comes first gives all it has.
  <1>14. ASSUME NEW c \in Fresh, NEW d \in Fresh, f[d] > 0, c # d
         PROVE  /\ coin[c].amount > coin[d].amount => f[c] = coin[c].amount
                /\ f[c] > 0 => f[c] = coin[c].amount \/ f[d] = coin[d].amount
    <2>1. PICK j \in 1..n : s[j].coin = Info(Name, d) /\ f[d] = s[j].contribution
      BY <1>11, <1>14
    <2>2. ASSUME NEW i \in 1..n, s[i].coin = Info(Name, c)
          PROVE  i # j /\ (i < j \/ j < i) /\ f[c] = s[i].contribution
      <3>1. i # j
        BY <1>1, <1>14, <2>1, <2>2
      <3>2. Given(s, Info(Name, c)) = s[i].contribution
        BY <1>7, <2>2
      <3>. QED
        BY <1>3, <1>9, <3>1, <3>2
    <2>3. \A i, m \in 1..n : i < m => s[i].contribution = s[i].coin.available
      BY <1>2, <1>3
    <2>4. ASSUME coin[c].amount > coin[d].amount
          PROVE  f[c] = coin[c].amount
      <3>1. Choice!IsBefore(Info(Name, c), Info(Name, d))
        BY <1>1, <2>4 DEF Choice!IsBefore
      <3>2. Info(Name, c) \in Usable(S)
        BY <1>1, <1>14, <2>4 DEF Usable
      <3>3. PICK i \in 1..n : s[i].coin = Info(Name, c)
        BY <1>3, <2>1, <3>1, <3>2
      <3>4. ~(j < i)
        BY <1>3, <1>4, <1>5, <2>1, <3>1, <3>3
      <3>5. i < j
        BY <2>2, <3>3, <3>4
      <3>. QED
        BY <1>1, <2>2, <2>3, <3>3, <3>5
    <2>5. ASSUME f[c] > 0
          PROVE  f[c] = coin[c].amount \/ f[d] = coin[d].amount
      <3>1. PICK i \in 1..n : s[i].coin = Info(Name, c)
        BY <1>11, <2>5
      <3>2. CASE i < j
        BY <1>1, <2>2, <2>3, <3>1, <3>2
      <3>3. CASE j < i
        BY <1>1, <2>1, <2>3, <3>3
      <3>. QED
        BY <2>2, <3>1, <3>2, <3>3
    <2>. QED
      BY <2>4, <2>5
  <1>15. f \in [Fresh -> 0..price]
    <2>1. ASSUME NEW c \in Fresh
          PROVE  f[c] \in 0..price
      <3>1. NaturalOn(f, Fresh)
        BY <1>9 DEF NaturalOn
      <3>2. Sum(f, Fresh) = f[c] + Sum(f, Fresh \ {c})
        BY <1>1, <3>1, SumWithout
      <3>3. IsFiniteSet(Fresh \ {c}) /\ NaturalOn(f, Fresh \ {c})
        BY <1>1, <3>1, FS_RemoveElement DEF NaturalOn
      <3>4. Sum(f, Fresh \ {c}) \in Nat /\ f[c] \in Nat
        BY <1>9, <3>3, SumIsNatural
      <3>. QED
        BY <1>10, <3>2, <3>4
    <2>. QED
      BY <1>12, <2>1 DEF f
  <1>16. IsSelection(f, price)
    BY <1>10, <1>12, <1>13, <1>14 DEF IsSelection
  <1>. QED
    BY <1>15, <1>16 DEF f

\* The coins give no more than they have.
LEMMA PaidFromCoins ==
  ASSUME NEW S, AreInfos(S), NEW amount, NEW feeLimit, NEW before, NEW a, SoFar(S, amount, feeLimit, before, a)
  PROVE  Choice!Contributed(a.chosen) <= Sum(Worths(S), S)
  <1>. DEFINE s == a.chosen
              E == [coin : S, contribution : Nat]
              k == [x \in S |-> Given(a.chosen, x)]
  <1>1. IsFiniteSet(S) /\ NaturalOn(Worths(S), S)
    BY FeesAreNatural DEF AreInfos
  <1>2. s \in Seq(E)
    BY DEF SoFar, Takings
  <1>3. DOMAIN s = 1..Len(s) /\ Len(s) \in Nat /\ \A i \in DOMAIN s : s[i] \in E
    <2>. HIDE DEF E
    <2>. QED
      BY <1>2
  <1>4. \A i \in DOMAIN s : s[i].coin \in S /\ s[i].contribution \in Nat /\ i \in Int
    BY <1>3
  <1>5. \A x \in S : x.available \in Nat /\ x.feeDeposit \in Nat /\ ~Choice!IsBefore(x, x)
    BY DEF AreInfos, Known, Choice!IsBefore
  <1>6. \A i \in DOMAIN s : s[i].contribution <= s[i].coin.available
    <2>1. \A i \in DOMAIN s : s[i].contribution \in s[i].coin.feeDeposit..s[i].coin.available
      BY DEF SoFar
    <2>. QED
      BY <1>4, <1>5, <2>1
  <1>7. \A i, j \in DOMAIN s : i < j => Choice!IsBefore(s[i].coin, s[j].coin)
    BY DEF SoFar
  <1>8. \A i, j \in DOMAIN s : i # j => s[i].coin # s[j].coin
    <2>1. ASSUME NEW i \in DOMAIN s, NEW j \in DOMAIN s, i # j
          PROVE  s[i].coin # s[j].coin
      <3>1. i < j \/ j < i
        BY <1>4, <2>1
      <3>. QED
        BY <1>4, <1>5, <1>7, <3>1
    <2>. QED
      BY <2>1
  <1>9. /\ \A i \in DOMAIN s : Given(s, s[i].coin) = s[i].contribution
        /\ \A x \in S : Given(s, x) \in Nat
        /\ Sum([x \in S |-> Given(s, x)], S) = Choice!Contributed(s)
    <2>. HIDE DEF s
    <2>. QED
      BY <1>1, <1>2, <1>8, GivenAdds
  <1>10. \A x \in S : Given(s, x) <= Worths(S)[x]
    <2>1. ASSUME NEW x \in S
          PROVE  Given(s, x) <= x.available
      <3>1. CASE \E i \in DOMAIN s : s[i].coin = x
        BY <1>6, <1>9, <3>1
      <3>2. CASE ~\E i \in DOMAIN s : s[i].coin = x
        BY <1>5, <3>2 DEF Given
      <3>. QED
        BY <3>1, <3>2
    <2>. QED
      BY <2>1 DEF Worths
  <1>11. NaturalOn(k, S) /\ \A x \in S : k[x] <= Worths(S)[x]
    BY <1>9, <1>10 DEF NaturalOn
  <1>12. Sum(k, S) = Choice!Contributed(s)
    BY <1>9
  <1>. HIDE DEF k
  <1>. QED
    BY <1>1, <1>11, <1>12, SumsCompare

\* Whatever is in the wallet: selectPayCoins gives nothing exactly when confirmPay ends for
\* want of coins, and what it gives is one of the contributions SelectCoins chooses from.
THEOREM SelectionsAreChoices ==
  ASSUME TypeOK, NEW Name \in Names, NEW p \in Proposals,
         NEW result, result = Choice!SelectPayCoins(Infos(Name), Price[p], 0)
  PROVE  /\ result = <<>> <=> Sum([c \in Coins |-> coin[c].amount], Fresh) < Price[p]
         /\ result # <<>> =>
              LET f == [c \in Fresh |-> Given(result.chosen, Info(Name, c))]
              IN f \in [Fresh -> 0..Price[p]] /\ IsSelection(f, Price[p])
  <1>. DEFINE S == Infos(Name)
              a == AllTakenUp(S, Price[p], 0)
              there == Sum([c \in Coins |-> coin[c].amount], Fresh)
  <1>1. /\ AreInfos(S) /\ \A x \in S : x.feeDeposit = 0
        /\ Sum(Worths(S), S) = there
    BY InfosAreCoins
  <1>2. Price[p] \in Nat /\ Price[p] > 0
    BY CoinsAssumption
  <1>3. SoFar(S, Price[p], 0, S, a)
    BY <1>1, <1>2, SoFarAtLast
  <1>4. result = IF S = {} \/ a.remaining > 0 THEN <<>>
                 ELSE [paymentAmount |-> Price[p], chosen |-> a.chosen,
                       customerWireFees |-> 0, customerDepositFees |-> 0]
    BY SelectionIs
  <1>. HIDE DEF a
  <1>5. a \in Takings(S) /\ a.remaining \in Nat /\ a.chosen \in Seq([coin : S, contribution : Nat])
    BY <1>3 DEF SoFar, Takings
  <1>. DEFINE C == Choice!CoinsOf(a.chosen)
              paid == Choice!Contributed(a.chosen)
  <1>6. /\ paid + a.remaining = Price[p] /\ paid \in Nat
        /\ C \subseteq Usable(S) /\ C \subseteq S
        /\ a.remaining > 0 => C = Usable(S) /\ paid = Sum(Worths(S), C)
    BY <1>1, <1>3, <1>5, ContributedIs DEF SoFar, Usable
  <1>7. Usable(S) \subseteq S /\ Sum(Worths(S), Usable(S)) = there
    <2>1. Usable(S) \subseteq S
      BY DEF Usable
    <2>2. IsFiniteSet(S) /\ NaturalOn(Worths(S), S)
      BY <1>1, FeesAreNatural DEF AreInfos
    <2>3. \A x \in S : x \notin Usable(S) => Worths(S)[x] = 0
      BY <1>1 DEF Usable, Worths, AreInfos, Known
    <2>4. Sum(Worths(S), Usable(S)) = Sum([x \in S |-> IF x \in Usable(S) THEN Worths(S)[x] ELSE 0], S)
      BY <2>1, <2>2, SumOfPart
    <2>. DEFINE k == [x \in S |-> IF x \in Usable(S) THEN Worths(S)[x] ELSE 0]
    <2>5. \A x \in S : k[x] = Worths(S)[x]
      BY <2>3
    <2>. HIDE DEF k, S
    <2>6. Sum(k, S) = Sum(Worths(S), S)
      BY <2>2, <2>5, SumsAgree
    <2>. QED
      BY <1>1, <2>1, <2>4, <2>6 DEF k
  <1>8. there \in Nat
    BY <1>1, SumOfFees
  <1>. HIDE DEF S, C, there
  <1>9. CASE S = {} \/ a.remaining > 0
    <2>1. result = <<>>
      BY <1>4, <1>9
    <2>2. there < Price[p]
      <3>1. CASE a.remaining > 0
        <4>1. paid = there
          BY <1>6, <1>7, <3>1
        <4>. QED
          BY <1>5, <1>6, <1>8, <3>1, <4>1
      <3>2. CASE S = {}
        <4>1. there = 0
          BY <1>1, <3>2, SumOfNone
        <4>. QED
          BY <1>2, <4>1
      <3>. QED
        BY <1>9, <3>1, <3>2
    <2>. QED
      BY <2>1, <2>2 DEF there
  <1>10. CASE ~(S = {} \/ a.remaining > 0)
    <2>1. result = [paymentAmount |-> Price[p], chosen |-> a.chosen,
                    customerWireFees |-> 0, customerDepositFees |-> 0]
      BY <1>4, <1>10
    <2>2. result # <<>> /\ result.chosen = a.chosen
      BY <2>1, SelectionOrNothing
    <2>3. a.remaining = 0
      BY <1>5, <1>10
    <2>4. /\ [c \in Fresh |-> Given(a.chosen, Info(Name, c))] \in [Fresh -> 0..Price[p]]
          /\ IsSelection([c \in Fresh |-> Given(a.chosen, Info(Name, c))], Price[p])
      BY <1>2, <1>3, <2>3, SelectionIsOne DEF S
    <2>5. ~(there < Price[p])
      <3>1. paid = Price[p]
        BY <1>2, <1>6, <2>3
      <3>2. paid <= Sum(Worths(S), S)
        BY <1>1, <1>3, <1>6, PaidFromCoins
      <3>. QED
        BY <1>1, <1>2, <1>8, <3>1, <3>2
    <2>. QED
      BY <2>2, <2>4, <2>5 DEF there
  <1>. QED
    BY <1>9, <1>10

-----------------------------------------------------------------------------
(* getWithdrawDenomList.  In each turn it picks the first denomination that  *)
(* is affordable; PickedSoFar holds after each turn.                        *)

\* Denominations whose values and fees are known, and the places of some of them by value.
Offer(denoms) ==
  \E n \in Nat : DOMAIN denoms = 1..n /\ \A i \in 1..n : denoms[i].value \in Nat /\ denoms[i].feeWithdraw \in Nat
Before(denoms, i, j) == denoms[i].value > denoms[j].value \/ (denoms[i].value = denoms[j].value /\ i < j)
ByValue(denoms, W) == {q \in W \X W : Before(denoms, q[1], q[2])}
Places(denoms, W) ==
  [k \in 1..Choice!Cardinality(W) |->
     CHOOSE i \in W : Choice!Cardinality({j \in W : Before(denoms, j, i)}) = k - 1]
InTurn(denoms, W) == [k \in DOMAIN Places(denoms, W) |-> denoms[Places(denoms, W)[k]]]

LEMMA DenomsInTurn ==
  ASSUME NEW denoms, Offer(denoms), NEW W, W \subseteq DOMAIN denoms
  PROVE  \E n \in Nat :
           /\ DOMAIN InTurn(denoms, W) = 1..n
           /\ \A k \in 1..n : \E i \in W : InTurn(denoms, W)[k] = denoms[i]
           /\ \A i \in W : \E k \in 1..n : InTurn(denoms, W)[k] = denoms[i]
           /\ \A k, m \in 1..n : k < m => InTurn(denoms, W)[k].value >= InTurn(denoms, W)[m].value
  <1>. DEFINE n == Cardinality(W)
              R == ByValue(denoms, W)
              p == Places(denoms, W)
  <1>1. IsFiniteSet(W) /\ W \subseteq Int /\ \A i \in W : denoms[i].value \in Nat
    <2>1. PICK m \in Nat : DOMAIN denoms = 1..m /\ \A i \in 1..m : denoms[i].value \in Nat
      BY DEF Offer
    <2>2. IsFiniteSet(1..m) /\ W \subseteq 1..m
      BY <2>1, FS_Interval
    <2>. QED
      BY <2>1, <2>2, FS_Subset
  <1>2. Orders(R, W)
    <2>1. \A i, j \in W : <<i, j>> \in R <=> Before(denoms, i, j)
      BY DEF ByValue
    <2>2. \A i \in W : ~Before(denoms, i, i)
      BY <1>1 DEF Before
    <2>3. \A i, j, k \in W : Before(denoms, i, j) /\ Before(denoms, j, k) => Before(denoms, i, k)
      BY <1>1 DEF Before
    <2>4. \A i, j \in W : i # j => Before(denoms, i, j) \/ Before(denoms, j, i)
      BY <1>1 DEF Before
    <2>. HIDE DEF R
    <2>. QED
      BY <2>1, <2>2, <2>3, <2>4 DEF Orders
  <1>3. p = [k \in 1..n |-> CHOOSE i \in W : Cardinality({j \in W : Before(denoms, j, i)}) = k - 1]
    BY DEF Places, Choice!Cardinality, Cardinality
  <1>4. \A i \in W : {j \in W : Before(denoms, j, i)} = Below(R, W, i)
    BY DEF Below, ByValue
  <1>5. ASSUME NEW k \in 1..n, \E i \in W : Cardinality(Below(R, W, i)) = k - 1
        PROVE  p[k] \in W /\ Cardinality(Below(R, W, p[k])) = k - 1
    <2>1. \E i \in W : Cardinality({j \in W : Before(denoms, j, i)}) = k - 1
      BY <1>4, <1>5
    <2>2. p[k] = CHOOSE i \in W : Cardinality({j \in W : Before(denoms, j, i)}) = k - 1
      BY <1>3
    <2>. HIDE DEF R, p
    <2>3. p[k] \in W /\ Cardinality({j \in W : Before(denoms, j, p[k])}) = k - 1
      BY <2>1, <2>2
    <2>. QED
      BY <1>4, <2>3
  <1>6. DOMAIN p = 1..n /\ n \in Nat
    BY <1>1, <1>3, FS_CardinalityType
  <1>. HIDE DEF R, p
  <1>7. /\ \A k \in 1..n : p[k] \in W
        /\ \A i \in W : \E k \in 1..n : p[k] = i
        /\ \A k, m \in 1..n : k < m => <<p[k], p[m]>> \in R /\ p[k] # p[m]
    BY <1>1, <1>2, <1>5, Sorted
  <1>8. \A k, m \in 1..n : k < m => denoms[p[k]].value >= denoms[p[m]].value
    <2>1. \A k, m \in 1..n : k < m => Before(denoms, p[k], p[m])
      BY <1>7 DEF R, ByValue
    <2>. QED
      BY <1>1, <1>7, <2>1 DEF Before
  <1>9. DOMAIN InTurn(denoms, W) = 1..n /\ \A k \in 1..n : InTurn(denoms, W)[k] = denoms[p[k]]
    BY <1>6 DEF InTurn, p
  <1>. HIDE DEF n
  <1>10. \A k \in 1..n : \E i \in W : InTurn(denoms, W)[k] = denoms[i]
    BY <1>7, <1>9
  <1>11. \A i \in W : \E k \in 1..n : InTurn(denoms, W)[k] = denoms[i]
    BY <1>7, <1>9
  <1>12. \A k, m \in 1..n : k < m => InTurn(denoms, W)[k].value >= InTurn(denoms, W)[m].value
    BY <1>8, <1>9
  <1>. QED
    BY <1>6, <1>9, <1>10, <1>11, <1>12

-----------------------------------------------------------------------------
\* What is picked after some turns.
FromAll(amount) == [remaining |-> amount, picked |-> <<>>]
Picks(denoms, amount, times) ==
  Choice!FoldLeft(LAMBDA acc, i : Choice!PickDenom(denoms, acc), FromAll(amount), [i \in 1..times |-> i])
PicksBy(g, denoms, amount, times) ==
  [t \in SUBSET (1..times) |-> IF t = {} THEN FromAll(amount) ELSE Choice!PickDenom(denoms, g[t \ {Max(t)}])]

LEMMA PicksAre ==
  ASSUME NEW denoms, NEW amount, NEW times
  PROVE  Picks(denoms, amount, times) = (CHOOSE g : g = PicksBy(g, denoms, amount, times))[1..times]
  <1>1. DOMAIN [i \in 1..times |-> i] = 1..times
    OBVIOUS
  <1>. QED
    BY <1>1 DEF Picks, Choice!FoldLeft, Choice!MapThenFoldSet, PicksBy, Choice!Max, Max

LEMMA WithdrawListIs ==
  ASSUME NEW amount, NEW denoms, NEW now, NEW margin, NEW times
  PROVE  Choice!GetWithdrawDenomList(amount, denoms, now, margin, times)
           = Picks(InTurn(denoms, {i \in DOMAIN denoms : Choice!IsWithdrawableDenom(denoms[i], now, margin)}),
                   amount, times).picked
  BY DEF Choice!GetWithdrawDenomList, Picks, InTurn, Places, Before, FromAll, Choice!InOrder

Denoms(denoms) == {denoms[i] : i \in DOMAIN denoms}
Pickings(D) == [remaining : Nat, picked : Seq(D)]
Priced(D) == \A d \in D : Choice!CostOf(d) \in Nat /\ d.value \in Nat

\* One turn of the loop.
OneTurn(n, denoms, D, a, b) ==
  /\ b \in Pickings(D)
  /\ (\A i \in 1..n : Choice!CostOf(denoms[i]) > a.remaining) => b = a
  /\ (\E i \in 1..n : Choice!CostOf(denoms[i]) <= a.remaining) =>
       \E i \in 1..n :
         /\ Choice!CostOf(denoms[i]) <= a.remaining
         /\ \A j \in 1..n : j < i => Choice!CostOf(denoms[j]) > a.remaining
         /\ b = [remaining |-> a.remaining - Choice!CostOf(denoms[i]), picked |-> Append(a.picked, denoms[i])]

LEMMA PickIs ==
  ASSUME NEW n \in Nat, NEW denoms, DOMAIN denoms = 1..n,
         NEW D, \A i \in 1..n : denoms[i] \in D, Priced(D),
         NEW a \in Pickings(D)
  PROVE  OneTurn(n, denoms, D, a, Choice!PickDenom(denoms, a))
  <1>. DEFINE T == {i \in 1..n : Choice!CostOf(denoms[i]) <= a.remaining}
              b == Choice!PickDenom(denoms, a)
  <1>1. a.remaining \in Nat /\ a.picked \in Seq(D)
    BY DEF Pickings
  <1>2. \A i \in 1..n : Choice!CostOf(denoms[i]) \in Nat
    BY DEF Priced
  <1>3. b = IF T = {} THEN a
            ELSE [remaining |-> Choice!Remainder(a.remaining, Choice!CostOf(denoms[Choice!Min(T)])),
                  picked |-> Append(a.picked, denoms[Choice!Min(T)])]
    BY DEF Choice!PickDenom, Choice!PickFirst
  <1>. HIDE DEF b
  <1>4. CASE T = {}
    BY <1>1, <1>2, <1>3, <1>4 DEF b, OneTurn
  <1>5. CASE T # {}
    <2>. DEFINE i == Choice!Min(T)
    <2>1. i \in T /\ \A j \in T : i <= j
      <3>1. T \subseteq 0..n
        OBVIOUS
      <3>2. \E k \in T : \A j \in T : k <= j
        BY <1>5, <3>1, LeastNumber
      <3>. HIDE DEF T
      <3>. QED
        BY <3>2 DEF Choice!Min
    <2>. HIDE DEF i
    <2>2. i \in 1..n /\ Choice!CostOf(denoms[i]) <= a.remaining
      BY <2>1
    <2>3. \A j \in 1..n : j < i => Choice!CostOf(denoms[j]) > a.remaining
      BY <1>1, <1>2, <2>1, <2>2
    <2>4. Choice!Remainder(a.remaining, Choice!CostOf(denoms[i])) = a.remaining - Choice!CostOf(denoms[i])
      BY <1>1, <1>2, <2>2 DEF Choice!Remainder
    <2>5. b = [remaining |-> a.remaining - Choice!CostOf(denoms[i]), picked |-> Append(a.picked, denoms[i])]
      BY <1>3, <1>5, <2>4 DEF i
    <2>6. a.remaining - Choice!CostOf(denoms[i]) \in Nat /\ Append(a.picked, denoms[i]) \in Seq(D)
      BY <1>1, <1>2, <2>2
    <2>7. b \in Pickings(D)
      BY <2>5, <2>6 DEF Pickings
    <2>8. ~(\A j \in 1..n : Choice!CostOf(denoms[j]) > a.remaining)
      BY <1>1, <1>2, <2>2
    <2>. QED
      BY <2>2, <2>3, <2>5, <2>7, <2>8 DEF b, OneTurn
  <1>. QED
    BY <1>4, <1>5

Turns(denoms, D, amount, times, w) ==
  /\ w[0] = FromAll(amount)
  /\ \A k \in 0..times : w[k] \in Pickings(D)
  /\ \A k \in 1..times : w[k] = Choice!PickDenom(denoms, w[k - 1])

LEMMA PicksWalk ==
  ASSUME NEW n \in Nat, NEW denoms, DOMAIN denoms = 1..n,
         NEW D, \A i \in 1..n : denoms[i] \in D, Priced(D),
         NEW amount \in Nat, NEW times \in Nat
  PROVE  \E w : Turns(denoms, D, amount, times, w) /\ w[times] = Picks(denoms, amount, times)
  <1>. DEFINE A == Pickings(D)
              F == [p \in (1..times) \X A |-> Choice!PickDenom(denoms, p[2])]
              base == FromAll(amount)
              h == CHOOSE g : g = PicksBy(g, denoms, amount, times)
  <1>1. base \in A
    BY DEF FromAll, Pickings
  <1>2. \A x \in 1..times, a \in A : F[<<x, a>>] = Choice!PickDenom(denoms, a) /\ F[<<x, a>>] \in A
    BY PickIs DEF OneTurn
  <1>3. Picks(denoms, amount, times) = h[1..times]
    BY PicksAre
  <1>. HIDE DEF A, F, base, h
  <1>3a. Operates(F, times, A)
    BY <1>2 DEF Operates
  <1>4. PICK g : FixedFold(F, base, times, A, g)
    BY <1>1, <1>3a, FoldIsFixed
  <1>5. g = PicksBy(g, denoms, amount, times)
    <2>1. \A t \in SUBSET (1..times) : t # {} => F[<<Max(t), g[t \ {Max(t)}]>>] = Choice!PickDenom(denoms, g[t \ {Max(t)}])
      BY <1>2, <1>4 DEF FixedFold
    <2>. QED
      BY <1>4, <2>1 DEF PicksBy, base, FixedFold
  <1>6. h = PicksBy(h, denoms, amount, times)
    BY <1>5 DEF h
  <1>7. \A t \in SUBSET (1..times) : h[t] = IF t = {} THEN base ELSE Choice!PickDenom(denoms, h[t \ {Max(t)}])
    <2>1. \A k : k = PicksBy(h, denoms, amount, times) => \A t \in SUBSET (1..times) :
            k[t] = IF t = {} THEN base ELSE Choice!PickDenom(denoms, h[t \ {Max(t)}])
      BY DEF PicksBy, base
    <2>. QED
      BY <1>6, <2>1
  <1>8. h[{}] = base
    BY <1>7
  <1>9. ASSUME NEW t \in SUBSET (1..times), t # {}, h[t \ {Max(t)}] \in A
        PROVE  h[t] = F[<<Max(t), h[t \ {Max(t)}]>>]
    BY <1>2, <1>4, <1>7, <1>9 DEF FixedFold
  <1>10. PICK w : Walks(F, base, times, A, w) /\ w[times] = h[1..times]
    <2>1. Follows(F, base, times, A, h)
      BY <1>8, <1>9 DEF Follows
    <2>. QED
      BY <1>1, <1>3a, <2>1, FoldWalks
  <1>11. \A k \in 1..times : w[k] = Choice!PickDenom(denoms, w[k - 1])
    <2>1. \A k \in 1..times : k - 1 \in 0..times
      OBVIOUS
    <2>. QED
      BY <1>2, <1>10, <2>1 DEF Walks
  <1>. QED
    BY <1>3, <1>10, <1>11 DEF base, A, h, Walks, Turns

-----------------------------------------------------------------------------
\* What some of the coins that were picked cost.
Costs(picked) == [i \in DOMAIN picked |-> Choice!CostOf(picked[i])]
From(picked, v) == {i \in DOMAIN picked : picked[i].value >= v}

LEMMA CostsAre ==
  ASSUME NEW D, Priced(D), NEW picked \in Seq(D)
  PROVE  /\ DOMAIN picked = 1..Len(picked) /\ Len(picked) \in Nat /\ IsFiniteSet(DOMAIN picked)
         /\ \A i \in DOMAIN picked : picked[i] \in D
         /\ \A I \in SUBSET (DOMAIN picked) :
              Sum(Costs(picked), I) \in Nat /\ Sum(Costs(picked), I) <= Sum(Costs(picked), DOMAIN picked)
         /\ NaturalOn(Costs(picked), DOMAIN picked)
  <1>1. DOMAIN picked = 1..Len(picked) /\ Len(picked) \in Nat /\ \A i \in DOMAIN picked : picked[i] \in D
    OBVIOUS
  <1>2. IsFiniteSet(DOMAIN picked)
    <2>1. IsFiniteSet(1..Len(picked))
      BY <1>1, FS_Interval
    <2>. QED
      BY <1>1, <2>1
  <1>3. NaturalOn(Costs(picked), DOMAIN picked)
    BY <1>1 DEF NaturalOn, Costs, Priced
  <1>4. ASSUME NEW I \in SUBSET (DOMAIN picked)
        PROVE  Sum(Costs(picked), I) \in Nat /\ Sum(Costs(picked), I) <= Sum(Costs(picked), DOMAIN picked)
    <2>1. IsFiniteSet(I) /\ NaturalOn(Costs(picked), I)
      BY <1>2, <1>3, FS_Subset DEF NaturalOn
    <2>. QED
      BY <1>2, <1>3, <2>1, SumIsNatural, SumOfPartIsLess
  <1>. QED
    BY <1>1, <1>2, <1>3, <1>4

LEMMA CostsGrow ==
  ASSUME NEW D, Priced(D), NEW picked \in Seq(D), NEW d \in D, NEW v \in Nat
  PROVE  LET more == Append(picked, d) IN
         /\ more \in Seq(D) /\ Len(more) = Len(picked) + 1 /\ DOMAIN more = DOMAIN picked \cup {Len(picked) + 1}
         /\ \A i \in DOMAIN picked : more[i] = picked[i]
         /\ more[Len(picked) + 1] = d
         /\ Sum(Costs(more), DOMAIN more) = Choice!CostOf(d) + Sum(Costs(picked), DOMAIN picked)
         /\ d.value < v => Sum(Costs(more), From(more, v)) = Sum(Costs(picked), From(picked, v))
  <1>. DEFINE more == Append(picked, d)
              m == Len(picked)
  <1>1. /\ DOMAIN picked = 1..m /\ m \in Nat /\ IsFiniteSet(DOMAIN picked)
        /\ \A i \in DOMAIN picked : picked[i] \in D
        /\ NaturalOn(Costs(picked), DOMAIN picked)
    BY CostsAre
  <1>2. /\ more \in Seq(D) /\ Len(more) = m + 1 /\ DOMAIN more = 1..(m + 1)
        /\ \A i \in 1..m : more[i] = picked[i]
        /\ more[m + 1] = d
    BY <1>1
  <1>3. 1..(m + 1) = (1..m) \cup {m + 1} /\ m + 1 \notin 1..m
    BY <1>1
  <1>. HIDE DEF more, m
  <1>4. NaturalOn(Costs(more), DOMAIN more)
    BY <1>2, CostsAre
  <1>5. \A i \in 1..m : Costs(more)[i] = Costs(picked)[i]
    BY <1>1, <1>2, <1>3 DEF Costs
  <1>6. Costs(more)[m + 1] = Choice!CostOf(d)
    BY <1>2, <1>3 DEF Costs
  <1>7. Sum(Costs(more), 1..m) = Sum(Costs(picked), 1..m)
    BY <1>1, <1>5, SumsAgree
  <1>8. Sum(Costs(more), DOMAIN more) = Choice!CostOf(d) + Sum(Costs(picked), DOMAIN picked)
    <2>1. IsFiniteSet(1..m) /\ NaturalOn(Costs(more), (1..m) \cup {m + 1})
      BY <1>1, <1>2, <1>3, <1>4
    <2>2. Sum(Costs(more), (1..m) \cup {m + 1}) = Costs(more)[m + 1] + Sum(Costs(more), 1..m)
      BY <1>3, <2>1, SumWith
    <2>. QED
      BY <1>1, <1>2, <1>3, <1>6, <1>7, <2>2
  <1>9. ASSUME d.value < v
        PROVE  Sum(Costs(more), From(more, v)) = Sum(Costs(picked), From(picked, v))
    <2>1. d.value \in Nat
      BY DEF Priced
    <2>2. From(more, v) = From(picked, v)
      BY <1>1, <1>2, <1>3, <1>9, <2>1 DEF From
    <2>3. From(picked, v) \subseteq 1..m /\ IsFiniteSet(From(picked, v)) /\ NaturalOn(Costs(picked), From(picked, v))
      BY <1>1, FS_Subset DEF From, NaturalOn
    <2>4. \A i \in From(picked, v) : Costs(more)[i] = Costs(picked)[i]
      BY <1>5, <2>3
    <2>. QED
      BY <2>2, <2>3, <2>4, SumsAgree
  <1>. QED
    BY <1>1, <1>2, <1>3, <1>8, <1>9 DEF more, m

\* What has been picked after k turns; before a denomination is picked that is worth less than
\* another one, there was not enough for that one.
PickedSoFar(D, amount, k, a) ==
  /\ a \in Pickings(D)
  /\ Sum(Costs(a.picked), DOMAIN a.picked) + a.remaining = amount
  /\ Len(a.picked) <= k
  /\ Len(a.picked) < k => \A d \in D : Choice!CostOf(d) > a.remaining
  /\ \A d \in D : (\E i \in DOMAIN a.picked : a.picked[i].value < d.value) =>
       amount < Sum(Costs(a.picked), From(a.picked, d.value)) + Choice!CostOf(d)

LEMMA PickedAtFirst ==
  ASSUME NEW D, NEW amount \in Nat
  PROVE  PickedSoFar(D, amount, 0, FromAll(amount))
  <1>1. <<>> \in Seq(D) /\ DOMAIN <<>> = {} /\ Len(<<>>) = 0
    OBVIOUS
  <1>2. Sum(Costs(<<>>), {}) = 0
    BY SumOfNone
  <1>. DEFINE a == FromAll(amount)
  <1>3. a \in Pickings(D) /\ a.picked = <<>> /\ a.remaining = amount
    BY <1>1 DEF FromAll, Pickings
  <1>. HIDE DEF a
  <1>4. PickedSoFar(D, amount, 0, a)
    BY <1>1, <1>2, <1>3 DEF PickedSoFar
  <1>. QED
    BY <1>4 DEF a

LEMMA PickedOn ==
  ASSUME NEW n \in Nat, NEW denoms, DOMAIN denoms = 1..n,
         NEW D, D = Denoms(denoms), Priced(D),
         \A i, j \in 1..n : i < j => denoms[i].value >= denoms[j].value,
         NEW amount \in Nat, NEW k \in Nat \ {0},
         NEW a, PickedSoFar(D, amount, k - 1, a)
  PROVE  PickedSoFar(D, amount, k, Choice!PickDenom(denoms, a))
  <1>. DEFINE b == Choice!PickDenom(denoms, a)
              m == Len(a.picked)
              spent == Sum(Costs(a.picked), DOMAIN a.picked)
  <1>1. (\A i \in 1..n : denoms[i] \in D) /\ \A d \in D : \E i \in 1..n : d = denoms[i]
    BY DEF Denoms
  <1>2. a \in Pickings(D) /\ a.remaining \in Nat /\ a.picked \in Seq(D)
    BY DEF PickedSoFar, Pickings
  <1>3. OneTurn(n, denoms, D, a, b)
    BY <1>1, <1>2, PickIs
  <1>4. \A d \in D : Choice!CostOf(d) \in Nat /\ d.value \in Nat
    BY DEF Priced
  <1>5. /\ m \in Nat /\ \A I \in SUBSET (DOMAIN a.picked) :
             Sum(Costs(a.picked), I) \in Nat /\ Sum(Costs(a.picked), I) <= spent
        /\ \A i \in DOMAIN a.picked : a.picked[i] \in D
        /\ spent \in Nat
    BY <1>2, CostsAre
  <1>6. /\ spent + a.remaining = amount /\ m <= k - 1
        /\ m < k - 1 => \A d \in D : Choice!CostOf(d) > a.remaining
        /\ \A d \in D : (\E i \in DOMAIN a.picked : a.picked[i].value < d.value) =>
             amount < Sum(Costs(a.picked), From(a.picked, d.value)) + Choice!CostOf(d)
    BY DEF PickedSoFar
  <1>. HIDE DEF b, m, spent
  <1>7. CASE \A i \in 1..n : Choice!CostOf(denoms[i]) > a.remaining
    <2>1. b = a /\ \A d \in D : Choice!CostOf(d) > a.remaining
      BY <1>1, <1>3, <1>7 DEF OneTurn
    <2>2. m <= k
      BY <1>5, <1>6
    <2>3. PickedSoFar(D, amount, k, a)
      BY <1>2, <1>6, <2>1, <2>2 DEF PickedSoFar, m, spent
    <2>. QED
      BY <2>1, <2>3 DEF b
  <1>8. CASE ~\A i \in 1..n : Choice!CostOf(denoms[i]) > a.remaining
    <2>1. \E i \in 1..n : Choice!CostOf(denoms[i]) <= a.remaining
      BY <1>1, <1>2, <1>4, <1>8
    <2>2. PICK i \in 1..n :
            /\ Choice!CostOf(denoms[i]) <= a.remaining
            /\ \A j \in 1..n : j < i => Choice!CostOf(denoms[j]) > a.remaining
            /\ b = [remaining |-> a.remaining - Choice!CostOf(denoms[i]), picked |-> Append(a.picked, denoms[i])]
      BY <1>3, <2>1 DEF OneTurn
    <2>. DEFINE x == denoms[i]
                more == Append(a.picked, x)
    <2>3. x \in D /\ Choice!CostOf(x) \in Nat /\ x.value \in Nat
      BY <1>1, <1>4
    <2>4. m = k - 1
      BY <1>2, <1>4, <1>5, <1>6, <2>2, <2>3
    <2>5. /\ more \in Seq(D) /\ Len(more) = m + 1 /\ DOMAIN more = DOMAIN a.picked \cup {m + 1}
          /\ \A l \in DOMAIN a.picked : more[l] = a.picked[l]
          /\ more[m + 1] = x
          /\ Sum(Costs(more), DOMAIN more) = Choice!CostOf(x) + spent
      BY <1>2, <2>3, CostsGrow DEF m, spent
    <2>6. \A v \in Nat : x.value < v => Sum(Costs(more), From(more, v)) = Sum(Costs(a.picked), From(a.picked, v))
      BY <1>2, <2>3, CostsGrow
    <2>7. b.remaining = a.remaining - Choice!CostOf(x) /\ b.picked = more
      BY <2>2
    <2>. HIDE DEF x, more
    <2>8. ASSUME NEW d \in D, NEW l \in DOMAIN more, more[l].value < d.value
          PROVE  amount < Sum(Costs(more), From(more, d.value)) + Choice!CostOf(d)
      <3>1. d.value \in Nat /\ Choice!CostOf(d) \in Nat
        BY <1>4
      <3>2. From(a.picked, d.value) \in SUBSET (DOMAIN a.picked) /\ From(a.picked, x.value) \in SUBSET (DOMAIN a.picked)
        BY DEF From
      <3>3. CASE x.value < d.value
        <4>1. Sum(Costs(more), From(more, d.value)) = Sum(Costs(a.picked), From(a.picked, d.value))
          BY <2>6, <3>1, <3>3
        <4>2. amount < Sum(Costs(a.picked), From(a.picked, d.value)) + Choice!CostOf(d)
          <5>1. CASE \E q \in DOMAIN a.picked : a.picked[q].value < d.value
            BY <1>6, <5>1
          <5>2. CASE ~\E q \in DOMAIN a.picked : a.picked[q].value < d.value
            <6>1. From(a.picked, d.value) = DOMAIN a.picked
              BY <1>4, <1>5, <3>1, <5>2 DEF From
            <6>2. PICK j \in 1..n : d = denoms[j]
              BY <1>1
            <6>3. j < i
              BY <2>3, <3>1, <3>3, <6>2 DEF x
            <6>4. Choice!CostOf(d) > a.remaining
              BY <2>2, <6>2, <6>3
            <6>. QED
              BY <1>2, <1>5, <1>6, <3>1, <6>1, <6>4 DEF spent
          <5>. QED
            BY <5>1, <5>2
        <4>. QED
          BY <4>1, <4>2
      <3>4. CASE ~(x.value < d.value)
        <4>1. l \in DOMAIN a.picked /\ a.picked[l].value < x.value
          <5>1. l # m + 1
            BY <2>3, <2>5, <2>8, <3>1, <3>4
          <5>2. l \in DOMAIN a.picked /\ more[l] = a.picked[l] /\ a.picked[l].value \in Nat
            BY <1>4, <1>5, <2>5, <5>1
          <5>. QED
            BY <2>3, <2>8, <3>1, <3>4, <5>2
        <4>2. amount < Sum(Costs(a.picked), From(a.picked, x.value)) + Choice!CostOf(x)
          BY <1>6, <2>3, <4>1
        <4>3. Choice!CostOf(x) <= a.remaining
          BY <2>2 DEF x
        <4>4. Sum(Costs(a.picked), From(a.picked, x.value)) \in Nat /\ Sum(Costs(a.picked), From(a.picked, x.value)) <= spent
          BY <1>5, <3>2
        <4>5. FALSE
          BY <1>2, <1>5, <1>6, <2>3, <4>2, <4>3, <4>4
        <4>. QED
          BY <4>5
      <3>. QED
        BY <3>3, <3>4
    <2>9. Sum(Costs(more), DOMAIN more) + b.remaining = amount
      BY <1>2, <1>5, <1>6, <2>3, <2>5, <2>7
    <2>10. Len(more) = k
      BY <2>4, <2>5
    <2>11. PickedSoFar(D, amount, k, b)
      BY <1>3, <2>7, <2>8, <2>9, <2>10 DEF PickedSoFar, OneTurn
    <2>. QED
      BY <2>11 DEF b
  <1>. QED
    BY <1>7, <1>8

LEMMA PickedAtLast ==
  ASSUME NEW n \in Nat, NEW denoms, DOMAIN denoms = 1..n,
         NEW D, D = Denoms(denoms), Priced(D),
         \A i, j \in 1..n : i < j => denoms[i].value >= denoms[j].value,
         NEW amount \in Nat, NEW times \in Nat
  PROVE  PickedSoFar(D, amount, times, Picks(denoms, amount, times))
  <1>1. \A i \in 1..n : denoms[i] \in D
    BY DEF Denoms
  <1>2. PICK w : Turns(denoms, D, amount, times, w) /\ w[times] = Picks(denoms, amount, times)
    BY <1>1, PicksWalk
  <1>. DEFINE Good == {k \in 0..times : PickedSoFar(D, amount, k, w[k])}
  <1>3. 0 \in Good
    BY <1>2, PickedAtFirst DEF Turns
  <1>4. ASSUME NEW k \in 1..times, k - 1 \in Good
        PROVE  k \in Good
    <2>1. PickedSoFar(D, amount, k - 1, w[k - 1]) /\ k \in Nat \ {0} /\ k \in 0..times
      BY <1>4
    <2>2. PickedSoFar(D, amount, k, Choice!PickDenom(denoms, w[k - 1]))
      BY <2>1, PickedOn
    <2>. QED
      BY <1>2, <2>1, <2>2 DEF Turns
  <1>. HIDE DEF Good
  <1>5. \A k \in 0..times : k \in Good
    BY <1>3, <1>4, UpTo
  <1>6. times \in Good
    BY <1>5
  <1>. QED
    BY <1>2, <1>6 DEF Good

-----------------------------------------------------------------------------
Withdrawable(denoms, now, margin) == {i \in DOMAIN denoms : Choice!IsWithdrawableDenom(denoms[i], now, margin)}
Drawn(amount, denoms, now, margin, times) ==
  Picks(InTurn(denoms, Withdrawable(denoms, now, margin)), amount, times)

LEMMA DrawnIs ==
  ASSUME NEW denoms, Offer(denoms), NEW amount \in Nat, NEW times \in Nat, NEW now, NEW margin,
         NEW D, D = {denoms[i] : i \in Withdrawable(denoms, now, margin)}
  PROVE  /\ Priced(D)
         /\ PickedSoFar(D, amount, times, Drawn(amount, denoms, now, margin, times))
         /\ Choice!GetWithdrawDenomList(amount, denoms, now, margin, times)
              = Drawn(amount, denoms, now, margin, times).picked
  <1>. DEFINE W == Withdrawable(denoms, now, margin)
              ordered == InTurn(denoms, W)
  <1>1. W \subseteq DOMAIN denoms
    BY DEF Withdrawable
  <1>2. PICK n \in Nat :
           /\ DOMAIN ordered = 1..n
           /\ \A k \in 1..n : \E i \in W : ordered[k] = denoms[i]
           /\ \A i \in W : \E k \in 1..n : ordered[k] = denoms[i]
           /\ \A k, m \in 1..n : k < m => ordered[k].value >= ordered[m].value
    BY <1>1, DenomsInTurn
  <1>3. Priced(D)
    BY <1>1 DEF Offer, Priced, Choice!CostOf
  <1>. HIDE DEF W, ordered
  <1>4. D = Denoms(ordered)
    <2>1. D = {denoms[i] : i \in W}
      BY DEF W
    <2>2. Denoms(ordered) = {ordered[k] : k \in 1..n}
      BY <1>2 DEF Denoms
    <2>3. \A x : x \in D <=> x \in Denoms(ordered)
      BY <1>2, <2>1, <2>2
    <2>. QED
      BY <2>3
  <1>5. PickedSoFar(D, amount, times, Picks(ordered, amount, times))
    BY <1>2, <1>3, <1>4, PickedAtLast
  <1>6. Choice!GetWithdrawDenomList(amount, denoms, now, margin, times) = Drawn(amount, denoms, now, margin, times).picked
    BY WithdrawListIs DEF Drawn, Withdrawable
  <1>. QED
    BY <1>3, <1>5, <1>6 DEF Drawn, ordered, W

\* Whatever is offered: what is withdrawn for an amount costs no more than it, all of it can be
\* withdrawn now, and unless as many coins were picked as are picked at most, what is left does
\* not pay for another one (getWithdrawDenomList).
THEOREM WithdrawalsFit ==
  ASSUME NEW denoms, Offer(denoms), NEW amount \in Nat, NEW times \in Nat, NEW now, NEW margin
  PROVE  Choice!WithdrawalFits(amount, denoms, now, margin, times)
  <1>. DEFINE D == {denoms[i] : i \in Withdrawable(denoms, now, margin)}
              a == Drawn(amount, denoms, now, margin, times)
              p == Choice!GetWithdrawDenomList(amount, denoms, now, margin, times)
  <1>1. Priced(D) /\ PickedSoFar(D, amount, times, a) /\ p = a.picked
    BY DrawnIs
  <1>2. D = {d \in Choice!ToSet(denoms) : Choice!IsWithdrawableDenom(d, now, margin)}
    BY DEF Withdrawable, Choice!ToSet
  <1>. DEFINE cost == Choice!Sum([i \in DOMAIN p |-> Choice!CostOf(p[i])], DOMAIN p)
  <1>3. cost = Sum(Costs(p), DOMAIN p)
    BY SameSum DEF Costs
  <1>. HIDE DEF D, a, p
  <1>4. a.remaining \in Nat /\ p \in Seq(D)
    BY <1>1 DEF PickedSoFar, Pickings
  <1>5. cost \in Nat /\ (\A i \in DOMAIN p : p[i] \in D) /\ Len(p) \in Nat
    BY <1>1, <1>3, <1>4, CostsAre
  <1>6. /\ cost + a.remaining = amount /\ Len(p) <= times
        /\ Len(p) < times => \A d \in D : Choice!CostOf(d) > a.remaining
    BY <1>1, <1>3 DEF PickedSoFar
  <1>. HIDE DEF cost
  <1>7. cost <= amount /\ a.remaining = amount - cost
    BY <1>4, <1>5, <1>6
  <1>8. Choice!ToSet(p) \subseteq D
    BY <1>5 DEF Choice!ToSet
  <1>9. Len(p) < times => \A d \in D : Choice!CostOf(d) > amount - cost
    BY <1>6, <1>7
  <1>. QED
    BY <1>2, <1>6, <1>7, <1>8, <1>9 DEF Choice!WithdrawalFits, p, cost

-----------------------------------------------------------------------------
(* getWithdrawDenomList and the refreshes: ReadCoinToRefresh takes any new   *)
(* coins that such a list may have, and those the code makes are among them. *)

\* What a new coin costs.
Charge == [c \in Coins |-> Value[c] + FeeWithdraw]

LEMMA CostIsCharged ==
  ASSUME NEW S \in SUBSET Coins
  PROVE  Cost(S) = Sum(Charge, S) /\ IsFiniteSet(S) /\ NaturalOn(Charge, S)
  <1>. DEFINE fee == [c \in Coins |-> FeeWithdraw]
  <1>1. IsFiniteSet(S)
    BY CoinsAssumption, FS_Subset
  <1>2. NaturalOn(Value, S) /\ NaturalOn(fee, S) /\ NaturalOn(Charge, S)
    BY CoinsAssumption, FeesAssumption DEF NaturalOn, Charge
  <1>3. \A c \in S : Charge[c] = Value[c] + fee[c] /\ fee[c] = FeeWithdraw
    BY DEF Charge
  <1>. HIDE DEF fee
  <1>4. Sum(Charge, S) = Sum(Value, S) + Sum(fee, S)
    BY <1>1, <1>2, <1>3, SumOfBoth
  <1>5. Sum(fee, S) = Cardinality(S) * FeeWithdraw /\ Cardinality(S) \in Nat
    BY <1>1, <1>3, FeesAssumption, SumOfEqual
  <1>6. Cardinality(S) * FeeWithdraw = FeeWithdraw * Cardinality(S)
    BY <1>5, FeesAssumption
  <1>. QED
    BY <1>1, <1>2, <1>4, <1>5, <1>6 DEF Cost

\* New coins of the denominations that were picked: one for each of them.
AreCoinsOf(make, picked, new) ==
  /\ new = {make[i] : i \in DOMAIN picked}
  /\ \A i \in DOMAIN picked : make[i] \in Coins /\ Value[make[i]] = picked[i].value
  /\ \A i, j \in DOMAIN picked : i # j => make[i] # make[j]

\* The denominations of the exchange, as getWithdrawDenomList gets them.
IsOffer(denoms, now, margin) ==
  /\ Offer(denoms)
  /\ \A i \in DOMAIN denoms : denoms[i].feeWithdraw = FeeWithdraw /\ Choice!IsWithdrawableDenom(denoms[i], now, margin)
  /\ {denoms[i].value : i \in DOMAIN denoms} = Denominations

\* What refreshCreateSession gets from getWithdrawDenomList for what is left of a coin: nothing
\* exactly when it takes the coin for too small, and otherwise denominations the coins of
\* which are those it makes planchets for in ReadCoinToRefresh.
THEOREM DenomListsAreChoices ==
  ASSUME NEW amount \in Nat, NEW denoms, NEW now, NEW margin, IsOffer(denoms, now, margin), NEW times \in Nat,
         NEW picked, picked = Choice!GetWithdrawDenomList(Refreshable(amount), denoms, now, margin, times),
         Len(picked) < times
  PROVE  /\ picked = <<>> <=> TooSmall(amount)
         /\ ~TooSmall(amount) =>
              \A new, make : AreCoinsOf(make, picked, new) =>
                IsDenomList(new, Refreshable(amount)) /\ Cost(new) + FeeRefresh <= amount
  <1>. DEFINE there == Refreshable(amount)
              D == {denoms[i] : i \in Withdrawable(denoms, now, margin)}
              a == Drawn(there, denoms, now, margin, times)
              total == Sum(Costs(picked), DOMAIN picked)
  <1>1. there \in Nat
    BY FeesAssumption DEF Refreshable
  <1>2. Priced(D) /\ PickedSoFar(D, there, times, a) /\ picked = a.picked
    BY <1>1, DrawnIs DEF IsOffer
  <1>3. /\ \A d \in D : d.value \in Denominations /\ Choice!CostOf(d) = d.value + FeeWithdraw /\ d.value \in Nat
        /\ \A v \in Denominations : \E d \in D : d.value = v
    <2>1. D = {denoms[i] : i \in DOMAIN denoms}
      BY DEF Withdrawable, IsOffer
    <2>. HIDE DEF D
    <2>2. /\ \A d \in D : d.value \in Denominations /\ Choice!CostOf(d) = d.value + FeeWithdraw
          /\ \A v \in Denominations : \E d \in D : d.value = v
      BY <2>1 DEF IsOffer, Choice!CostOf
    <2>. QED
      BY <1>2, <2>2 DEF Priced
  <1>4. \A v \in Denominations : v \in Nat /\ v > 0
    BY CoinsAssumption DEF Denominations
  <1>. HIDE DEF D, a, there
  <1>5. /\ a.remaining \in Nat /\ picked \in Seq(D)
        /\ total + a.remaining = there
        /\ \A d \in D : Choice!CostOf(d) > a.remaining
        /\ \A d \in D : (\E i \in DOMAIN picked : picked[i].value < d.value) =>
             there < Sum(Costs(picked), From(picked, d.value)) + Choice!CostOf(d)
    BY <1>2 DEF PickedSoFar, Pickings
  <1>6. /\ Len(picked) \in Nat /\ IsFiniteSet(DOMAIN picked) /\ DOMAIN picked = 1..Len(picked)
        /\ \A i \in DOMAIN picked : picked[i] \in D
        /\ \A I \in SUBSET (DOMAIN picked) : Sum(Costs(picked), I) \in Nat /\ Sum(Costs(picked), I) <= total
        /\ NaturalOn(Costs(picked), DOMAIN picked)
    BY <1>2, <1>5, CostsAre
  <1>7. picked = <<>> <=> TooSmall(amount)
    <2>1. ASSUME picked = <<>>
          PROVE  TooSmall(amount)
      <3>1. total = 0
        BY <2>1, SumOfNone
      <3>2. \A d \in D : d.value + FeeWithdraw > there
        BY <1>1, <1>3, <1>5, <3>1
      <3>3. \A v \in Denominations : there < v + FeeWithdraw
        BY <1>1, <1>3, <3>2, FeesAssumption
      <3>. QED
        BY <3>3 DEF TooSmall, there
    <2>2. ASSUME picked # <<>>
          PROVE  ~TooSmall(amount)
      <3>1. 1 \in DOMAIN picked
        BY <1>5, <1>6, <2>2
      <3>2. picked[1] \in D
        BY <1>6, <3>1
      <3>3. Choice!CostOf(picked[1]) <= total
        <4>1. total = Costs(picked)[1] + Sum(Costs(picked), DOMAIN picked \ {1})
          BY <1>6, <3>1, SumWithout
        <4>2. Sum(Costs(picked), DOMAIN picked \ {1}) \in Nat
          BY <1>6
        <4>3. Costs(picked)[1] = Choice!CostOf(picked[1]) /\ Choice!CostOf(picked[1]) \in Nat
          BY <1>2, <3>1, <3>2 DEF Costs, Priced
        <4>. QED
          BY <4>1, <4>2, <4>3
      <3>. DEFINE v == picked[1].value
      <3>4. v \in Denominations /\ Choice!CostOf(picked[1]) = v + FeeWithdraw /\ v \in Nat
        BY <1>3, <3>2
      <3>5. total \in Nat /\ total <= there
        BY <1>1, <1>5, <1>6
      <3>. HIDE DEF v, total
      <3>6. ~(there < v + FeeWithdraw)
        BY <1>1, <3>3, <3>4, <3>5, FeesAssumption
      <3>. QED
        BY <3>4, <3>6 DEF TooSmall, there
    <2>. QED
      BY <2>1, <2>2
  <1>8. ASSUME NEW new, NEW make, AreCoinsOf(make, picked, new), picked # <<>>
        PROVE  IsDenomList(new, there) /\ Cost(new) + FeeRefresh <= amount
    <2>. DEFINE m == [i \in DOMAIN picked |-> make[i]]
                Part(P) == {make[i] : i \in P}
    <2>1. new \in SUBSET Coins
      BY <1>8 DEF AreCoinsOf
    \* What some of them cost is what was paid for them.
    <2>2. ASSUME NEW I \in SUBSET (DOMAIN picked)
          PROVE  Sum(Charge, Part(I)) = Sum(Costs(picked), I) /\ Part(I) \in SUBSET Coins
      <3>1. Image(m, I) = Part(I) /\ Injective(m, I)
        BY <1>8 DEF Image, Injective, AreCoinsOf
      <3>2. IsFiniteSet(I)
        BY <1>6, FS_Subset
      <3>3. Part(I) \in SUBSET Coins
        BY <1>8 DEF AreCoinsOf
      <3>4. NaturalOn(Charge, Part(I))
        BY <3>3, CostIsCharged
      <3>5. \A i \in I : Costs(picked)[i] = Charge[m[i]]
        <4>1. ASSUME NEW i \in I
              PROVE  Costs(picked)[i] = Charge[m[i]]
          <5>1. m[i] = make[i] /\ make[i] \in Coins /\ Value[make[i]] = picked[i].value /\ picked[i] \in D
            BY <1>6, <1>8 DEF AreCoinsOf
          <5>2. Costs(picked)[i] = picked[i].value + FeeWithdraw
            BY <1>3, <5>1 DEF Costs
          <5>. QED
            BY <5>1, <5>2 DEF Charge
        <4>. QED
          BY <4>1
      <3>. HIDE DEF m, Part
      <3>6. Sum(Costs(picked), I) = Sum(Charge, Image(m, I))
        BY <3>1, <3>2, <3>4, <3>5, SumOfImage
      <3>. QED
        BY <3>1, <3>3, <3>6
    <2>3. Cost(new) = total /\ new = Part(DOMAIN picked)
      <3>1. new = Part(DOMAIN picked)
        BY <1>8 DEF AreCoinsOf
      <3>. HIDE DEF Part
      <3>2. Sum(Charge, Part(DOMAIN picked)) = total
        BY <2>2
      <3>. QED
        BY <2>1, <3>1, <3>2, CostIsCharged
    <2>4. ASSUME NEW v \in Denominations
          PROVE  Cardinality({c \in new : Value[c] = v}) = (there - Cost({c \in new : Value[c] > v})) \div (v + FeeWithdraw)
      <3>. DEFINE Same == {c \in new : Value[c] = v}
                  Above == {c \in new : Value[c] > v}
                  I == From(picked, v)
      <3>1. I \in SUBSET (DOMAIN picked) /\ v \in Nat /\ v > 0
        BY <1>4 DEF From
      <3>2. Part(I) = Same \cup Above /\ Same \cap Above = {}
        <4>1. \A i \in DOMAIN picked : make[i] \in new /\ Value[make[i]] = picked[i].value /\ picked[i].value \in Nat
          BY <1>3, <1>6, <1>8 DEF AreCoinsOf
        <4>2. \A c \in new : \E i \in DOMAIN picked : c = make[i]
          BY <1>8 DEF AreCoinsOf
        <4>3. ASSUME NEW c \in Part(I)
              PROVE  c \in Same \cup Above
          <5>1. PICK i \in DOMAIN picked : c = make[i] /\ picked[i].value >= v
            BY DEF From
          <5>. QED
            BY <3>1, <4>1, <5>1
        <4>4. ASSUME NEW c \in Same \cup Above
              PROVE  c \in Part(I)
          <5>1. PICK i \in DOMAIN picked : c = make[i]
            BY <4>2
          <5>2. picked[i].value >= v
            BY <3>1, <4>1, <5>1
          <5>. QED
            BY <5>1, <5>2 DEF From
        <4>5. \A c \in new : Value[c] \in Nat
          BY <2>1, CoinsAssumption
        <4>6. Same \cap Above = {}
          BY <3>1, <4>5
        <4>. QED
          BY <4>3, <4>4, <4>6
      <3>3. Same \in SUBSET Coins /\ Above \in SUBSET Coins
        BY <2>1
      <3>4. Sum(Charge, Part(I)) = Sum(Costs(picked), I)
        BY <2>2, <3>1
      <3>. DEFINE b == v + FeeWithdraw
      <3>5. b \in Nat \ {0} /\ \A c \in Same : Charge[c] = b
        BY <2>1, <3>1, FeesAssumption DEF Charge
      <3>. HIDE DEF Same, Above, I, Part, total, b
      <3>6. /\ Cost(Above) = Sum(Charge, Above) /\ IsFiniteSet(Above) /\ NaturalOn(Charge, Above)
            /\ IsFiniteSet(Same) /\ NaturalOn(Charge, Same)
        BY <3>3, CostIsCharged
      <3>7. Sum(Charge, Same \cup Above) = Sum(Charge, Same) + Sum(Charge, Above) /\ Sum(Charge, Above) \in Nat
        <4>1. NaturalOn(Charge, Same \cup Above)
          BY <3>6 DEF NaturalOn
        <4>. QED
          BY <3>2, <3>6, <4>1, SumOfTwo, SumIsNatural
      <3>8. Sum(Charge, Same) = Cardinality(Same) * b /\ Cardinality(Same) \in Nat
        BY <3>5, <3>6, SumOfEqual
      <3>9. Sum(Costs(picked), I) \in Nat /\ Sum(Costs(picked), I) <= total /\ total \in Nat
        BY <1>6, <3>1 DEF total
      <3>10. there < Sum(Costs(picked), I) + b
        <4>1. PICK d \in D : d.value = v
          BY <1>3
        <4>2. Choice!CostOf(d) = b
          BY <1>3, <4>1 DEF b
        <4>3. CASE \E i \in DOMAIN picked : picked[i].value < d.value
          <5>1. there < Sum(Costs(picked), From(picked, d.value)) + Choice!CostOf(d)
            BY <1>5, <4>3
          <5>. QED
            BY <4>1, <4>2, <5>1 DEF I
        <4>4. CASE ~\E i \in DOMAIN picked : picked[i].value < d.value
          <5>1. \A i \in DOMAIN picked : picked[i].value \in Nat
            BY <1>3, <1>6
          <5>2. I = DOMAIN picked
            <6>1. \A i \in DOMAIN picked : picked[i].value >= v
              BY <3>1, <4>1, <4>4, <5>1
            <6>. QED
              BY <6>1 DEF I, From
          <5>3. Choice!CostOf(d) > a.remaining /\ total + a.remaining = there
            BY <1>5 DEF total
          <5>4. Sum(Costs(picked), I) = total
            BY <5>2 DEF total
          <5>. QED
            BY <1>5, <3>5, <3>9, <4>2, <5>3, <5>4
        <4>. QED
          BY <4>3, <4>4
      <3>. DEFINE r == there - Sum(Costs(picked), I)
                  q == Cardinality(Same)
      <3>11. r \in Nat /\ r < b
        <4>1. total <= there
          BY <1>1, <1>5, <3>9 DEF total
        <4>. QED
          BY <1>1, <3>5, <3>9, <3>10, <4>1
      <3>12. q * b \in Nat
        BY <3>5, <3>8
      <3>13. there - Cost(Above) = q * b + r
        BY <1>1, <3>2, <3>4, <3>6, <3>7, <3>8, <3>9, <3>12
      <3>. HIDE DEF r, q
      <3>14. (q * b + r) \div b = q
        BY <3>5, <3>8, <3>11, Quotient DEF q
      <3>. QED
        BY <3>13, <3>14 DEF q, Same, Above, b
    <2>5. Cost(new) + FeeRefresh <= amount
      <3>1. total \in Nat /\ total <= there
        BY <1>1, <1>5, <1>6
      <3>2. PICK v \in Denominations : there >= v + FeeWithdraw
        BY <1>1, <1>4, <1>7, <1>8, FeesAssumption DEF TooSmall, there
      <3>3. there = amount - FeeRefresh /\ amount >= FeeRefresh
        BY <1>4, <3>2, FeesAssumption DEF there, Refreshable
      <3>. QED
        BY <2>3, <3>1, <3>3, FeesAssumption
    <2>. QED
      BY <2>4, <2>5 DEF IsDenomList
  <1>. QED
    BY <1>7, <1>8 DEF there

\* What a selection gives, with what is known of it.
LEMMA SelectionGives ==
  ASSUME NEW S, AreInfos(S), NEW amount \in Nat, NEW feeLimit \in Nat,
         NEW r, r = Choice!SelectPayCoins(S, amount, feeLimit), r # <<>>
  PROVE  /\ Choice!CoinsOf(r.chosen) \subseteq S
         /\ Choice!Contributed(r.chosen) \in Nat
         /\ Choice!Toll(Choice!CoinsOf(r.chosen), feeLimit) \in Nat
         /\ Choice!Contributed(r.chosen) >= amount + Choice!Toll(Choice!CoinsOf(r.chosen), feeLimit)
  <1>. DEFINE a == AllTakenUp(S, amount, feeLimit)
              C == Choice!CoinsOf(a.chosen)
  <1>1. SoFar(S, amount, feeLimit, S, a)
    BY SoFarAtLast
  <1>2. r.chosen = a.chosen
    <2>. HIDE DEF a
    <2>1. r = IF S = {} \/ a.remaining > 0 THEN <<>>
              ELSE [paymentAmount |-> amount, chosen |-> a.chosen, customerWireFees |-> 0, customerDepositFees |-> 0]
      BY SelectionIs DEF a
    <2>2. r = [paymentAmount |-> amount, chosen |-> a.chosen, customerWireFees |-> 0, customerDepositFees |-> 0]
      BY <2>1
    <2>. QED
      BY <2>2
  <1>. HIDE DEF a
  <1>3. C \subseteq S /\ a.chosen \in Seq([coin : S, contribution : Nat])
    BY <1>1 DEF SoFar, Takings
  <1>4. Choice!Contributed(a.chosen) \in Nat
    BY <1>3, ContributedIs
  <1>5. Choice!Toll(C, feeLimit) \in Nat
    <2>. HIDE DEF C
    <2>1. Choice!Sum([c \in C |-> c.feeDeposit], C) \in Nat
      BY <1>3, SumOfFees
    <2>. DEFINE all == Choice!Sum([c \in C |-> c.feeDeposit], C)
    <2>2. Choice!Toll(C, feeLimit) = Choice!Remainder(all, feeLimit)
      BY DEF Choice!Toll
    <2>. HIDE DEF all
    <2>3. Choice!Remainder(all, feeLimit) \in Nat
      BY <2>1 DEF Choice!Remainder, all
    <2>. QED
      BY <2>2, <2>3
  <1>6. Choice!PaymentFits(S, amount, feeLimit)
    BY SelectionsPay
  <1>7. Choice!Contributed(r.chosen) >= amount + Choice!Toll(Choice!CoinsOf(r.chosen), feeLimit)
    BY <1>6 DEF Choice!PaymentFits
  <1>. QED
    BY <1>2, <1>3, <1>4, <1>5, <1>7

-----------------------------------------------------------------------------
(* getCoinsForPayment.  The exchanges are tried one after the other.         *)

Contract(c) == /\ c.amount \in Nat /\ c.maxDepositFee \in Nat /\ c.maxWireFee \in Nat
               /\ c.wireFeeAmortization \in Nat \ {0}
Exchanges(s) ==
  \E n \in Nat : /\ DOMAIN s = 1..n
                 /\ \A i \in 1..n : /\ AreInfos(Choice!AvailableCoins(s[i]))
                                    /\ Choice!WireFee(s[i]) \in Nat \cup {<<>>}

StillToPay(c) == [remaining |-> c.amount, exchange |-> <<>>, result |-> <<>>]
Results(s, c) ==
  {Choice!SelectPayCoins(Choice!AvailableCoins(s[i]), r, c.maxDepositFee) : i \in DOMAIN s, r \in Nat}
Tries(s, c) == [remaining : Nat, exchange : {s[i] : i \in DOMAIN s} \cup {<<>>}, result : Results(s, c) \cup {<<>>}]

TriesBy(g, s, c) ==
  [t \in SUBSET (DOMAIN s) |-> IF t = {} THEN StillToPay(c)
                               ELSE Choice!TryExchange(c, g[t \ {Max(t)}], s[Max(t)])]
LEMMA TriesAre ==
  ASSUME NEW s, NEW c
  PROVE  Choice!GetCoinsForPayment(s, c) = (CHOOSE g : g = TriesBy(g, s, c))[DOMAIN s]
  BY DEF Choice!GetCoinsForPayment, Choice!FoldLeft, Choice!MapThenFoldSet, TriesBy, StillToPay, Choice!Max, Max

\* What is true of a payment that was found.
IsPaid(s, c, a) ==
  a.result # <<>> =>
    /\ \E i \in DOMAIN s : a.exchange = s[i]
    /\ Choice!IsAllowed(a.exchange, c) /\ a.exchange.hasWireInfo
    /\ Choice!CoinsOf(a.result.chosen) \subseteq Choice!AvailableCoins(a.exchange)
    /\ Choice!Contributed(a.result.chosen)
         >= c.amount + Choice!CustomerWireFee(a.exchange, c)
              + Choice!Toll(Choice!CoinsOf(a.result.chosen), c.maxDepositFee)
TriedSoFar(s, c, a) == a \in Tries(s, c) /\ a.remaining >= c.amount /\ IsPaid(s, c, a)

LEMMA WireFeeIsNatural ==
  ASSUME NEW c, Contract(c), NEW e, Choice!WireFee(e) \in Nat \cup {<<>>}
  PROVE  Choice!CustomerWireFee(e, c) \in Nat
  <1>. DEFINE fee == Choice!WireFee(e)
  <1>1. CASE fee = <<>>
    BY <1>1 DEF Choice!CustomerWireFee
  <1>2. CASE fee # <<>>
    <2>1. fee \in Nat /\ c.wireFeeAmortization \in Nat \ {0} /\ c.maxWireFee \in Nat
      BY <1>2 DEF Contract
    <2>. DEFINE share == fee \div c.wireFeeAmortization
    <2>. HIDE DEF fee
    <2>2. share \in Nat
      BY <2>1
    <2>3. Choice!CustomerWireFee(e, c) = IF c.maxWireFee < share THEN share ELSE 0
      BY <1>2 DEF Choice!CustomerWireFee, fee
    <2>. HIDE DEF share
    <2>. QED
      BY <2>2, <2>3
  <1>. QED
    BY <1>1, <1>2

LEMMA TriedOn ==
  ASSUME NEW s, Exchanges(s), NEW c, Contract(c), NEW i \in DOMAIN s, NEW a, TriedSoFar(s, c, a)
  PROVE  TriedSoFar(s, c, Choice!TryExchange(c, a, s[i]))
  <1>. DEFINE e == s[i]
              fee == Choice!CustomerWireFee(e, c)
              rest == a.remaining + fee
              S == Choice!AvailableCoins(e)
              r == Choice!SelectPayCoins(S, rest, c.maxDepositFee)
              b == [remaining |-> rest, exchange |-> e, result |-> r]
              passed == \/ a.result # <<>>
                        \/ ~e.hasDetails \/ ~e.hasWireInfo
                        \/ ~Choice!IsAllowed(e, c)
                        \/ e.coins = {}
  <1>1. Choice!TryExchange(c, a, e) = IF passed THEN a ELSE b
    BY DEF Choice!TryExchange
  <1>2. AreInfos(S) /\ fee \in Nat /\ c.maxDepositFee \in Nat /\ c.amount \in Nat
    BY WireFeeIsNatural DEF Exchanges, Contract
  <1>3. a.remaining \in Nat /\ a.remaining >= c.amount
    BY DEF TriedSoFar, Tries
  <1>4. rest \in Nat /\ rest >= c.amount /\ rest >= c.amount + fee
    BY <1>2, <1>3
  <1>5. CASE passed
    BY <1>1, <1>5
  <1>6. CASE ~passed
    <2>1. e.hasWireInfo /\ Choice!IsAllowed(e, c)
      BY <1>6
    <2>. HIDE DEF fee, rest, S, r
    <2>2. r \in Results(s, c)
      BY <1>4 DEF Results, r, S
    <2>3. b \in Tries(s, c)
      BY <1>4, <2>2 DEF Tries
    <2>4. ASSUME r # <<>>
          PROVE  /\ Choice!CoinsOf(r.chosen) \subseteq S
                 /\ Choice!Contributed(r.chosen) >= c.amount + fee + Choice!Toll(Choice!CoinsOf(r.chosen), c.maxDepositFee)
      <3>. DEFINE paid == Choice!Contributed(r.chosen)
                  toll == Choice!Toll(Choice!CoinsOf(r.chosen), c.maxDepositFee)
      <3>1. Choice!CoinsOf(r.chosen) \subseteq S /\ paid \in Nat /\ toll \in Nat /\ paid >= rest + toll
        BY <1>2, <1>4, <2>4, SelectionGives DEF r
      <3>. HIDE DEF paid, toll
      <3>2. paid >= c.amount + fee + toll
        BY <1>2, <1>4, <3>1
      <3>. QED
        BY <3>1, <3>2 DEF paid, toll
    <2>5. b.result = r /\ b.exchange = e /\ b.remaining = rest
      OBVIOUS
    <2>6. IsPaid(s, c, b)
      BY <2>1, <2>4, <2>5 DEF IsPaid, S, fee
    <2>7. TriedSoFar(s, c, b)
      BY <1>4, <2>3, <2>5, <2>6 DEF TriedSoFar
    <2>. QED
      BY <1>1, <1>6, <2>7
  <1>. QED
    BY <1>5, <1>6

\* Whatever exchanges and coins there are: the exchange that a contract is paid with is one the
\* wallet knows and the contract allows, the coins are its own, and they are enough for the
\* amount, and what the customer bears of the fees (getCoinsForPayment).
THEOREM ContractsArePaid ==
  ASSUME NEW exchanges, Exchanges(exchanges), NEW contract, Contract(contract)
  PROVE  Choice!ContractFits(exchanges, contract)
  <1>. DEFINE s == exchanges
              c == contract
              A == {a \in Tries(s, c) : TriedSoFar(s, c, a)}
              base == StillToPay(c)
              h == CHOOSE g : g = TriesBy(g, s, c)
  <1>1. PICK n \in Nat : DOMAIN s = 1..n
    BY DEF Exchanges
  <1>. DEFINE F == [p \in (1..n) \X A |-> Choice!TryExchange(c, p[2], s[p[1]])]
  <1>2. base \in A
    <2>1. c.amount \in Nat
      BY DEF Contract
    <2>. QED
      BY <2>1 DEF StillToPay, Tries, TriedSoFar, IsPaid
  <1>3. \A x \in 1..n, a \in A : F[<<x, a>>] = Choice!TryExchange(c, a, s[x]) /\ F[<<x, a>>] \in A
    <2>1. ASSUME NEW x \in 1..n, NEW a \in A
          PROVE  Choice!TryExchange(c, a, s[x]) \in A
      <3>1. TriedSoFar(s, c, Choice!TryExchange(c, a, s[x]))
        BY <1>1, TriedOn
      <3>. QED
        BY <3>1 DEF TriedSoFar
    <2>. QED
      BY <2>1
  <1>4. Choice!GetCoinsForPayment(s, c) = h[1..n]
    BY <1>1, TriesAre
  <1>. HIDE DEF A, F, base, h
  <1>5. Operates(F, n, A)
    BY <1>3 DEF Operates
  <1>6. PICK g : FixedFold(F, base, n, A, g)
    BY <1>2, <1>5, FoldIsFixed
  <1>7. g = TriesBy(g, s, c)
    <2>1. \A t \in SUBSET (1..n) : t # {} => F[<<Max(t), g[t \ {Max(t)}]>>] = Choice!TryExchange(c, g[t \ {Max(t)}], s[Max(t)])
      BY <1>3, <1>6 DEF FixedFold
    <2>. QED
      BY <1>1, <1>6, <2>1 DEF TriesBy, base, FixedFold
  <1>8. h = TriesBy(h, s, c)
    BY <1>7 DEF h
  <1>9. \A t \in SUBSET (1..n) : h[t] = IF t = {} THEN base ELSE Choice!TryExchange(c, h[t \ {Max(t)}], s[Max(t)])
    <2>1. \A k : k = TriesBy(h, s, c) => \A t \in SUBSET (1..n) :
            k[t] = IF t = {} THEN base ELSE Choice!TryExchange(c, h[t \ {Max(t)}], s[Max(t)])
      BY <1>1 DEF TriesBy, base
    <2>. QED
      BY <1>8, <2>1
  <1>10. PICK w : Walks(F, base, n, A, w) /\ w[n] = h[1..n]
    <2>1. ASSUME NEW t \in SUBSET (1..n), t # {}, h[t \ {Max(t)}] \in A
          PROVE  h[t] = F[<<Max(t), h[t \ {Max(t)}]>>]
      BY <1>3, <1>6, <1>9, <2>1 DEF FixedFold
    <2>2. Follows(F, base, n, A, h)
      BY <1>9, <2>1 DEF Follows
    <2>. QED
      BY <1>2, <1>5, <2>2, FoldWalks
  <1>11. TriedSoFar(s, c, Choice!GetCoinsForPayment(s, c))
    <2>1. n \in 0..n
      OBVIOUS
    <2>. QED
      BY <1>4, <1>10, <2>1 DEF Walks, A
  <1>12. \A i \in DOMAIN s : s[i] \in Choice!ToSet(s)
    BY DEF Choice!ToSet
  <1>. DEFINE paid == Choice!GetCoinsForPayment(s, c)
  <1>. HIDE DEF paid
  <1>13. IsPaid(s, c, paid)
    BY <1>11 DEF TriedSoFar, paid
  <1>14. paid.result # <<>> =>
           /\ paid.exchange \in Choice!ToSet(s)
           /\ Choice!IsAllowed(paid.exchange, c) /\ paid.exchange.hasWireInfo
           /\ Choice!CoinsOf(paid.result.chosen) \subseteq Choice!AvailableCoins(paid.exchange)
           /\ Choice!Contributed(paid.result.chosen)
                >= c.amount + Choice!CustomerWireFee(paid.exchange, c)
                     + Choice!Toll(Choice!CoinsOf(paid.result.chosen), c.maxDepositFee)
    BY <1>12, <1>13 DEF IsPaid
  <1>. QED
    BY <1>14 DEF Choice!ContractFits, paid

-----------------------------------------------------------------------------
(* amounts.ts.  An amount is a value and a fraction below the base; what the *)
(* operations do with them is what one does with their units.               *)

\* Amounts of a currency with any number of digits, and any greatest value.
Base == Choice!fractionalBase
Currency == Base \in Nat \ {0} /\ maxAmountValue \in Nat
Normal(a) == Choice!IsNormal(a)
Limit == Choice!Units(Choice!Greatest)

LEMMA TimesGrows ==
  ASSUME NEW x \in Nat, NEW y \in Nat, NEW b \in Nat, x < y
  PROVE  x * b + b <= y * b
  <1>. DEFINE d == y - x - 1
  <1>1. d \in Nat /\ y = x + 1 + d
    OBVIOUS
  <1>. HIDE DEF d
  <1>2. y * b = x * b + b + d * b /\ d * b \in Nat /\ x * b \in Nat
    BY <1>1
  <1>. QED
    BY <1>2
LEMMA Carry ==
  ASSUME NEW f \in Nat, NEW b \in Nat \ {0}
  PROVE  /\ f \div b \in Nat /\ f % b \in 0..(b - 1)
         /\ (f \div b) * b + (f % b) = f
  <1>1. PICK q, r : q = f \div b /\ r = f % b
    OBVIOUS
  <1>2. f = b * q + r /\ r \in 0..(b - 1) /\ q \in Int
    BY <1>1
  <1>3. q >= 0
    BY <1>2
  <1>4. q * b = b * q
    BY <1>2
  <1>5. q \in Nat /\ r \in 0..(b - 1) /\ q * b + r = f
    BY <1>2, <1>3, <1>4
  <1>. QED
    BY <1>1, <1>5

\* Of two amounts the one with the greater value has more units, whatever its fraction is.
LEMMA ValueDecides ==
  ASSUME NEW b \in Nat \ {0}, NEW v \in Nat, NEW f \in 0..(b - 1), NEW w \in Nat, NEW g \in 0..(b - 1)
  PROVE  v < w => v * b + f < w * b + g
  <1>1. SUFFICES ASSUME v < w
                 PROVE  v * b + f < w * b + g
    OBVIOUS
  <1>2. v * b + b <= w * b /\ v * b \in Nat /\ w * b \in Nat
    BY <1>1, TimesGrows
  <1>. QED
    BY <1>2

LEMMA UnitsAre ==
  ASSUME Currency, NEW a, Normal(a)
  PROVE  /\ a.value \in Nat /\ a.fraction \in 0..(Base - 1) /\ a.fraction \in Nat /\ a.value <= maxAmountValue
         /\ Choice!Units(a) = a.value * Base + a.fraction /\ Choice!Units(a) \in Nat
         /\ a.value * Base \in Nat
         /\ Choice!Units(a) <= Limit
         /\ Normal(Choice!Greatest) /\ Limit = maxAmountValue * Base + (Base - 1) /\ Limit \in Nat
  <1>1. a.value \in Nat /\ a.fraction \in 0..(Base - 1) /\ a.fraction \in Nat /\ a.value <= maxAmountValue
    BY DEF Normal, Choice!IsNormal, Currency, Base
  <1>2. a.value * Base \in Nat /\ maxAmountValue * Base \in Nat
    BY <1>1 DEF Currency
  <1>3. Choice!Units(a) = a.value * Base + a.fraction
    BY DEF Choice!Units, Base
  <1>4. Limit = maxAmountValue * Base + (Base - 1)
    BY DEF Limit, Choice!Units, Choice!Greatest, Choice!Amount, Base
  <1>5. Normal(Choice!Greatest)
    BY DEF Normal, Choice!IsNormal, Choice!Greatest, Choice!Amount, Currency, Base
  <1>6. Choice!Units(a) <= Limit
    <2>1. CASE a.value < maxAmountValue
      BY <1>1, <1>2, <1>3, <1>4, <2>1, TimesGrows DEF Currency
    <2>2. CASE a.value = maxAmountValue
      BY <1>1, <1>2, <1>3, <1>4, <2>2 DEF Currency
    <2>. QED
      BY <1>1, <2>1, <2>2 DEF Currency
  <1>. QED
    BY <1>1, <1>2, <1>3, <1>4, <1>5, <1>6 DEF Currency

\* The results of an operation.
Outcomes == [amount : [value : 0..maxAmountValue, fraction : 0..(Base - 1)], saturated : BOOLEAN]

LEMMA OutcomesAre ==
  ASSUME NEW r \in Outcomes
  PROVE  Normal(r.amount) /\ r.saturated \in BOOLEAN
  BY DEF Outcomes, Normal, Choice!IsNormal, Base

LEMMA CarriedIs ==
  ASSUME Currency, NEW v \in Nat, NEW f \in Nat
  PROVE  LET c == Choice!Carried(Choice!Amount(v, f)) IN
         /\ c.value \in Nat /\ c.fraction \in 0..(Base - 1)
         /\ c.value * Base + c.fraction = v * Base + f
         /\ c = [value |-> c.value, fraction |-> c.fraction]
  <1>. DEFINE c == Choice!Carried(Choice!Amount(v, f))
  <1>1. c = [value |-> v + f \div Base, fraction |-> f % Base]
    BY DEF Choice!Carried, Choice!Amount, Base
  <1>2. f \div Base \in Nat /\ f % Base \in 0..(Base - 1) /\ (f \div Base) * Base + (f % Base) = f
    BY Carry DEF Currency
  <1>. HIDE DEF c
  <1>3. PICK q, r : q \in Nat /\ r \in 0..(Base - 1) /\ q * Base + r = f /\ c = [value |-> v + q, fraction |-> r]
    BY <1>1, <1>2
  <1>4. (v + q) * Base = v * Base + q * Base /\ v * Base \in Nat /\ q * Base \in Nat
    BY <1>3 DEF Currency
  <1>5. (v + q) * Base + r = v * Base + f
    BY <1>3, <1>4 DEF Currency
  <1>6. c.value = v + q /\ c.fraction = r
    BY <1>3
  <1>. QED
    BY <1>3, <1>5, <1>6 DEF c

\* One addition: exact, or what is too large is the greatest amount.
LEMMA AddOneIs ==
  ASSUME Currency, NEW r \in Outcomes, NEW x, Normal(x)
  PROVE  LET s == Choice!AddOne(r, x)
             units == Choice!Units(r.amount) + Choice!Units(x)
         IN /\ s \in Outcomes
            /\ r.saturated => s = r
            /\ ~r.saturated => (s.saturated <=> units > Limit)
            /\ ~s.saturated => Choice!Units(s.amount) = units
            /\ s.saturated => r.saturated \/ s.amount = Choice!Greatest
  <1>. DEFINE s == Choice!AddOne(r, x)
              a == r.amount
              v == a.value + x.value
              f == a.fraction + x.fraction
              c == Choice!Carried(Choice!Amount(v, f))
              units == Choice!Units(a) + Choice!Units(x)
  <1>1. Normal(a) /\ r.saturated \in BOOLEAN
    BY OutcomesAre
  <1>2. /\ a.value \in Nat /\ a.fraction \in Nat /\ x.value \in Nat /\ x.fraction \in Nat
        /\ Choice!Units(a) = a.value * Base + a.fraction /\ Choice!Units(x) = x.value * Base + x.fraction
        /\ a.value * Base \in Nat /\ x.value * Base \in Nat
        /\ Limit = maxAmountValue * Base + (Base - 1)
    BY <1>1, UnitsAre
  <1>3. v \in Nat /\ f \in Nat
    BY <1>2
  <1>4. units = v * Base + f
    <2>1. v * Base = a.value * Base + x.value * Base
      BY <1>2 DEF Currency
    <2>. QED
      BY <1>2, <2>1
  <1>5. /\ c.value \in Nat /\ c.fraction \in 0..(Base - 1)
        /\ c.value * Base + c.fraction = units
        /\ c = [value |-> c.value, fraction |-> c.fraction]
    BY <1>3, <1>4, CarriedIs
  <1>6. s = IF r.saturated THEN r
            ELSE IF c.value > maxAmountValue THEN [amount |-> Choice!Greatest, saturated |-> TRUE]
                 ELSE [amount |-> c, saturated |-> FALSE]
    BY DEF Choice!AddOne, Choice!Saturated, Choice!Exact
  <1>7. Choice!Units(c) = units
    BY <1>5 DEF Choice!Units, Base
  <1>. HIDE DEF s, a, v, f, c, units
  <1>8. c.value > maxAmountValue <=> units > Limit
    <2>1. Base \in Nat \ {0} /\ maxAmountValue \in Nat /\ Base - 1 \in 0..(Base - 1)
      BY DEF Currency
    <2>2. CASE c.value > maxAmountValue
      BY <1>2, <1>5, <2>1, <2>2, ValueDecides
    <2>3. CASE c.value < maxAmountValue
      <3>1. c.value * Base + c.fraction < maxAmountValue * Base + (Base - 1)
        BY <1>5, <2>1, <2>3, ValueDecides
      <3>. QED
        BY <1>2, <1>5, <2>1, <2>3, <3>1
    <2>4. CASE c.value = maxAmountValue
      BY <1>2, <1>5, <2>1, <2>4
    <2>. QED
      BY <1>5, <2>1, <2>2, <2>3, <2>4
  <1>9. Choice!Greatest \in [value : 0..maxAmountValue, fraction : 0..(Base - 1)]
    BY DEF Choice!Greatest, Choice!Amount, Currency, Base
  <1>10. ~(c.value > maxAmountValue) => c \in [value : 0..maxAmountValue, fraction : 0..(Base - 1)]
    BY <1>5 DEF Currency
  <1>11. s \in Outcomes
    BY <1>1, <1>6, <1>9, <1>10 DEF Outcomes
  <1>12. r.saturated => s = r
    BY <1>6
  <1>13. ~r.saturated => (s.saturated <=> units > Limit)
    BY <1>6, <1>8
  <1>14. ~s.saturated => Choice!Units(s.amount) = units
    BY <1>6, <1>7
  <1>15. s.saturated => r.saturated \/ s.amount = Choice!Greatest
    BY <1>6
  <1>. QED
    BY <1>11, <1>12, <1>13, <1>14, <1>15 DEF s, units, a

\* One subtraction: exact, or there was not enough and nothing is left.
LEMMA SubOneIs ==
  ASSUME Currency, NEW r \in Outcomes, NEW x, Normal(x)
  PROVE  LET s == Choice!SubOne(r, x)
             there == Choice!Units(r.amount)
             units == Choice!Units(x)
         IN /\ s \in Outcomes
            /\ r.saturated => s = r
            /\ ~r.saturated => (s.saturated <=> there < units)
            /\ ~s.saturated => Choice!Units(s.amount) = there - units
            /\ s.saturated => r.saturated \/ Choice!Units(s.amount) = 0
  <1>. DEFINE s == Choice!SubOne(r, x)
              a == r.amount
              borrows == a.fraction < x.fraction
              value == IF borrows THEN a.value - 1 ELSE a.value
              fraction == IF borrows THEN a.fraction + Base ELSE a.fraction
              c == [value |-> value - x.value, fraction |-> fraction - x.fraction]
              there == Choice!Units(a)
              units == Choice!Units(x)
  <1>1. Normal(a) /\ r.saturated \in BOOLEAN
    BY OutcomesAre
  <1>2. /\ a.value \in Nat /\ a.fraction \in 0..(Base - 1) /\ x.value \in Nat /\ x.fraction \in 0..(Base - 1)
        /\ there = a.value * Base + a.fraction /\ units = x.value * Base + x.fraction
        /\ a.value * Base \in Nat /\ x.value * Base \in Nat /\ a.value <= maxAmountValue
    BY <1>1, UnitsAre
  <1>3. Base \in Nat \ {0} /\ maxAmountValue \in Nat
    BY DEF Currency
  <1>4. s = IF r.saturated THEN r
            ELSE IF (borrows /\ a.value < 1) \/ value < x.value
                 THEN [amount |-> [value |-> 0, fraction |-> 0], saturated |-> TRUE]
                 ELSE [amount |-> c, saturated |-> FALSE]
    BY DEF Choice!SubOne, Choice!Saturated, Choice!Exact, Choice!getZero, Choice!Amount, Base
  <1>. HIDE DEF s, a, there, units
  <1>5. ((borrows /\ a.value < 1) \/ value < x.value) <=> there < units
    <2>1. CASE a.value < x.value
      BY <1>2, <1>3, <2>1, ValueDecides
    <2>2. CASE a.value > x.value
      BY <1>2, <1>3, <2>2, ValueDecides
    <2>3. CASE a.value = x.value
      BY <1>2, <1>3, <2>3
    <2>. QED
      BY <1>2, <2>1, <2>2, <2>3
  <1>6. ASSUME ~((borrows /\ a.value < 1) \/ value < x.value)
        PROVE  /\ c \in [value : 0..maxAmountValue, fraction : 0..(Base - 1)]
               /\ c.value * Base + c.fraction = there - units
    <2>1. CASE borrows
      <3>1. a.value - 1 - x.value \in Nat
        <4>1. value = a.value - 1 /\ ~(a.value < 1)
          BY <1>6, <2>1
        <4>2. ~(value < x.value)
          BY <1>6
        <4>. HIDE DEF value
        <4>. QED
          BY <1>2, <4>1, <4>2
      <3>2. (a.value - 1 - x.value) * Base = a.value * Base - Base - x.value * Base
        <4>. DEFINE d == a.value - 1 - x.value
        <4>1. d \in Nat /\ a.value = x.value + 1 + d
          BY <1>2, <3>1
        <4>. HIDE DEF d
        <4>2. (x.value + 1 + d) * Base = x.value * Base + Base + d * Base /\ d * Base \in Nat
          BY <1>2, <1>3, <4>1
        <4>3. d * Base = a.value * Base - Base - x.value * Base
          BY <1>2, <1>3, <4>1, <4>2
        <4>. QED
          BY <4>3 DEF d
      <3>3. c.value = a.value - 1 - x.value /\ c.fraction = (a.fraction + Base) - x.fraction
        <4>1. value = a.value - 1 /\ fraction = a.fraction + Base
          BY <2>1
        <4>. HIDE DEF value, fraction
        <4>2. c.value = value - x.value /\ c.fraction = fraction - x.fraction
          OBVIOUS
        <4>. HIDE DEF c
        <4>3. c.value = a.value - 1 - x.value
          BY <4>1, <4>2
        <4>4. c.fraction = (a.fraction + Base) - x.fraction
          BY <4>1, <4>2
        <4>. QED
          BY <4>3, <4>4
      <3>. QED
        BY <1>2, <1>3, <2>1, <3>1, <3>2, <3>3
    <2>2. CASE ~borrows
      <3>1. a.value - x.value \in Nat
        BY <1>2, <1>6, <2>2
      <3>2. (a.value - x.value) * Base = a.value * Base - x.value * Base
        BY <1>2, <1>3
      <3>3. c.value = a.value - x.value /\ c.fraction = a.fraction - x.fraction
        BY <2>2
      <3>. QED
        BY <1>2, <1>3, <2>2, <3>1, <3>2, <3>3
    <2>. QED
      BY <2>1, <2>2
  <1>. DEFINE short == (borrows /\ a.value < 1) \/ value < x.value
  <1>. HIDE DEF short, c
  <1>7. s = IF r.saturated THEN r
            ELSE IF short THEN [amount |-> [value |-> 0, fraction |-> 0], saturated |-> TRUE]
                 ELSE [amount |-> c, saturated |-> FALSE]
    BY <1>4 DEF short
  <1>8. ~short => /\ c \in [value : 0..maxAmountValue, fraction : 0..(Base - 1)]
                  /\ c.value * Base + c.fraction = there - units
    BY <1>6 DEF short
  <1>9. [value |-> 0, fraction |-> 0] \in [value : 0..maxAmountValue, fraction : 0..(Base - 1)]
    BY <1>3
  <1>10. Choice!Units([value |-> 0, fraction |-> 0]) = 0
    BY <1>3 DEF Choice!Units, Base
  <1>11. Choice!Units(c) = c.value * Base + c.fraction
    BY DEF Choice!Units, Base
  <1>12. s \in Outcomes
    BY <1>1, <1>7, <1>8, <1>9 DEF Outcomes
  <1>13. ~r.saturated => (s.saturated <=> there < units)
    BY <1>5, <1>7 DEF short
  <1>14. ~s.saturated => Choice!Units(s.amount) = there - units
    BY <1>7, <1>8, <1>11
  <1>15. s.saturated => r.saturated \/ Choice!Units(s.amount) = 0
    BY <1>7, <1>10
  <1>16. r.saturated => s = r
    BY <1>7
  <1>. QED
    BY <1>12, <1>13, <1>14, <1>15, <1>16 DEF s, there, units, a

Figures == [value : 0..maxAmountValue, fraction : 0..(Base - 1)]
UnitsOf(s) == [i \in DOMAIN s |-> Choice!Units(s[i])]
FirstUnits(s, k) == Sum(UnitsOf(s), 1..k)

LEMMA FiguresAre ==
  ASSUME NEW a \in Figures
  PROVE  Normal(a) /\ a = [value |-> a.value, fraction |-> a.fraction]
  BY DEF Figures, Normal, Choice!IsNormal, Base

LEMMA PartsGrow ==
  ASSUME Currency, NEW n \in Nat, NEW s, DOMAIN s = 1..n, \A i \in 1..n : s[i] \in Figures
  PROVE  /\ FirstUnits(s, 0) = 0
         /\ \A k \in 0..n : FirstUnits(s, k) \in Nat
         /\ \A k \in 1..n : FirstUnits(s, k) = FirstUnits(s, k - 1) + Choice!Units(s[k]) /\ Choice!Units(s[k]) \in Nat
  <1>1. \A i \in 1..n : UnitsOf(s)[i] = Choice!Units(s[i]) /\ Choice!Units(s[i]) \in Nat
    BY FiguresAre, UnitsAre DEF UnitsOf
  <1>2. FirstUnits(s, 0) = 0
    <2>1. 1..0 = {}
      OBVIOUS
    <2>. QED
      BY <2>1, SumOfNone DEF FirstUnits
  <1>3. ASSUME NEW k \in 0..n
        PROVE  IsFiniteSet(1..k) /\ NaturalOn(UnitsOf(s), 1..k) /\ FirstUnits(s, k) \in Nat
    <2>1. IsFiniteSet(1..k)
      BY FS_Interval
    <2>2. \A i \in 1..k : i \in 1..n
      OBVIOUS
    <2>3. NaturalOn(UnitsOf(s), 1..k)
      BY <1>1, <2>2 DEF NaturalOn
    <2>. QED
      BY <2>1, <2>3, SumIsNatural DEF FirstUnits
  <1>4. ASSUME NEW k \in 1..n
        PROVE  FirstUnits(s, k) = FirstUnits(s, k - 1) + Choice!Units(s[k])
    <2>1. k - 1 \in 0..n /\ k \in 0..n /\ 1..k = (1..(k - 1)) \cup {k} /\ k \notin 1..(k - 1)
      OBVIOUS
    <2>2. IsFiniteSet(1..(k - 1)) /\ NaturalOn(UnitsOf(s), (1..(k - 1)) \cup {k}) /\ FirstUnits(s, k - 1) \in Nat
      BY <1>3, <2>1
    <2>3. Sum(UnitsOf(s), (1..(k - 1)) \cup {k}) = UnitsOf(s)[k] + Sum(UnitsOf(s), 1..(k - 1))
      BY <2>1, <2>2, SumWith
    <2>4. FirstUnits(s, k) = Choice!Units(s[k]) + FirstUnits(s, k - 1)
      BY <1>1, <2>1, <2>3 DEF FirstUnits
    <2>. QED
      BY <1>1, <2>2, <2>4
  <1>. QED
    BY <1>1, <1>2, <1>3, <1>4

-----------------------------------------------------------------------------
(* add *)

Additions(base, s) == Choice!FoldLeft(Choice!AddOne, base, s)
AdditionsBy(g, base, s) ==
  [t \in SUBSET (DOMAIN s) |-> IF t = {} THEN base ELSE Choice!AddOne(g[t \ {Max(t)}], s[Max(t)])]
LEMMA AdditionsAre ==
  ASSUME NEW s, NEW base
  PROVE  Additions(base, s) = (CHOOSE g : g = AdditionsBy(g, base, s))[DOMAIN s]
  BY DEF Additions, Choice!FoldLeft, Choice!MapThenFoldSet, AdditionsBy, Choice!Max, Max

LEMMA AdditionsWalk ==
  ASSUME Currency, NEW n \in Nat, NEW s, DOMAIN s = 1..n, \A i \in 1..n : s[i] \in Figures,
         NEW base \in Outcomes
  PROVE  \E w : /\ w[0] = base /\ w[n] = Additions(base, s)
                /\ \A k \in 0..n : w[k] \in Outcomes
                /\ \A k \in 1..n : w[k] = Choice!AddOne(w[k - 1], s[k])
  <1>. DEFINE A == Outcomes
              h == CHOOSE g : g = AdditionsBy(g, base, s)
              F == [p \in (1..n) \X A |-> Choice!AddOne(p[2], s[p[1]])]
  <1>1. \A x \in 1..n, a \in A : F[<<x, a>>] = Choice!AddOne(a, s[x]) /\ F[<<x, a>>] \in A
    <2>1. ASSUME NEW x \in 1..n, NEW a \in A
          PROVE  Choice!AddOne(a, s[x]) \in A
      BY FiguresAre, AddOneIs
    <2>. QED
      BY <2>1
  <1>2. Additions(base, s) = h[1..n]
    BY AdditionsAre
  <1>3. base \in A
    OBVIOUS
  <1>. HIDE DEF A, F, h
  <1>4. Operates(F, n, A)
    BY <1>1 DEF Operates
  <1>5. PICK g : FixedFold(F, base, n, A, g)
    BY <1>3, <1>4, FoldIsFixed
  <1>6. g = AdditionsBy(g, base, s)
    <2>1. \A t \in SUBSET (1..n) : t # {} => F[<<Max(t), g[t \ {Max(t)}]>>] = Choice!AddOne(g[t \ {Max(t)}], s[Max(t)])
      BY <1>1, <1>5 DEF FixedFold
    <2>. QED
      BY <1>5, <2>1 DEF AdditionsBy, FixedFold
  <1>7. h = AdditionsBy(h, base, s)
    BY <1>6 DEF h
  <1>8. \A t \in SUBSET (1..n) : h[t] = IF t = {} THEN base ELSE Choice!AddOne(h[t \ {Max(t)}], s[Max(t)])
    <2>1. \A k : k = AdditionsBy(h, base, s) => \A t \in SUBSET (1..n) :
            k[t] = IF t = {} THEN base ELSE Choice!AddOne(h[t \ {Max(t)}], s[Max(t)])
      BY DEF AdditionsBy
    <2>. QED
      BY <1>7, <2>1
  <1>9. PICK w : Walks(F, base, n, A, w) /\ w[n] = h[1..n]
    <2>1. ASSUME NEW t \in SUBSET (1..n), t # {}, h[t \ {Max(t)}] \in A
          PROVE  h[t] = F[<<Max(t), h[t \ {Max(t)}]>>]
      BY <1>1, <1>5, <1>8, <2>1 DEF FixedFold
    <2>2. Follows(F, base, n, A, h)
      BY <1>8, <2>1 DEF Follows
    <2>. QED
      BY <1>3, <1>4, <2>2, FoldWalks
  <1>10. \A k \in 1..n : w[k] = Choice!AddOne(w[k - 1], s[k])
    <2>1. \A k \in 1..n : k - 1 \in 0..n
      OBVIOUS
    <2>. QED
      BY <1>1, <1>9, <2>1 DEF Walks
  <1>. QED
    BY <1>2, <1>9, <1>10 DEF Walks, A

LEMMA FirstIsExact ==
  ASSUME Currency, NEW a \in Figures
  PROVE  /\ Choice!Carried(a) = a /\ ~(Choice!Carried(a).value > maxAmountValue)
         /\ Choice!Exact(a) \in Outcomes /\ Choice!Exact(a).amount = a /\ Choice!Exact(a).saturated = FALSE
  <1>1. /\ a.value \in 0..maxAmountValue /\ a.fraction \in 0..(Base - 1)
        /\ a = [value |-> a.value, fraction |-> a.fraction]
    BY FiguresAre DEF Figures
  <1>2. Choice!Carried(a) = [value |-> a.value + a.fraction \div Base, fraction |-> a.fraction % Base]
    BY DEF Choice!Carried, Choice!Amount, Base
  <1>3. a.fraction \div Base = 0 /\ a.fraction % Base = a.fraction
    <2>1. a.fraction \in Nat /\ Base \in Nat \ {0} /\ a.fraction < Base
      BY <1>1 DEF Currency
    <2>. QED
      BY <2>1
  <1>4. Choice!Carried(a) = a /\ ~(Choice!Carried(a).value > maxAmountValue)
    BY <1>1, <1>2, <1>3 DEF Currency
  <1>. QED
    BY <1>4 DEF Choice!Exact, Outcomes, Figures

\* Whatever is added: the sum is exact to the last unit, or it is said to be too large, and it
\* is (add in amounts.ts).
THEOREM AmountsAddUp ==
  ASSUME Currency, NEW first \in Figures,
         NEW n \in Nat, NEW rest, DOMAIN rest = 1..n, \A i \in 1..n : rest[i] \in Figures,
         NEW total, total = Choice!Units(first) + Sum(UnitsOf(rest), 1..n)
  PROVE  LET sum == Choice!Add(first, rest) IN
         /\ Choice!IsNormal(sum.amount)
         /\ sum.saturated <=> total > Choice!Units(Choice!Greatest)
         /\ sum.saturated => sum.amount = Choice!Greatest
         /\ ~sum.saturated => Choice!Units(sum.amount) = total
  <1>. DEFINE base == Choice!Exact(first)
              there == Choice!Units(first)
              Right(k, r) == /\ r.saturated <=> there + FirstUnits(rest, k) > Limit
                             /\ r.saturated => r.amount = Choice!Greatest
                             /\ ~r.saturated => Choice!Units(r.amount) = there + FirstUnits(rest, k)
  <1>1. base \in Outcomes /\ base.amount = first /\ base.saturated = FALSE
    BY FirstIsExact
  <1>2. Choice!Add(first, rest) = Additions(base, rest)
    BY FirstIsExact DEF Choice!Add, Additions
  <1>. HIDE DEF base
  <1>3. PICK w : /\ w[0] = base /\ w[n] = Additions(base, rest)
                 /\ \A k \in 0..n : w[k] \in Outcomes
                 /\ \A k \in 1..n : w[k] = Choice!AddOne(w[k - 1], rest[k])
    BY <1>1, AdditionsWalk
  <1>4. there \in Nat /\ there <= Limit /\ Limit \in Nat
    BY FiguresAre, UnitsAre
  <1>5. /\ FirstUnits(rest, 0) = 0
        /\ \A k \in 0..n : FirstUnits(rest, k) \in Nat
        /\ \A k \in 1..n : FirstUnits(rest, k) = FirstUnits(rest, k - 1) + Choice!Units(rest[k]) /\ Choice!Units(rest[k]) \in Nat
    BY PartsGrow
  <1>. HIDE DEF there
  <1>. DEFINE Good == {k \in 0..n : Right(k, w[k])}
  <1>6. 0 \in Good
    BY <1>1, <1>3, <1>4, <1>5 DEF there
  <1>7. ASSUME NEW k \in 1..n, k - 1 \in Good
        PROVE  k \in Good
    <2>. DEFINE r == w[k - 1]
                s == w[k]
                x == Choice!Units(rest[k])
    <2>1. Right(k - 1, r) /\ r \in Outcomes /\ s = Choice!AddOne(r, rest[k]) /\ k - 1 \in 0..n /\ k \in 0..n
      BY <1>3, <1>7
    <2>2. Normal(rest[k]) /\ Normal(r.amount)
      BY <2>1, FiguresAre, OutcomesAre
    <2>3. /\ r.saturated => s = r
          /\ ~r.saturated => (s.saturated <=> Choice!Units(r.amount) + x > Limit)
          /\ ~s.saturated => Choice!Units(s.amount) = Choice!Units(r.amount) + x
          /\ s.saturated => r.saturated \/ s.amount = Choice!Greatest
      BY <2>1, <2>2, AddOneIs
    <2>4. FirstUnits(rest, k) = FirstUnits(rest, k - 1) + x /\ x \in Nat /\ FirstUnits(rest, k - 1) \in Nat
      BY <1>5, <2>1
    <2>. HIDE DEF r, s, x
    <2>5. Right(k, s)
      <3>1. CASE r.saturated
        <4>1. there + FirstUnits(rest, k) > Limit
          BY <1>4, <2>1, <2>4, <3>1
        <4>. QED
          BY <2>1, <2>3, <3>1, <4>1
      <3>2. CASE ~r.saturated
        <4>1. Choice!Units(r.amount) + x = there + FirstUnits(rest, k)
          BY <1>4, <2>1, <2>4, <3>2
        <4>. QED
          BY <2>3, <3>2, <4>1
      <3>. QED
        BY <3>1, <3>2
    <2>. QED
      BY <2>1, <2>5 DEF s
  <1>8. Right(n, w[n])
    <2>. HIDE DEF Good
    <2>1. \A k \in 0..n : k \in Good
      BY <1>6, <1>7, UpTo
    <2>. QED
      BY <2>1 DEF Good
  <1>9. Normal(w[n].amount)
    <2>1. w[n] \in Outcomes
      BY <1>3
    <2>. QED
      BY <2>1, OutcomesAre
  <1>. QED
    BY <1>2, <1>3, <1>8, <1>9 DEF Normal, Limit, FirstUnits, there

-----------------------------------------------------------------------------
(* sub *)

Rests(base, s) == Choice!FoldLeft(Choice!SubOne, base, s)
RestsBy(g, base, s) ==
  [t \in SUBSET (DOMAIN s) |-> IF t = {} THEN base ELSE Choice!SubOne(g[t \ {Max(t)}], s[Max(t)])]
LEMMA RestsAre ==
  ASSUME NEW s, NEW base
  PROVE  Rests(base, s) = (CHOOSE g : g = RestsBy(g, base, s))[DOMAIN s]
  BY DEF Rests, Choice!FoldLeft, Choice!MapThenFoldSet, RestsBy, Choice!Max, Max

LEMMA RestsWalk ==
  ASSUME Currency, NEW n \in Nat, NEW s, DOMAIN s = 1..n, \A i \in 1..n : s[i] \in Figures,
         NEW base \in Outcomes
  PROVE  \E w : /\ w[0] = base /\ w[n] = Rests(base, s)
                /\ \A k \in 0..n : w[k] \in Outcomes
                /\ \A k \in 1..n : w[k] = Choice!SubOne(w[k - 1], s[k])
  <1>. DEFINE A == Outcomes
              h == CHOOSE g : g = RestsBy(g, base, s)
              F == [p \in (1..n) \X A |-> Choice!SubOne(p[2], s[p[1]])]
  <1>1. \A x \in 1..n, a \in A : F[<<x, a>>] = Choice!SubOne(a, s[x]) /\ F[<<x, a>>] \in A
    <2>1. ASSUME NEW x \in 1..n, NEW a \in A
          PROVE  Choice!SubOne(a, s[x]) \in A
      BY FiguresAre, SubOneIs
    <2>. QED
      BY <2>1
  <1>2. Rests(base, s) = h[1..n]
    BY RestsAre
  <1>3. base \in A
    OBVIOUS
  <1>. HIDE DEF A, F, h
  <1>4. Operates(F, n, A)
    BY <1>1 DEF Operates
  <1>5. PICK g : FixedFold(F, base, n, A, g)
    BY <1>3, <1>4, FoldIsFixed
  <1>6. g = RestsBy(g, base, s)
    <2>1. \A t \in SUBSET (1..n) : t # {} => F[<<Max(t), g[t \ {Max(t)}]>>] = Choice!SubOne(g[t \ {Max(t)}], s[Max(t)])
      BY <1>1, <1>5 DEF FixedFold
    <2>. QED
      BY <1>5, <2>1 DEF RestsBy, FixedFold
  <1>7. h = RestsBy(h, base, s)
    BY <1>6 DEF h
  <1>8. \A t \in SUBSET (1..n) : h[t] = IF t = {} THEN base ELSE Choice!SubOne(h[t \ {Max(t)}], s[Max(t)])
    <2>1. \A k : k = RestsBy(h, base, s) => \A t \in SUBSET (1..n) :
            k[t] = IF t = {} THEN base ELSE Choice!SubOne(h[t \ {Max(t)}], s[Max(t)])
      BY DEF RestsBy
    <2>. QED
      BY <1>7, <2>1
  <1>9. PICK w : Walks(F, base, n, A, w) /\ w[n] = h[1..n]
    <2>1. ASSUME NEW t \in SUBSET (1..n), t # {}, h[t \ {Max(t)}] \in A
          PROVE  h[t] = F[<<Max(t), h[t \ {Max(t)}]>>]
      BY <1>1, <1>5, <1>8, <2>1 DEF FixedFold
    <2>2. Follows(F, base, n, A, h)
      BY <1>8, <2>1 DEF Follows
    <2>. QED
      BY <1>3, <1>4, <2>2, FoldWalks
  <1>10. \A k \in 1..n : w[k] = Choice!SubOne(w[k - 1], s[k])
    <2>1. \A k \in 1..n : k - 1 \in 0..n
      OBVIOUS
    <2>. QED
      BY <1>1, <1>9, <2>1 DEF Walks
  <1>. QED
    BY <1>2, <1>9, <1>10 DEF Walks, A

\* Whatever is taken off: what is left is exact to the last unit, or it is said that there was
\* not enough, there was not, and nothing is left (sub in amounts.ts).
THEOREM AmountsSubtract ==
  ASSUME Currency, NEW first \in Figures,
         NEW n \in Nat, NEW rest, DOMAIN rest = 1..n, \A i \in 1..n : rest[i] \in Figures,
         NEW total, total = Sum(UnitsOf(rest), 1..n)
  PROVE  LET left == Choice!Sub(first, rest) IN
         /\ Choice!IsNormal(left.amount)
         /\ left.saturated <=> Choice!Units(first) < total
         /\ Choice!Units(left.amount) = IF left.saturated THEN 0 ELSE Choice!Units(first) - total
  <1>. DEFINE base == Choice!Exact(first)
              there == Choice!Units(first)
              Right(k, r) == /\ r.saturated <=> there < FirstUnits(rest, k)
                             /\ r.saturated => Choice!Units(r.amount) = 0
                             /\ ~r.saturated => Choice!Units(r.amount) = there - FirstUnits(rest, k)
  <1>1. base \in Outcomes /\ base.amount = first /\ base.saturated = FALSE
    BY FirstIsExact
  <1>2. Choice!Sub(first, rest) = Rests(base, rest)
    BY DEF Choice!Sub, Rests
  <1>. HIDE DEF base
  <1>3. PICK w : /\ w[0] = base /\ w[n] = Rests(base, rest)
                 /\ \A k \in 0..n : w[k] \in Outcomes
                 /\ \A k \in 1..n : w[k] = Choice!SubOne(w[k - 1], rest[k])
    BY <1>1, RestsWalk
  <1>4. there \in Nat
    BY FiguresAre, UnitsAre
  <1>5. /\ FirstUnits(rest, 0) = 0
        /\ \A k \in 0..n : FirstUnits(rest, k) \in Nat
        /\ \A k \in 1..n : FirstUnits(rest, k) = FirstUnits(rest, k - 1) + Choice!Units(rest[k]) /\ Choice!Units(rest[k]) \in Nat
    BY PartsGrow
  <1>. HIDE DEF there
  <1>. DEFINE Good == {k \in 0..n : Right(k, w[k])}
  <1>6. 0 \in Good
    BY <1>1, <1>3, <1>4, <1>5 DEF there
  <1>7. ASSUME NEW k \in 1..n, k - 1 \in Good
        PROVE  k \in Good
    <2>. DEFINE r == w[k - 1]
                s == w[k]
                x == Choice!Units(rest[k])
    <2>1. Right(k - 1, r) /\ r \in Outcomes /\ s = Choice!SubOne(r, rest[k]) /\ k - 1 \in 0..n /\ k \in 0..n
      BY <1>3, <1>7
    <2>2. Normal(rest[k]) /\ Normal(r.amount)
      BY <2>1, FiguresAre, OutcomesAre
    <2>3. /\ r.saturated => s = r
          /\ ~r.saturated => (s.saturated <=> Choice!Units(r.amount) < x)
          /\ ~s.saturated => Choice!Units(s.amount) = Choice!Units(r.amount) - x
          /\ s.saturated => r.saturated \/ Choice!Units(s.amount) = 0
      BY <2>1, <2>2, SubOneIs
    <2>4. FirstUnits(rest, k) = FirstUnits(rest, k - 1) + x /\ x \in Nat /\ FirstUnits(rest, k - 1) \in Nat
      BY <1>5, <2>1
    <2>. HIDE DEF r, s, x
    <2>5. Right(k, s)
      <3>1. CASE r.saturated
        <4>1. there < FirstUnits(rest, k)
          BY <1>4, <2>1, <2>4, <3>1
        <4>. QED
          BY <2>1, <2>3, <3>1, <4>1
      <3>2. CASE ~r.saturated
        <4>1. Choice!Units(r.amount) = there - FirstUnits(rest, k - 1)
          BY <2>1, <3>2
        <4>2. s.saturated <=> there < FirstUnits(rest, k)
          BY <1>4, <2>3, <2>4, <3>2, <4>1
        <4>3. ~s.saturated => Choice!Units(s.amount) = there - FirstUnits(rest, k)
          BY <1>4, <2>3, <2>4, <3>2, <4>1
        <4>. QED
          BY <2>3, <3>2, <4>2, <4>3
      <3>. QED
        BY <3>1, <3>2
    <2>. QED
      BY <2>1, <2>5 DEF s
  <1>8. Right(n, w[n])
    <2>. HIDE DEF Good
    <2>1. \A k \in 0..n : k \in Good
      BY <1>6, <1>7, UpTo
    <2>. QED
      BY <2>1 DEF Good
  <1>9. Normal(w[n].amount)
    <2>1. w[n] \in Outcomes
      BY <1>3
    <2>. QED
      BY <2>1, OutcomesAre
  <1>. QED
    BY <1>2, <1>3, <1>8, <1>9 DEF Normal, FirstUnits, there

-----------------------------------------------------------------------------
(* cmp and divide *)

\* Of two amounts the one with more units is the greater one, and amounts with as many units
\* are equal (cmp in amounts.ts).
THEOREM AmountsCompare ==
  ASSUME Currency, NEW a \in Figures, NEW b \in Figures
  PROVE  /\ Choice!Cmp(a, b) = Choice!Sign(Choice!Units(a) - Choice!Units(b))
         /\ Choice!Cmp(a, b) = 0 <=> a = b
  <1>1. Choice!Carried(a) = a /\ Choice!Carried(b) = b
    BY FirstIsExact
  <1>2. /\ a.value \in Nat /\ a.fraction \in 0..(Base - 1) /\ a.fraction \in Nat
        /\ Choice!Units(a) = a.value * Base + a.fraction /\ Choice!Units(a) \in Nat /\ a.value * Base \in Nat
        /\ a = [value |-> a.value, fraction |-> a.fraction]
    BY FiguresAre, UnitsAre
  <1>3. /\ b.value \in Nat /\ b.fraction \in 0..(Base - 1) /\ b.fraction \in Nat
        /\ Choice!Units(b) = b.value * Base + b.fraction /\ Choice!Units(b) \in Nat /\ b.value * Base \in Nat
        /\ b = [value |-> b.value, fraction |-> b.fraction]
    BY FiguresAre, UnitsAre
  <1>4. \A n \in Int : Choice!Sign(n) = IF n < 0 THEN -1 ELSE IF n > 0 THEN 1 ELSE 0
    BY DEF Choice!Sign
  <1>5. Choice!Cmp(a, b) = IF a.value # b.value THEN Choice!Sign(a.value - b.value)
                           ELSE Choice!Sign(a.fraction - b.fraction)
    BY <1>1 DEF Choice!Cmp
  <1>6. CASE a.value < b.value
    <2>1. Choice!Units(a) < Choice!Units(b)
      BY <1>2, <1>3, <1>6, ValueDecides DEF Currency
    <2>2. Choice!Cmp(a, b) = -1
      BY <1>2, <1>3, <1>4, <1>5, <1>6
    <2>3. Choice!Sign(Choice!Units(a) - Choice!Units(b)) = -1
      BY <1>2, <1>3, <1>4, <2>1
    <2>. QED
      BY <1>2, <1>3, <1>6, <2>2, <2>3
  <1>7. CASE b.value < a.value
    <2>1. Choice!Units(b) < Choice!Units(a)
      BY <1>2, <1>3, <1>7, ValueDecides DEF Currency
    <2>2. Choice!Cmp(a, b) = 1
      BY <1>2, <1>3, <1>4, <1>5, <1>7
    <2>3. Choice!Sign(Choice!Units(a) - Choice!Units(b)) = 1
      BY <1>2, <1>3, <1>4, <2>1
    <2>. QED
      BY <1>2, <1>3, <1>7, <2>2, <2>3
  <1>8. CASE a.value = b.value
    <2>1. Choice!Units(a) - Choice!Units(b) = a.fraction - b.fraction
      BY <1>2, <1>3, <1>8
    <2>2. Choice!Cmp(a, b) = Choice!Sign(a.fraction - b.fraction)
      BY <1>5, <1>8
    <2>3. Choice!Sign(a.fraction - b.fraction) = 0 <=> a.fraction = b.fraction
      BY <1>2, <1>3, <1>4
    <2>. QED
      BY <1>2, <1>3, <1>8, <2>1, <2>2, <2>3
  <1>. QED
    BY <1>2, <1>3, <1>6, <1>7, <1>8

LEMMA Products ==
  ASSUME NEW x \in Nat, NEW y \in Nat
  PROVE  x * y \in Nat /\ y * x = x * y
  OBVIOUS
LEMMA OfSum ==
  ASSUME NEW x \in Nat, NEW y \in Nat, NEW z \in Nat
  PROVE  (x + y) * z = x * z + y * z
  OBVIOUS
LEMMA OfProduct ==
  ASSUME NEW x \in Nat, NEW y \in Nat, NEW z \in Nat
  PROVE  (x * y) * z = (x * z) * y
  OBVIOUS
\* One of n units is no more than all of them.
LEMMA NotLess ==
  ASSUME NEW x \in Nat, NEW y \in Nat, NEW n \in Nat \ {0}, x * n < y * n
  PROVE  x < y
  <1>1. SUFFICES ASSUME ~(x < y)
                 PROVE  FALSE
    OBVIOUS
  <1>2. CASE x = y
    BY <1>2, Products
  <1>3. CASE y < x
    <2>1. y * n + n <= x * n
      BY <1>3, TimesGrows
    <2>2. y * n \in Nat /\ x * n \in Nat
      BY Products
    <2>. QED
      BY <2>1, <2>2
  <1>. QED
    BY <1>1, <1>2, <1>3

\* What is shared among some is exact, but for what is less than a unit for each of them
\* (divide in amounts.ts).
THEOREM AmountsDivide ==
  ASSUME Currency, NEW a \in Figures, NEW n \in Nat \ {0}
  PROVE  /\ Choice!IsNormal(Choice!Divide(a, n))
         /\ Choice!Units(Choice!Divide(a, n)) = Choice!Units(a) \div n
  <1>1. /\ a.value \in Nat /\ a.fraction \in 0..(Base - 1) /\ a.fraction \in Nat /\ a.value <= maxAmountValue
        /\ Choice!Units(a) = a.value * Base + a.fraction
    BY FiguresAre, UnitsAre
  <1>. DEFINE v == a.value
              q == v \div n
              r == v % n
              f == r * Base + a.fraction
              p == f \div n
              s == f % n
              B == Base
  <1>2. B \in Nat \ {0} /\ B \in Nat /\ n \in Nat /\ v \in Nat /\ a.fraction < B /\ maxAmountValue \in Nat
    BY <1>1 DEF Currency
  <1>3. q \in Nat /\ r \in 0..(n - 1) /\ r \in Nat /\ r < n /\ q * n + r = v
    <2>. HIDE DEF v
    <2>1. q \in Nat /\ r \in 0..(n - 1) /\ q * n + r = v
      BY <1>2, Carry
    <2>. QED
      BY <1>2, <2>1
  <1>. HIDE DEF q, r, v, B
  <1>4. r * B \in Nat /\ f = r * B + a.fraction /\ f \in Nat
    <2>1. r * B \in Nat
      BY <1>2, <1>3, Products
    <2>. QED
      BY <1>1, <2>1 DEF B
  <1>. HIDE DEF f
  <1>5. p \in Nat /\ s \in Nat /\ s < n /\ p * n + s = f
    <2>1. p \in Nat /\ s \in 0..(n - 1) /\ p * n + s = f
      BY <1>2, <1>4, Carry
    <2>. QED
      BY <1>2, <2>1
  <1>6. Choice!Divide(a, n) = [value |-> q, fraction |-> p]
    BY DEF Choice!Divide, Choice!Amount, Base, q, r, f, p, v
  <1>. HIDE DEF p, s
  <1>7. q * n \in Nat /\ p * n \in Nat /\ q * B \in Nat /\ n * B \in Nat /\ B * n = n * B
    BY <1>2, <1>3, <1>5, Products
  <1>8. p < B
    <2>1. r * B + B <= n * B
      BY <1>2, <1>3, TimesGrows
    <2>2. p * n < B * n
      BY <1>1, <1>2, <1>4, <1>5, <1>7, <2>1
    <2>. QED
      BY <1>2, <1>5, <2>2, NotLess
  <1>9. q <= v
    <2>1. CASE n = 1
      BY <1>3, <2>1
    <2>2. CASE 1 < n
      <3>1. ~(v < q)
        <4>1. SUFFICES ASSUME v < q
                       PROVE  FALSE
          OBVIOUS
        <4>2. 1 * q + q <= n * q
          BY <1>2, <1>3, <2>2, TimesGrows
        <4>3. n * q = q * n
          BY <1>2, <1>3, Products
        <4>. QED
          BY <1>2, <1>3, <1>7, <4>1, <4>2, <4>3
      <3>. QED
        BY <1>2, <1>3, <3>1
    <2>. QED
      BY <1>2, <2>1, <2>2
  <1>10. Choice!IsNormal([value |-> q, fraction |-> p])
    <2>1. q \in 0..maxAmountValue
      BY <1>1, <1>2, <1>3, <1>9 DEF v
    <2>2. p \in 0..Choice!fractionalBase - 1
      BY <1>2, <1>5, <1>8 DEF B, Base
    <2>. QED
      BY <2>1, <2>2 DEF Choice!IsNormal
  <1>11. Choice!Units([value |-> q, fraction |-> p]) = q * B + p
    BY DEF Choice!Units, Base, B
  <1>12. (q * B + p) * n + s = Choice!Units(a)
    <2>1. (q * B + p) * n = (q * B) * n + p * n
      BY <1>2, <1>5, <1>7, OfSum
    <2>2. (q * B) * n = (q * n) * B
      BY <1>2, <1>3, OfProduct
    <2>3. (q * n + r) * B = (q * n) * B + r * B
      BY <1>2, <1>3, <1>7, OfSum
    <2>4. (q * n) * B \in Nat
      BY <1>2, <1>7, Products
    <2>5. Choice!Units(a) = v * B + a.fraction
      BY <1>1 DEF v, B
    <2>. QED
      BY <1>1, <1>3, <1>4, <1>5, <1>7, <2>1, <2>2, <2>3, <2>4, <2>5
  <1>13. ((q * B + p) * n + s) \div n = q * B + p
    <2>. DEFINE u == q * B + p
    <2>1. u \in Nat
      BY <1>5, <1>7
    <2>. HIDE DEF u
    <2>2. (u * n + s) \div n = u
      BY <1>5, <2>1, Quotient
    <2>. QED
      BY <2>2 DEF u
  <1>. QED
    BY <1>6, <1>10, <1>11, <1>12, <1>13
=============================================================================
