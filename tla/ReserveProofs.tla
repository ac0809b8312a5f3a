---------------------------- MODULE ReserveProofs ----------------------------
(***************************************************************************)
(* However the activities in reserves.ts interleave, fail and restart, a   *)
(* reserve that was confirmed is never taken back to the bank (BankSide),  *)
(* and was confirmed there (BankHeard).  One that waits for the bank is    *)
(* registered, unless the bank has refused it (Registered).  The exchange  *)
(* can pay for all planchets that the wallet has stored (ClaimsOK), pays   *)
(* for each coin once (CoinsOK), and a reserve sleeps when there is        *)
(* nothing left to claim, unless a query was forced while money was being  *)
(* withdrawn (DepletionOK).                                                *)
(*                                                                         *)
(* The lists and sums of the model are folds over sequences.  They are the *)
(* functions that SumTheorems shows to exist, so what a fold gives follows *)
(* from what each of its steps keeps.                                      *)
(***************************************************************************)
EXTENDS Reserve, SumTheorems, SequenceTheorems, TLAPS

\* The return stack holds functions that are states of the program counter.
LEMMA ReturnTyped ==
  ASSUME NEW s \in Seq({"impl", "bank"}), s # <<>>
  PROVE  Head(s) \in {"impl", "bank"} /\ Tail(s) \in Seq({"impl", "bank"})
  OBVIOUS

\* A move of one activity keeps the program counters and stacks well formed
\* and leaves those of the other activities alone.
Moved(a) == /\ pc' \in [Actors -> Pcs]
            /\ stack' \in [Actors -> Seq({"impl", "bank"})]
            /\ \A b \in Actors \ {a} : pc'[b] = pc[b]

LEMMA GotoMoves ==
  ASSUME ControlOK, NEW a \in Actors, NEW f \in Pcs, Goto(a, f)
  PROVE  Moved(a) /\ pc'[a] = f
  BY DEF ControlOK, Goto, Moved

LEMMA CallMoves ==
  ASSUME ControlOK, NEW a \in Actors, NEW f \in Pcs, NEW n \in {"impl", "bank"},
         Call(a, f, n)
  PROVE  Moved(a) /\ pc'[a] = f
  <1>1. <<n>> \in Seq({"impl", "bank"})
    OBVIOUS
  <1>2. \A s \in Seq({"impl", "bank"}) : <<n>> \o s \in Seq({"impl", "bank"})
    BY <1>1
  <1>. QED
    BY <1>2 DEF ControlOK, Call, Moved

LEMMA ReturnMoves ==
  ASSUME ControlOK, NEW a \in Actors, Return(a)
  PROVE  Moved(a) /\ pc'[a] \in {"idle", "done", "impl", "bank"}
  <1>1. CASE stack[a] = <<>>
    BY <1>1 DEF ControlOK, Return, Moved, End, Pcs
  <1>2. CASE stack[a] # <<>>
    <2>1. stack[a] \in Seq({"impl", "bank"})
      BY DEF ControlOK
    <2>2. Head(stack[a]) \in {"impl", "bank"} /\ Tail(stack[a]) \in Seq({"impl", "bank"})
      BY <1>2, <2>1, ReturnTyped
    <2>. QED
      BY <1>2, <2>2 DEF ControlOK, Return, Moved, Pcs
  <1>. QED
    BY <1>1, <1>2

LEMMA ThrowMoves ==
  ASSUME ControlOK, NEW a \in Actors, Throw(a)
  PROVE  Moved(a) /\ pc'[a] \in {"idle", "done"}
  BY DEF ControlOK, Throw, Moved, End, Pcs

-----------------------------------------------------------------------------
(* What a move of one activity must respect                                *)

\* The effects that keep the reserve on its side of the bank: the transfer is
\* marked as confirmed together with the status, and a registration that is
\* about to be recorded, or is recorded, was made.
Respects(a) ==
  /\ status' \in Statuses /\ posted' \in BOOLEAN /\ confirmed' \in BOOLEAN
  /\ selected' \in BOOLEAN /\ transferred' \in BOOLEAN
  /\ confirmed' <=> status' \in QueryStatus
  /\ selected => selected'
  /\ status' = "WAIT_CONFIRM_BANK" =>
       status = "WAIT_CONFIRM_BANK" \/ pc[a] = "registered"
  /\ pc'[a] = "registered" => selected' \/ (BankRefuses(a) /\ ~selected)

\* What every step keeps, and what only a refusal can break.
Stays == BankSide' /\ (Registered => Registered' \/ RegistrationRefused)

LEMMA MoveKeeps ==
  ASSUME BankSide, NEW a \in Actors, Moved(a), Respects(a)
  PROVE  Stays
  <1>1. ControlOK'
    BY DEF Moved, Respects, ControlOK
  <1>2. ConfirmedIsPastBank'
    BY DEF Respects, ConfirmedIsPastBank
  <1>3. ASSUME Registered
        PROVE  WaitMeansRegistered'
    BY <1>3 DEF Respects, Registered, WaitMeansRegistered, RegisteredIsSelected
  <1>4. ASSUME Registered, ~RegistrationRefused, NEW b \in Actors,
               pc'[b] = "registered"
        PROVE  selected'
    <2>1. CASE b = a
      BY <1>4, <2>1 DEF Respects, RegistrationRefused
    <2>2. CASE b # a
      BY <1>4, <2>2 DEF Respects, Moved, Registered, RegisteredIsSelected
    <2>. QED
      BY <2>1, <2>2
  <1>. QED
    BY <1>1, <1>2, <1>3, <1>4 DEF Stays, BankSide, Registered, RegisteredIsSelected

\* Most moves leave the reserve and the bank as they are.
LEMMA QuietKeeps ==
  ASSUME BankSide, NEW a \in Actors, Moved(a), pc'[a] # "registered",
         UNCHANGED <<status, posted, confirmed, selected, transferred>>
  PROVE  Stays
  <1>1. Respects(a)
    BY DEF BankSide, ControlOK, ConfirmedIsPastBank, Respects
  <1>. QED
    BY <1>1, MoveKeeps

\* Steps that move no activity and do not touch the bank's side.
LEMMA StillKeeps ==
  ASSUME BankSide,
         UNCHANGED <<status, posted, confirmed, selected, pc, stack>>,
         transferred' \in BOOLEAN
  PROVE  Stays
  BY DEF Stays, Registered, BankSide, ControlOK, ConfirmedIsPastBank,
         WaitMeansRegistered, RegisteredIsSelected

-----------------------------------------------------------------------------
(* The calls of the user                                                   *)

LEMMA CreateReserveKeeps ==
  ASSUME BankSide, NEW c \in Creators, CreateReserve(c)
  PROVE  Stays
  <1>1. c \in Actors /\ ControlOK
    BY DEF Actors, BankSide
  <1>2. Goto(c, IF bankUrl' THEN "bank" ELSE "done")
    BY DEF CreateReserve
  <1>3. Moved(c) /\ pc'[c] # "registered"
    <2>1. CASE bankUrl'
      BY <1>1, <1>2, <2>1, GotoMoves DEF Pcs
    <2>2. CASE ~bankUrl'
      BY <1>1, <1>2, <2>2, GotoMoves DEF Pcs
    <2>. QED
      BY <2>1, <2>2
  <1>4. Respects(c)
    <2>1. UNCHANGED <<posted, confirmed, selected, transferred>>
      BY DEF CreateReserve, outside
    <2>2. \/ status' = status
          \/ status = "absent" /\ status' \in {"REGISTERING_BANK", "UNCONFIRMED"}
      BY DEF CreateReserve
    <2>. QED
      BY <1>3, <2>1, <2>2 DEF BankSide, ControlOK, ConfirmedIsPastBank, Respects,
         Statuses, BankStatus, QueryStatus
  <1>. QED
    BY <1>1, <1>3, <1>4, MoveKeeps

LEMMA ConfirmReserveKeeps ==
  ASSUME BankSide, ConfirmReserve
  PROVE  Stays
  BY DEF ConfirmReserve, local, outside, Stays, Registered, BankSide, ControlOK, ConfirmedIsPastBank,
         WaitMeansRegistered, RegisteredIsSelected, Statuses, QueryStatus

LEMMA ForceQueryReserveKeeps ==
  ASSUME BankSide, ForceQueryReserve
  PROVE  Stays
  BY DEF ForceQueryReserve, local, outside, Stays, Registered, BankSide, ControlOK,
         ConfirmedIsPastBank, WaitMeansRegistered, RegisteredIsSelected, Statuses,
         QueryStatus

LEMMA ProcessReserveKeeps ==
  ASSUME BankSide, ProcessReserve
  PROVE  Stays
  <1>1. Loop \in Actors /\ ControlOK /\ Goto(Loop, "impl") /\ "impl" \in Pcs
    BY DEF Actors, BankSide, ProcessReserve, Pcs
  <1>2. Moved(Loop) /\ pc'[Loop] = "impl"
    BY <1>1, GotoMoves
  <1>3. UNCHANGED <<status, posted, confirmed, selected, transferred>>
    BY DEF ProcessReserve, db, outside
  <1>. QED
    BY <1>1, <1>2, <1>3, QuietKeeps

-----------------------------------------------------------------------------
(* The steps of an activity that leave the reserve and the bank alone      *)

LEMMA QuietStepKeeps ==
  ASSUME BankSide, NEW a \in Actors,
         \/ Impl(a) \/ AskBank(a) \/ BankAnswers(a) \/ Register(a)
         \/ AskExchange(a) \/ ExchangeAnswers(a) \/ RequestFails(a)
         \/ DepleteReserve(a) \/ AwaitGroup(a)
  PROVE  Stays
  <1>1. ControlOK
    BY DEF BankSide
  <1>2. UNCHANGED <<status, posted, confirmed, selected, transferred>>
    BY DEF Impl, AskBank, BankAnswers, Register, AskExchange, ExchangeAnswers,
           RequestFails, DepleteReserve, AwaitGroup, db, outside
  <1>3. \/ Return(a) \/ Throw(a)
        \/ \E f \in {"asking", "answered", "posting", "querying", "queried",
                     "planned", "bank", "deplete"} : Goto(a, f)
        \/ \E f \in {"bank", "update"} : Call(a, f, "impl")
    <2>1. CASE Impl(a)
      BY <2>1 DEF Impl
    <2>2. CASE AskBank(a) \/ BankAnswers(a) \/ Register(a)
      BY <2>2 DEF AskBank, BankAnswers, Register
    <2>3. CASE AskExchange(a) \/ ExchangeAnswers(a) \/ RequestFails(a)
      BY <2>3 DEF AskExchange, ExchangeAnswers, RequestFails
    <2>4. CASE DepleteReserve(a) \/ AwaitGroup(a)
      BY <2>4 DEF DepleteReserve, AwaitGroup
    <2>. QED
      BY <2>1, <2>2, <2>3, <2>4
  <1>4. Moved(a) /\ pc'[a] # "registered"
    <2>1. CASE Return(a)
      BY <1>1, <2>1, ReturnMoves
    <2>2. CASE Throw(a)
      BY <1>1, <2>2, ThrowMoves
    <2>3. ASSUME NEW f \in {"asking", "answered", "posting", "querying",
                            "queried", "planned", "bank", "deplete"}, Goto(a, f)
          PROVE  Moved(a) /\ pc'[a] # "registered"
      <3>1. f \in Pcs /\ f # "registered"
        BY DEF Pcs
      <3>. QED
        BY <1>1, <2>3, <3>1, GotoMoves
    <2>4. ASSUME NEW f \in {"bank", "update"}, Call(a, f, "impl")
          PROVE  Moved(a) /\ pc'[a] # "registered"
      <3>1. f \in Pcs /\ f # "registered" /\ "impl" \in {"impl", "bank"}
        BY DEF Pcs
      <3>. QED
        BY <1>1, <2>4, <3>1, CallMoves
    <2>. QED
      BY <1>3, <2>1, <2>2, <2>3, <2>4
  <1>. QED
    BY <1>2, <1>4, QuietKeeps

-----------------------------------------------------------------------------
(* The steps that write the reserve or reach the bank                      *)

\* The answer of the bank was read before the request; the transaction looks
\* at the status again before it confirms.
LEMMA ReadBankAnswerKeeps ==
  ASSUME BankSide, NEW a \in Actors, ReadBankAnswer(a)
  PROVE  Stays
  <1>1. ControlOK /\ UNCHANGED <<posted, selected, transferred>>
    BY DEF BankSide, ReadBankAnswer, outside
  <1>2. CASE Call(a, "register", "bank") /\ UNCHANGED <<status, confirmed>>
    <2>1. Moved(a) /\ pc'[a] = "register"
      <3>1. "register" \in Pcs /\ "bank" \in {"impl", "bank"}
        BY DEF Pcs
      <3>. QED
        BY <1>1, <1>2, <3>1, CallMoves
    <2>. QED
      BY <1>1, <1>2, <2>1, QuietKeeps
  <1>3. CASE Return(a) /\ UNCHANGED <<status, confirmed>>
    <2>1. Moved(a) /\ pc'[a] # "registered"
      BY <1>1, <1>3, ReturnMoves
    <2>. QED
      BY <1>1, <1>3, <2>1, QuietKeeps
  <1>4. CASE /\ Goto(a, "impl")
             /\ IF status \in BankStatus
                THEN status' = "QUERYING_STATUS" /\ confirmed' = TRUE
                ELSE UNCHANGED <<status, confirmed>>
    <2>1. Moved(a) /\ pc'[a] = "impl"
      <3>1. "impl" \in Pcs
        BY DEF Pcs
      <3>. QED
        BY <1>1, <1>4, <3>1, GotoMoves
    <2>2. Respects(a)
      BY <1>1, <1>4, <2>1 DEF BankSide, ControlOK, ConfirmedIsPastBank, Respects,
         Statuses, QueryStatus
    <2>. QED
      BY <2>1, <2>2, MoveKeeps
  <1>. QED
    BY <1>2, <1>3, <1>4 DEF ReadBankAnswer

\* A registration reaches the bank, with or without its answer.
LEMMA PostingKeeps ==
  ASSUME BankSide, NEW a \in Actors,
         BankSelects(a) \/ AnswerIsLost(a) \/ BankRefuses(a)
  PROVE  Stays
  <1>1. ControlOK /\ UNCHANGED <<status, posted, confirmed, transferred>>
    BY DEF BankSide, BankSelects, AnswerIsLost, BankRefuses, db, outside
  <1>2. /\ selected' \in BOOLEAN /\ (selected => selected')
        /\ selected' \/ (BankRefuses(a) /\ ~selected)
    BY <1>1 DEF BankSelects, AnswerIsLost, BankRefuses, outside, ControlOK
  <1>3. Goto(a, "registered") \/ Throw(a)
    BY DEF BankSelects, AnswerIsLost, BankRefuses
  <1>4. Moved(a)
    <2>1. "registered" \in Pcs
      BY DEF Pcs
    <2>. QED
      BY <1>1, <1>3, <2>1, GotoMoves, ThrowMoves
  <1>5. Respects(a)
    BY <1>1, <1>2 DEF BankSide, ControlOK, ConfirmedIsPastBank, Respects
  <1>. QED
    BY <1>4, <1>5, MoveKeeps

\* The transaction looks at the status again: a registration that comes late
\* does not take a confirmed reserve back to the bank.
LEMMA RecordRegisteredKeeps ==
  ASSUME BankSide, NEW a \in Actors, RecordRegistered(a)
  PROVE  Stays
  <1>1. ControlOK /\ UNCHANGED <<confirmed, selected, transferred>>
    BY DEF BankSide, RecordRegistered, outside
  <1>2. Moved(a) /\ pc'[a] = "bank"
    <2>1. "bank" \in Pcs /\ Goto(a, "bank")
      BY DEF Pcs, RecordRegistered
    <2>. QED
      BY <1>1, <2>1, GotoMoves
  <1>3. pc[a] = "registered"
    BY DEF RecordRegistered
  <1>4. CASE status \in BankStatus
    <2>1. posted' = TRUE /\ status' = "WAIT_CONFIRM_BANK"
      BY <1>4 DEF RecordRegistered
    <2>2. status \notin QueryStatus /\ status' \notin QueryStatus /\ status' \in Statuses
      BY <1>4, <2>1 DEF BankStatus, QueryStatus, Statuses
    <2>3. Respects(a)
      BY <1>1, <1>2, <1>3, <2>1, <2>2 DEF BankSide, ControlOK,
         ConfirmedIsPastBank, Respects
    <2>. QED
      BY <1>2, <2>3, MoveKeeps
  <1>5. CASE status \notin BankStatus
    <2>1. UNCHANGED <<posted, status>>
      BY <1>5 DEF RecordRegistered
    <2>. QED
      BY <1>1, <1>2, <2>1, QuietKeeps
  <1>. QED
    BY <1>4, <1>5

LEMMA UpdateReserveKeeps ==
  ASSUME BankSide, NEW a \in Actors, UpdateReserve(a)
  PROVE  Stays
  <1>1. ControlOK /\ UNCHANGED <<posted, confirmed, selected, transferred>>
    BY DEF BankSide, UpdateReserve, outside
  <1>2. Return(a) \/ Throw(a)
    BY DEF UpdateReserve
  <1>3. Moved(a) /\ pc'[a] # "registered"
    BY <1>1, <1>2, ReturnMoves, ThrowMoves
  <1>4. \/ status' = status
        \/ status = "QUERYING_STATUS" /\ status' \in {"WITHDRAWING", "DORMANT"}
    BY DEF UpdateReserve
  <1>5. Respects(a)
    BY <1>1, <1>3, <1>4 DEF BankSide, ControlOK, ConfirmedIsPastBank, Respects,
       Statuses, BankStatus, QueryStatus
  <1>. QED
    BY <1>3, <1>5, MoveKeeps

LEMMA CreateGroupKeeps ==
  ASSUME BankSide, NEW a \in Actors, CreateGroup(a)
  PROVE  Stays
  <1>1. ControlOK /\ UNCHANGED <<posted, confirmed, selected, transferred>>
    BY DEF BankSide, CreateGroup, outside
  <1>2. Goto(a, "withdraw") \/ Return(a)
    BY DEF CreateGroup
  <1>3. Moved(a) /\ pc'[a] # "registered"
    <2>1. "withdraw" \in Pcs
      BY DEF Pcs
    <2>. QED
      BY <1>1, <1>2, <2>1, GotoMoves, ReturnMoves
  <1>4. status' = status \/ (status = "WITHDRAWING" /\ status' = "DORMANT")
    BY DEF CreateGroup, MayCreateGroup
  <1>5. Respects(a)
    BY <1>1, <1>3, <1>4 DEF BankSide, ControlOK, ConfirmedIsPastBank, Respects,
       Statuses, BankStatus, QueryStatus
  <1>. QED
    BY <1>3, <1>5, MoveKeeps

LEMMA StepKeeps ==
  ASSUME BankSide, NEW a \in Actors, Step(a)
  PROVE  Stays
  BY QuietStepKeeps, ReadBankAnswerKeeps, PostingKeeps, RecordRegisteredKeeps,
     UpdateReserveKeeps, CreateGroupKeeps DEF Step

-----------------------------------------------------------------------------
(* The exchange, the user at the bank, and restarts                        *)

LEMMA EnvironmentKeeps ==
  ASSUME BankSide,
         \/ \E w \in Withdrawers : ProcessPlanchet(w)
         \/ UserConfirmsAtBank \/ TransferArrives
  PROVE  Stays
  <1>1. ControlOK
    BY DEF BankSide
  <1>2. UNCHANGED <<status, posted, confirmed, selected, pc, stack>>
    <2>1. CASE \E w \in Withdrawers : ProcessPlanchet(w)
      BY <2>1 DEF ProcessPlanchet, StartPlanchet, ExchangeSigns, PlanchetFails,
                  RecordCoin, db, outside
    <2>2. CASE UserConfirmsAtBank \/ TransferArrives
      BY <2>2 DEF UserConfirmsAtBank, TransferArrives, db, local
    <2>. QED
      BY <2>1, <2>2
  <1>3. transferred' \in BOOLEAN
    BY <1>1 DEF ProcessPlanchet, StartPlanchet, ExchangeSigns, PlanchetFails,
                RecordCoin, UserConfirmsAtBank, TransferArrives, outside, ControlOK
  <1>. QED
    BY <1>2, <1>3, StillKeeps

LEMMA CrashKeeps ==
  ASSUME BankSide, Crash
  PROVE  Stays
  <1>1. UNCHANGED <<status, posted, confirmed, selected, transferred>>
    BY DEF Crash, db, outside
  <1>2. pc' = [a \in Actors |-> IF pc[a] = "idle" THEN "idle" ELSE End(a)]
    BY DEF Crash
  <1>3. \A a \in Actors : pc'[a] \in {"idle", "done"}
    BY <1>2 DEF End
  <1>4. pc' \in [Actors -> Pcs]
    BY <1>2, <1>3 DEF Pcs, End
  <1>5. stack' \in [Actors -> Seq({"impl", "bank"})]
    BY DEF Crash
  <1>. QED
    BY <1>1, <1>3, <1>4, <1>5 DEF Stays, Registered, BankSide, ControlOK,
       ConfirmedIsPastBank, WaitMeansRegistered, RegisteredIsSelected

-----------------------------------------------------------------------------

LEMMA InitBankSide ==
  ASSUME Init
  PROVE  BankSide /\ Registered
  <1>1. stack \in [Actors -> Seq({"impl", "bank"})]
    BY DEF Init
  <1>2. pc \in [Actors -> Pcs] /\ \A a \in Actors : pc[a] = "idle"
    BY DEF Init, Pcs
  <1>. QED
    BY <1>1, <1>2 DEF Init, BankSide, Registered, ControlOK, ConfirmedIsPastBank,
       WaitMeansRegistered, RegisteredIsSelected, Statuses, BankStatus, QueryStatus

LEMMA NextStays ==
  ASSUME BankSide, [Next]_vars
  PROVE  Stays
  <1>1. CASE UNCHANGED vars
    BY <1>1 DEF vars, Stays, BankSide, Registered, ControlOK, ConfirmedIsPastBank,
       WaitMeansRegistered, RegisteredIsSelected
  <1>2. CASE Next
    BY <1>2, CreateReserveKeeps, ConfirmReserveKeeps, ForceQueryReserveKeeps,
       ProcessReserveKeeps, StepKeeps, EnvironmentKeeps, CrashKeeps DEF Next
  <1>. QED
    BY <1>1, <1>2

LEMMA BankSideInductive ==
  ASSUME BankSide, [Next]_vars
  PROVE  BankSide'
  BY NextStays DEF Stays

\* The invariant that carries both theorems.
THEOREM AlwaysOnItsSide == Spec => []BankSide
  BY InitBankSide, BankSideInductive, PTL DEF Spec

\* For every set of calls, every bank and every order of their steps, failures
\* and restarts: a reserve is confirmed exactly when it is past the bank.
THEOREM ConfirmedStays == Spec => []ConfirmedIsPastBank
  <1>1. BankSide => ConfirmedIsPastBank
    BY DEF BankSide
  <1>. QED
    BY <1>1, AlwaysOnItsSide, PTL

\* A step that breaks what registered reserves have is a refusal.
LEMMA OnlyRefusals ==
  ASSUME BankSide, Registered, [Next]_vars, ~Registered'
  PROVE  <<RegistrationRefused>>_vars
  <1>1. RegistrationRefused
    BY NextStays DEF Stays
  <1>2. vars' # vars
    BY DEF vars, Registered, WaitMeansRegistered, RegisteredIsSelected
  <1>. QED
    BY <1>1, <1>2

\* A reserve that waits for the user's confirmation is one the user can confirm,
\* unless at some time the bank has answered the registration of a reserve it
\* did not know with an error.  No answer that is lost or late, no second
\* registration and no restart makes the wallet wait in vain.
THEOREM RegisteredBeforeWaiting ==
  Spec => []WaitMeansRegistered \/ <><<RegistrationRefused>>_vars
  <1>1. Init => Registered
    BY InitBankSide
  <1>2. BankSide /\ Registered /\ [Next]_vars /\ ~Registered'
        => <<RegistrationRefused>>_vars
    BY OnlyRefusals
  <1>3. Registered => WaitMeansRegistered
    BY DEF Registered
  <1>. QED
    BY <1>1, <1>2, <1>3, AlwaysOnItsSide, PTL DEF Spec

-----------------------------------------------------------------------------
(* Totals of sequences                                                     *)

TotalOf(g, s) ==
  [t \in SUBSET (DOMAIN s) |-> IF t = {} THEN 0 ELSE g[t \ {Max(t)}] + s[Max(t)]]

LEMMA TotalIs ==
  ASSUME NEW s
  PROVE  Total(s) = (CHOOSE g : g = TotalOf(g, s))[DOMAIN s]
  BY DEF Total, FoldLeft, MapThenFoldSet, TotalOf

\* A total is a sum over the indices.
LEMMA TotalIsSum ==
  ASSUME NEW n \in Nat, NEW s, DOMAIN s = 1..n, NaturalOn(s, 1..n)
  PROVE  Total(s) = Sum(s, 1..n) /\ Total(s) \in Nat
  <1>. DEFINE F == [p \in (1..n) \X Nat |-> p[2] + s[p[1]]]
              D == 1..n
              c == Lasts(n)
  <1>1. IsFiniteSet(D) /\ Chooses(c, D)
    BY LastsChosen
  <1>2. \A x \in D, a \in Nat : F[<<x, a>>] = a + s[x] /\ F[<<x, a>>] \in Nat
    BY DEF NaturalOn
  <1>. HIDE DEF F, D, c
  <1>3. PICK g : g = Folded(F, c, 0, g, D) /\ \A t \in SUBSET D : g[t] \in Nat
    <2>1. 0 \in Nat /\ \A x \in D, a \in Nat : F[<<x, a>>] \in Nat
      BY <1>2
    <2>2. \E g : /\ g = Folded(F, c, 0, g, D)
                 /\ \A t \in SUBSET D : g[t] \in Nat
      BY <1>1, <2>1, FoldStaysIn
    <2>. QED
      BY <2>2
  <1>4. g = TotalOf(g, s)
    <2>1. ASSUME NEW t \in SUBSET D
          PROVE  FoldStep(F, c, 0, g, t)
                   = IF t = {} THEN 0 ELSE g[t \ {Max(t)}] + s[Max(t)]
      <3>1. CASE t # {}
        <4>1. c[t] = Max(t) /\ c[t] \in t
          BY <1>1, <2>1, <3>1 DEF Chooses, Lasts, c, D
        <4>2. g[t \ {c[t]}] \in Nat /\ c[t] \in D
          BY <1>3, <2>1, <4>1
        <4>. QED
          BY <1>2, <3>1, <4>1, <4>2 DEF FoldStep
      <3>. QED
        BY <3>1 DEF FoldStep
    <2>2. D = DOMAIN s
      BY DEF D
    <2>. QED
      BY <1>3, <2>1, <2>2 DEF Folded, TotalOf
  <1>. DEFINE h == CHOOSE g1 : g1 = TotalOf(g1, s)
  <1>5. h = TotalOf(h, s)
    BY <1>4
  <1>. HIDE DEF h
  <1>6. \A t \in SUBSET D : h[t] = IF t = {} THEN 0 ELSE h[t \ {Max(t)}] + s[Max(t)]
    <2>1. \A k : k = TotalOf(h, s) => \A t \in SUBSET D :
            k[t] = IF t = {} THEN 0 ELSE h[t \ {Max(t)}] + s[Max(t)]
      BY DEF TotalOf, D
    <2>. QED
      BY <1>5, <2>1
  <1>. DEFINE Good == {k \in 0..n : h[1..k] = Sum(s, 1..k)}
  <1>7. 0 \in Good
    <2>1. 1..0 = {} /\ {} \in SUBSET D
      OBVIOUS
    <2>. QED
      BY <1>6, <2>1, SumOfNone
  <1>8. ASSUME NEW k \in 1..n, k - 1 \in Good
        PROVE  k \in Good
    <2>1. Max(1..k) = k /\ (1..k) \ {k} = 1..(k - 1) /\ 1..k \in SUBSET D /\ 1..k # {}
      BY LastOfFirst DEF D
    <2>2. h[1..k] = h[1..(k - 1)] + s[k]
      BY <1>6, <2>1
    <2>3. h[1..(k - 1)] = Sum(s, 1..(k - 1))
      BY <1>8
    <2>4. NaturalOn(s, 1..k) /\ IsFiniteSet(1..k) /\ k \in 1..k
      BY FS_Interval DEF NaturalOn
    <2>5. Sum(s, 1..k) = s[k] + Sum(s, 1..(k - 1))
      BY <2>1, <2>4, SumWithout
    <2>6. s[k] \in Nat /\ Sum(s, 1..(k - 1)) \in Nat
      <3>1. NaturalOn(s, 1..(k - 1))
        BY <2>4 DEF NaturalOn
      <3>2. IsFiniteSet(1..(k - 1))
        BY FS_Interval
      <3>. QED
        BY <3>1, <3>2, <2>4, SumIsNatural DEF NaturalOn
    <2>. QED
      BY <2>2, <2>3, <2>5, <2>6
  <1>9. n \in Good
    <2>. HIDE DEF Good
    <2>1. \A k \in 0..n : k \in Good
      BY <1>7, <1>8, UpTo
    <2>. QED
      BY <2>1
  <1>10. Total(s) = h[1..n]
    BY TotalIs DEF h
  <1>11. Sum(s, 1..n) \in Nat
    BY LastsChosen, SumIsNatural
  <1>. QED
    BY <1>9, <1>10, <1>11

\* A sequence is taken apart where two were put together.
LEMMA TotalOfBoth ==
  ASSUME NEW s \in Seq(Nat), NEW t \in Seq(Nat)
  PROVE  Total(s \o t) = Total(s) + Total(t) /\ Total(s) \in Nat /\ Total(t) \in Nat
  <1>. DEFINE m == Len(s)
              n == Len(t)
              u == s \o t
  <1>1. m \in Nat /\ n \in Nat /\ DOMAIN s = 1..m /\ DOMAIN t = 1..n /\ DOMAIN u = 1..(m + n)
    OBVIOUS
  <1>2. /\ \A k \in 1..m : u[k] = s[k] /\ s[k] \in Nat
        /\ \A k \in 1..n : u[m + k] = t[k] /\ t[k] \in Nat
    OBVIOUS
  <1>3. NaturalOn(s, 1..m) /\ NaturalOn(t, 1..n) /\ NaturalOn(u, 1..(m + n))
    <2>1. \A k \in 1..(m + n) : u[k] \in Nat
      OBVIOUS
    <2>. QED
      BY <1>2, <2>1 DEF NaturalOn
  <1>. HIDE DEF m, n, u
  <1>4. /\ Total(s) = Sum(s, 1..m) /\ Total(s) \in Nat
        /\ Total(t) = Sum(t, 1..n) /\ Total(t) \in Nat
        /\ Total(u) = Sum(u, 1..(m + n))
    BY <1>1, <1>3, TotalIsSum
  <1>. DEFINE Good == {k \in 0..n : Sum(u, 1..(m + k)) = Sum(s, 1..m) + Sum(t, 1..k)}
  <1>5. 0 \in Good
    <2>1. 1..0 = {} /\ m + 0 = m /\ IsFiniteSet(1..m)
      BY <1>1, FS_Interval
    <2>2. Sum(u, 1..m) = Sum(s, 1..m)
      BY <1>2, <1>3, <2>1, SumsAgree
    <2>. QED
      BY <1>1, <1>4, <2>1, <2>2, SumOfNone
  <1>6. ASSUME NEW k \in 1..n, k - 1 \in Good
        PROVE  k \in Good
    <2>0. k \in Nat /\ k - 1 \in Nat /\ m + k \in Nat /\ m + (k - 1) = m + k - 1
      BY <1>1
    <2>1. /\ IsFiniteSet(1..k) /\ IsFiniteSet(1..(m + k)) /\ IsFiniteSet(1..(k - 1))
          /\ k \in 1..k /\ (1..k) \ {k} = 1..(k - 1)
          /\ m + k \in 1..(m + k) /\ (1..(m + k)) \ {m + k} = 1..(m + (k - 1))
      <3>1. IsFiniteSet(1..k)
        BY FS_Interval
      <3>2. IsFiniteSet(1..(m + k))
        BY <1>1, FS_Interval
      <3>3. IsFiniteSet(1..(k - 1))
        BY FS_Interval
      <3>4. k \in 1..k /\ (1..k) \ {k} = 1..(k - 1)
        BY <2>0
      <3>5. m + k \in 1..(m + k) /\ (1..(m + k)) \ {m + k} = 1..(m + (k - 1))
        <4>1. \A x \in Nat \ {0} : x \in 1..x /\ (1..x) \ {x} = 1..(x - 1)
          OBVIOUS
        <4>2. m + k \in Nat \ {0} /\ m + (k - 1) = (m + k) - 1
          BY <1>1, <2>0
        <4>. QED
          BY <4>1, <4>2
      <3>. QED
        BY <3>1, <3>2, <3>3, <3>4, <3>5
    <2>2. NaturalOn(t, 1..k) /\ NaturalOn(t, 1..(k - 1)) /\ NaturalOn(u, 1..(m + k))
      BY <1>1, <1>3, <2>0 DEF NaturalOn
    <2>3. /\ Sum(t, 1..k) = t[k] + Sum(t, 1..(k - 1)) /\ Sum(t, 1..(k - 1)) \in Nat
          /\ Sum(u, 1..(m + k)) = u[m + k] + Sum(u, 1..(m + (k - 1)))
      <3>1. Sum(t, 1..k) = t[k] + Sum(t, (1..k) \ {k})
        BY <2>1, <2>2, SumWithout
      <3>2. Sum(u, 1..(m + k)) = u[m + k] + Sum(u, (1..(m + k)) \ {m + k})
        BY <2>1, <2>2, SumWithout
      <3>3. Sum(t, 1..(k - 1)) \in Nat
        BY <2>1, <2>2, SumIsNatural
      <3>. QED
        BY <2>1, <3>1, <3>2, <3>3
    <2>4. u[m + k] = t[k] /\ t[k] \in Nat
      BY <1>2
    <2>5. Sum(u, 1..(m + (k - 1))) = Sum(s, 1..m) + Sum(t, 1..(k - 1))
      BY <1>6
    <2>. QED
      BY <1>4, <2>3, <2>4, <2>5
  <1>7. n \in Good
    <2>. HIDE DEF Good
    <2>1. \A k \in 0..n : k \in Good
      BY <1>1, <1>5, <1>6, UpTo
    <2>. QED
      BY <1>1, <2>1
  <1>. QED
    BY <1>4, <1>7 DEF u

-----------------------------------------------------------------------------
(* getWithdrawDenomList                                                    *)

LEMMA Division ==
  ASSUME NEW x \in Nat, NEW c \in Nat \ {0}
  PROVE  x \div c \in Nat /\ (x \div c) * c <= x /\ x < (x \div c) * c + c
  <1>1. x = c * (x \div c) + (x % c) /\ x % c \in 0..(c - 1) /\ x \div c \in Int
    OBVIOUS
  <1>2. x \div c >= 0
    BY <1>1
  <1>3. c * (x \div c) = (x \div c) * c /\ (x \div c) * c \in Int
    BY <1>1
  <1>. QED
    BY <1>1, <1>2, <1>3

Repeated(q, c) == [i \in 1..q |-> c]

LEMMA TotalOfRepeated ==
  ASSUME NEW q \in Nat, NEW c \in Nat
  PROVE  Repeated(q, c) \in Seq({c}) /\ Total(Repeated(q, c)) = q * c
  <1>. DEFINE s == Repeated(q, c)
              Good == {k \in 0..q : Sum(s, 1..k) = k * c}
  <1>1. DOMAIN s = 1..q /\ \A i \in 1..q : s[i] = c
    BY DEF Repeated
  <1>2. s \in Seq({c})
    BY DEF Repeated
  <1>. HIDE DEF s
  <1>3. NaturalOn(s, 1..q)
    BY <1>1 DEF NaturalOn
  <1>4. Total(s) = Sum(s, 1..q)
    BY <1>1, <1>3, TotalIsSum
  <1>5. 0 \in Good
    <2>1. 1..0 = {} /\ 0 * c = 0
      OBVIOUS
    <2>. QED
      BY <2>1, SumOfNone
  <1>6. ASSUME NEW k \in 1..q, k - 1 \in Good
        PROVE  k \in Good
    <2>1. Max(1..k) = k /\ (1..k) \ {k} = 1..(k - 1) /\ k \in 1..k
      BY LastOfFirst
    <2>2. IsFiniteSet(1..k) /\ NaturalOn(s, 1..k)
      <3>1. NaturalOn(s, 1..k)
        BY <1>3 DEF NaturalOn
      <3>. QED
        BY <3>1, FS_Interval
    <2>3. Sum(s, 1..k) = s[k] + Sum(s, 1..(k - 1))
      BY <2>1, <2>2, SumWithout
    <2>4. s[k] = c /\ Sum(s, 1..(k - 1)) = (k - 1) * c
      BY <1>1, <1>6
    <2>5. c + (k - 1) * c = k * c
      OBVIOUS
    <2>. QED
      BY <2>3, <2>4, <2>5
  <1>7. q \in Good
    <2>. HIDE DEF Good
    <2>1. \A k \in 0..q : k \in Good
      BY <1>5, <1>6, UpTo
    <2>. QED
      BY <2>1
  <1>. QED
    BY <1>2, <1>4, <1>7 DEF s

Smallest == [t \in SUBSET Costs |-> Min(t)]
More(amount, cost, list) == list \o Repeated((amount - Total(list)) \div cost, cost)
DenomListOf(g, amount) ==
  [t \in SUBSET Costs |-> IF t = {} THEN <<>>
                          ELSE More(amount, Min(t), g[t \ {Min(t)}])]

LEMMA DenomListIs ==
  ASSUME NEW amount
  PROVE  DenomList(amount)
           = (CHOOSE g : g = DenomListOf(g, amount))[Costs]
  BY DEF DenomList, MapThenFoldSet, DenomListOf, More, Repeated

LEMMA SmallestChosen == Chooses(Smallest, Costs)
  <1>1. SUFFICES ASSUME NEW t \in SUBSET Costs, t # {}
                 PROVE  Min(t) \in t
    BY DEF Chooses, Smallest
  <1>2. PICK n \in t : TRUE
    BY <1>1
  <1>3. n \in Nat /\ t \subseteq Nat
    BY <1>2, AmountsAssumption
  <1>. DEFINE T == {x \in t : x <= n}
  <1>4. T \subseteq 0..n /\ T # {}
    <2>1. \A x \in t : x \in Nat
      BY <1>3
    <2>2. \A x \in T : x \in 0..n
      BY <1>3, <2>1
    <2>3. n \in T
      BY <1>2, <1>3
    <2>. QED
      BY <2>2, <2>3
  <1>. HIDE DEF T
  <1>5. PICK x \in T : \A y \in T : x <= y
    BY <1>3, <1>4, LeastNumber
  <1>6. x \in t /\ \A y \in t : x =< y
    BY <1>3, <1>5 DEF T
  <1>. QED
    BY <1>6 DEF Min

\* Another denomination is added as long as it fits.
LEMMA MoreFits ==
  ASSUME NEW amount \in Nat, NEW list \in Seq(Costs), Total(list) <= amount,
         NEW cost \in Costs
  PROVE  /\ More(amount, cost, list) \in Seq(Costs)
         /\ Total(list) <= Total(More(amount, cost, list))
         /\ Total(More(amount, cost, list)) <= amount
         /\ amount - Total(More(amount, cost, list)) < cost
         /\ Total(More(amount, cost, list)) \in Nat
         /\ amount - Total(list) < cost => More(amount, cost, list) = list
  <1>. DEFINE rest == amount - Total(list)
              q == rest \div cost
  <1>1. cost \in Nat \ {0} /\ Costs \subseteq Nat
    BY AmountsAssumption
  <1>2. list \in Seq(Nat)
    BY <1>1, SeqMonotonic
  <1>3. Total(list) \in Nat /\ rest \in Nat
    <2>1. <<>> \in Seq(Nat)
      OBVIOUS
    <2>2. Total(list) \in Nat
      BY <1>2, <2>1, TotalOfBoth
    <2>. QED
      BY <2>2
  <1>4. q \in Nat /\ q * cost <= rest /\ rest < q * cost + cost /\ q * cost \in Int
    <2>1. q \in Nat /\ q * cost <= rest /\ rest < q * cost + cost
      BY <1>1, <1>3, Division
    <2>. QED
      BY <1>1, <2>1
  <1>5. rest < cost => q = 0
    BY <1>1, <1>3
  <1>6. More(amount, cost, list) = list \o Repeated(q, cost)
    BY DEF More
  <1>. HIDE DEF q
  <1>7. Repeated(q, cost) \in Seq({cost}) /\ Total(Repeated(q, cost)) = q * cost
    BY <1>1, <1>4, TotalOfRepeated
  <1>8. Repeated(q, cost) \in Seq(Costs) /\ Repeated(q, cost) \in Seq(Nat)
    <2>1. \A s \in Seq({cost}) : s \in Seq(Costs) /\ s \in Seq(Nat)
      BY <1>1
    <2>. QED
      BY <1>7, <2>1
  <1>9. list \o Repeated(q, cost) \in Seq(Costs)
    BY <1>8
  <1>10. Total(list \o Repeated(q, cost)) = Total(list) + q * cost
    BY <1>2, <1>7, <1>8, TotalOfBoth
  <1>11. 0 * cost = 0 /\ q * cost >= 0
    BY <1>1, <1>4
  <1>12. rest < cost => list \o Repeated(q, cost) = list
    <2>1. Repeated(0, cost) = <<>>
      BY DEF Repeated
    <2>. QED
      BY <1>5, <2>1
  <1>13. Total(More(amount, cost, list)) = Total(list) + q * cost
    BY <1>6, <1>10
  <1>14. amount - Total(list) < cost => More(amount, cost, list) = list
    BY <1>6, <1>12
  <1>. HIDE DEF rest
  <1>15. rest = amount - Total(list)
    BY DEF rest
  <1>. DEFINE m == q * cost
  <1>16. m \in Nat /\ m <= rest /\ rest < m + cost
    BY <1>4, <1>11
  <1>17. Total(More(amount, cost, list)) = Total(list) + m
    BY <1>13
  <1>. HIDE DEF m
  <1>. QED
    BY <1>1, <1>3, <1>6, <1>9, <1>14, <1>15, <1>16, <1>17

LEMMA CostsFold ==
  ASSUME NEW A, NEW F, NEW c, Chooses(c, Costs), NEW none \in A,
         \A x \in Costs, l \in A : F[<<x, l>>] \in A
  PROVE  \E g : /\ g = Folded(F, c, none, g, Costs)
                /\ \A t \in SUBSET Costs : g[t] \in A
  <1>1. IsFiniteSet(Costs)
    BY AmountsAssumption
  <1>. QED
    BY <1>1, FoldStaysIn

LEMMA NothingTotal == Total(<<>>) = 0
  <1>1. DOMAIN <<>> = 1..0 /\ NaturalOn(<<>>, 1..0) /\ 1..0 = {}
    BY DEF NaturalOn
  <1>. QED
    BY <1>1, TotalIsSum, SumOfNone

LEMMA DenomListExists ==
  ASSUME NEW amount \in Nat
  PROVE  \E g : g = DenomListOf(g, amount)
  <1>. DEFINE A == {l \in Seq(Costs) : Total(l) <= amount}
              F == [p \in Costs \X A |-> More(amount, p[1], p[2])]
              c == Smallest
  <1>1. IsFiniteSet(Costs) /\ Chooses(c, Costs)
    BY SmallestChosen, AmountsAssumption
  <1>3. <<>> \in A
    BY NothingTotal
  <1>4. \A x \in Costs, l \in A : F[<<x, l>>] = More(amount, x, l) /\ F[<<x, l>>] \in A
    <2>1. \A x \in Costs, l \in A : F[<<x, l>>] = More(amount, x, l)
      OBVIOUS
    <2>2. ASSUME NEW x \in Costs, NEW l \in A
          PROVE  More(amount, x, l) \in A
      BY MoreFits
    <2>. HIDE DEF F, A
    <2>. QED
      BY <2>1, <2>2
  <1>. HIDE DEF F, A, c
  <1>5. PICK g : g = Folded(F, c, <<>>, g, Costs) /\ \A t \in SUBSET Costs : g[t] \in A
    <2>1. \A x \in Costs, l \in A : F[<<x, l>>] \in A
      BY <1>4
    <2>. DEFINE none == <<>>
    <2>2. none \in A
      BY <1>3
    <2>. HIDE DEF none
    <2>3. \E g : /\ g = Folded(F, c, none, g, Costs)
                 /\ \A t \in SUBSET Costs : g[t] \in A
      BY <1>1, <2>1, <2>2, CostsFold
    <2>. QED
      BY <2>3 DEF none
  <1>6. g = DenomListOf(g, amount)
    <2>1. ASSUME NEW t \in SUBSET Costs
          PROVE  FoldStep(F, c, <<>>, g, t)
                   = IF t = {} THEN <<>> ELSE More(amount, Min(t), g[t \ {Min(t)}])
      <3>1. CASE t # {}
        <4>1. c[t] = Min(t) /\ c[t] \in t
          BY <1>1, <2>1, <3>1 DEF Chooses, Smallest, c
        <4>2. g[t \ {c[t]}] \in A /\ c[t] \in Costs
          BY <1>5, <2>1, <4>1
        <4>. QED
          BY <1>4, <3>1, <4>1, <4>2 DEF FoldStep
      <3>. QED
        BY <3>1 DEF FoldStep
    <2>. QED
      BY <1>5, <2>1 DEF Folded, DenomListOf
  <1>. QED
    BY <1>6

\* What the list does not use is less than any denomination costs.
Fills(amount, list, t) ==
  /\ list \in Seq(Costs) /\ Total(list) \in Nat /\ Total(list) <= amount
  /\ \A cost \in t : amount - Total(list) < cost

LEMMA DenomListFills ==
  ASSUME NEW amount \in Nat
  PROVE  /\ Fills(amount, DenomList(amount), Costs)
         /\ (\A cost \in Costs : amount < cost) => DenomList(amount) = <<>>
  <1>. DEFINE h == CHOOSE g1 : g1 = DenomListOf(g1, amount)
  <1>7. h = DenomListOf(h, amount)
    BY DenomListExists
  <1>. HIDE DEF h
  <1>8. \A t \in SUBSET Costs :
          h[t] = IF t = {} THEN <<>> ELSE More(amount, Min(t), h[t \ {Min(t)}])
    <2>1. \A k : k = DenomListOf(h, amount) => \A t \in SUBSET Costs :
            k[t] = IF t = {} THEN <<>> ELSE More(amount, Min(t), h[t \ {Min(t)}])
      BY DEF DenomListOf
    <2>. QED
      BY <1>7, <2>1
  <1>. DEFINE Small == \A cost \in Costs : amount < cost
              Right(t) == Fills(amount, h[t], t) /\ (Small => h[t] = <<>>)
              Wrong == {t \in SUBSET Costs : ~Right(t)}
  <1>9. Wrong = {}
    <2>1. SUFFICES ASSUME Wrong # {}
                   PROVE  FALSE
      OBVIOUS
    <2>2. PICK t \in Wrong : \A u \in Wrong : u \subseteq t => u = t
      <3>1. Wrong \subseteq SUBSET Costs
        OBVIOUS
      <3>2. IsFiniteSet(Costs)
        BY AmountsAssumption
      <3>. HIDE DEF Wrong
      <3>. QED
        BY <2>1, <3>1, <3>2, MinimalSubset
    <2>. HIDE DEF Right, Small
    <2>3. t \in SUBSET Costs /\ ~Right(t)
      BY <2>2
    <2>4. t # {}
      <3>1. Right({})
        <4>1. h[{}] = <<>>
          <5>1. {} \in SUBSET Costs
            OBVIOUS
          <5>. QED
            BY <1>8, <5>1
        <4>2. <<>> \in Seq(Costs)
          OBVIOUS
        <4>. QED
          BY NothingTotal, <4>1, <4>2 DEF Right, Fills
      <3>. QED
        BY <2>3, <3>1
    <2>. DEFINE cost == Min(t)
                u == t \ {cost}
    <2>5. cost \in t /\ cost \in Costs
      BY <2>3, <2>4, SmallestChosen DEF Chooses, Smallest
    <2>6. Right(u)
      <3>1. u \in SUBSET Costs /\ u # t
        BY <2>3, <2>5
      <3>2. u \notin Wrong
        BY <2>2, <3>1
      <3>. QED
        BY <3>1, <3>2
    <2>7. h[t] = More(amount, cost, h[u])
      BY <1>8, <2>3, <2>4
    <2>. HIDE DEF cost, u
    <2>8. /\ h[u] \in Seq(Costs) /\ Total(h[u]) \in Nat /\ Total(h[u]) <= amount
          /\ \A x \in u : amount - Total(h[u]) < x
          /\ Small => h[u] = <<>>
      BY <2>6 DEF Right, Fills
    <2>9. /\ h[t] \in Seq(Costs) /\ Total(h[u]) <= Total(h[t]) /\ Total(h[t]) <= amount
          /\ amount - Total(h[t]) < cost /\ Total(h[t]) \in Nat
          /\ amount - Total(h[u]) < cost => h[t] = h[u]
      BY <2>5, <2>7, <2>8, MoreFits
    <2>10. \A x \in t : amount - Total(h[t]) < x
      <3>1. \A x \in u : x \in Nat
        BY <2>3, AmountsAssumption DEF u
      <3>2. \A x \in u : amount - Total(h[t]) < x
        BY <2>8, <2>9, <3>1
      <3>3. \A x \in t : x \in u \/ x = cost
        BY DEF u
      <3>. QED
        BY <2>9, <3>2, <3>3
    <2>11. Small => h[t] = <<>>
      <3>1. SUFFICES ASSUME Small
                     PROVE  h[t] = <<>>
        OBVIOUS
      <3>2. h[u] = <<>> /\ amount < cost
        BY <2>5, <2>8, <3>1 DEF Small
      <3>3. amount - Total(h[u]) = amount
        BY NothingTotal, <3>2
      <3>. QED
        BY <2>9, <3>2, <3>3
    <2>. QED
      BY <2>3, <2>9, <2>10, <2>11 DEF Right, Fills
  <1>10. Right(Costs)
    BY <1>9
  <1>11. DenomList(amount) = h[Costs]
    BY DenomListIs DEF h
  <1>. QED
    BY <1>10, <1>11

\* What is left pays for no coin any more.
LEMMA NothingMore ==
  ASSUME NEW amount \in Nat
  PROVE  /\ DenomList(amount) \in Seq(Costs)
         /\ Total(DenomList(amount)) \in 0..amount
         /\ DenomList(amount - Total(DenomList(amount))) = <<>>
         /\ DenomList(0) = <<>>
  <1>1. Fills(amount, DenomList(amount), Costs)
    BY DenomListFills
  <1>. DEFINE rest == amount - Total(DenomList(amount))
  <1>2. rest \in Nat /\ \A cost \in Costs : rest < cost
    BY <1>1 DEF Fills
  <1>3. DenomList(rest) = <<>>
    <2>. HIDE DEF rest
    <2>. QED
      BY <1>2, DenomListFills
  <1>4. DenomList(0) = <<>>
    BY DenomListFills, AmountsAssumption
  <1>. QED
    BY <1>1, <1>3, <1>4 DEF Fills

-----------------------------------------------------------------------------
(* Histories and what the exchange has reported                            *)

Claims(s) == [i \in DOMAIN s |-> Claim(s[i])]

LEMMA ItemTyped ==
  ASSUME NEW item \in Items
  PROVE  /\ Claim(item) \in Nat
         /\ item.matched # Unmatched => item.matched \in Transactions
         /\ item.matched.amount \in Nat /\ item.matched.id \in Nat
         /\ item.type \in Types /\ item.expected \in Nat
  BY DEF Items, Transactions, Unmatched, Claim

LEMMA HistoryTyped ==
  ASSUME NEW s, HistoryOK(s)
  PROVE  /\ s \in Seq(Items) /\ Len(s) \in Nat /\ DOMAIN s = 1..Len(s)
         /\ \A i \in 1..Len(s) : s[i] \in Items
         /\ Claims(s) \in Seq(Nat) /\ DOMAIN Claims(s) = 1..Len(s)
         /\ NaturalOn(Claims(s), 1..Len(s))
         /\ Taken(s) = Total(Claims(s)) /\ Taken(s) = Sum(Claims(s), 1..Len(s))
         /\ Taken(s) \in Nat
  <1>1. s \in Seq(Items) /\ Len(s) \in Nat /\ DOMAIN s = 1..Len(s)
        /\ \A i \in 1..Len(s) : s[i] \in Items
    BY DEF HistoryOK
  <1>2. DOMAIN Claims(s) = 1..Len(s) /\ \A i \in 1..Len(s) : Claims(s)[i] \in Nat
    BY <1>1, ItemTyped DEF Claims
  <1>3. Claims(s) \in Seq(Nat)
    BY <1>1, <1>2 DEF Claims
  <1>4. NaturalOn(Claims(s), 1..Len(s))
    BY <1>2 DEF NaturalOn
  <1>5. Taken(s) = Total(Claims(s))
    BY DEF Taken, Claims
  <1>6. Total(Claims(s)) = Sum(Claims(s), 1..Len(s)) /\ Total(Claims(s)) \in Nat
    BY <1>1, <1>2, <1>4, TotalIsSum
  <1>. QED
    BY <1>1, <1>2, <1>3, <1>4, <1>5, <1>6

LEMMA ReportedIs ==
  ASSUME LedgerOK, NEW n \in Nat, n <= Len(ledger)
  PROVE  /\ DOMAIN Reported(n) = 1..n
         /\ \A j \in 1..n : /\ j \in DOMAIN ledger
                            /\ Reported(n)[j] = Reported(Len(ledger))[j]
                            /\ Reported(n)[j] \in Transactions
                            /\ Reported(n)[j].id = j
                            /\ Reported(n)[j].type = ledger[j].type
                            /\ Reported(n)[j].type \in {"credit", "withdraw"}
                            /\ Reported(n)[j].amount = ledger[j].amount
                            /\ Reported(n)[j] # Unmatched
  <1>1. DOMAIN Reported(n) = 1..n
    BY DEF Reported
  <1>2. ASSUME NEW j \in 1..n
        PROVE  /\ j \in 1..Len(ledger) /\ j \in Nat \ {0}
               /\ Reported(n)[j] = [id |-> j, type |-> ledger[j].type,
                                    amount |-> ledger[j].amount]
               /\ Reported(Len(ledger))[j] = Reported(n)[j]
               /\ ledger[j].type \in {"credit", "withdraw"} /\ ledger[j].amount \in Nat
    <2>1. j \in 1..Len(ledger) /\ j \in DOMAIN ledger /\ ledger[j] \in Entries
      BY DEF LedgerOK
    <2>2. ledger[j].type \in {"credit", "withdraw"} /\ ledger[j].amount \in Nat
      BY <2>1 DEF Entries
    <2>3. ledger[j].id = j
      BY <2>1 DEF LedgerOK
    <2>. QED
      BY <2>1, <2>2, <2>3 DEF Reported
  <1>3. ASSUME NEW j \in 1..n
        PROVE  Reported(n)[j] \in Transactions /\ Reported(n)[j] # Unmatched
    <2>3. ledger[j].type \in Types /\ ledger[j].amount \in Nat /\ j \in Nat \ {0}
      BY <1>2 DEF Types
    <2>. DEFINE ty == ledger[j].type
                am == ledger[j].amount
    <2>4. Reported(n)[j] = [id |-> j, type |-> ty, amount |-> am]
      BY <1>2
    <2>5. ty \in Types /\ am \in Nat /\ j \in Nat \ {0}
      BY <2>3
    <2>. HIDE DEF ty, am
    <2>2. Reported(n)[j] # Unmatched
      BY <2>4, <2>5 DEF Unmatched
    <2>6. [id |-> j, type |-> ty, amount |-> am] \in Transactions
      BY <2>5 DEF Transactions
    <2>. QED
      BY <2>2, <2>4, <2>6
  <1>4. DOMAIN ledger = 1..Len(ledger)
    BY DEF LedgerOK
  <1>. QED
    BY <1>1, <1>2, <1>3, <1>4

LEMMA SmallestOf ==
  ASSUME NEW k \in Nat, NEW s, s \subseteq 1..k, s # {}
  PROVE  Min(s) \in s
  <1>1. s \subseteq 0..k
    OBVIOUS
  <1>2. PICK x \in s : \A y \in s : x <= y
    BY <1>1, LeastNumber
  <1>3. \E x1 \in s : \A y \in s : x1 =< y
    BY <1>2
  <1>. QED
    BY <1>3 DEF Min

\* A match changes one item, to one that asks for as much.
\* A history of the same items, in which what was matched still is.
Continues(x, s) == \A i \in DOMAIN s :
                     /\ x[i].type = s[i].type
                     /\ s[i].matched # Unmatched => x[i].matched = s[i].matched

LEMMA MatchItemKeeps ==
  ASSUME LedgerOK, NEW n \in Nat, n <= Len(ledger), NEW s, HistoryOK(s), NEW i \in DOMAIN s
  PROVE  /\ HistoryOK(MatchItem(s, Reported(n), i))
         /\ DOMAIN MatchItem(s, Reported(n), i) = DOMAIN s
         /\ Claims(MatchItem(s, Reported(n), i)) = Claims(s)
         /\ Continues(MatchItem(s, Reported(n), i), s)
  <1>. DEFINE r == Reported(n)
              C == Candidates(s, r, i)
              j == Min(C)
              t == [s EXCEPT ![i].matched = r[j]]
  <1>1. CASE s[i].matched # Unmatched \/ C = {}
    BY <1>1 DEF MatchItem, Continues
  <1>2. CASE s[i].matched = Unmatched /\ C # {}
    <2>1. MatchItem(s, r, i) = t
      BY <1>2 DEF MatchItem
    <2>2. C \subseteq 1..n
      BY ReportedIs DEF Candidates
    <2>. HIDE DEF r
    <2>3. j \in C /\ j \in 1..n
      <3>. HIDE DEF C
      <3>1. Min(C) \in C
        BY <1>2, <2>2, SmallestOf
      <3>. QED
        BY <2>2, <3>1
    <2>4. /\ r[j].id \notin MatchedIds(s) /\ IsLocalRemoteMatch(s[i], r[j])
      BY <2>3 DEF Candidates
    <2>. HIDE DEF C, j
    <2>5. /\ r[j] \in Transactions /\ r[j].id = j /\ r[j] # Unmatched
          /\ j \in DOMAIN ledger /\ r[j] = Reported(Len(ledger))[j]
          /\ r[j].type = ledger[j].type
      BY <2>3, ReportedIs DEF r
    <2>6. s[i].type = r[j].type /\ s[i].expected = r[j].amount
      BY <2>4 DEF IsLocalRemoteMatch
    <2>7. s \in Seq(Items) /\ DOMAIN s = 1..Len(s) /\ s[i] \in Items
      BY HistoryTyped
    <2>8. [s[i] EXCEPT !.matched = r[j]] \in Items
      BY <2>5, <2>7 DEF Items
    <2>9. /\ t \in Seq(Items) /\ DOMAIN t = DOMAIN s
          /\ t[i] = [s[i] EXCEPT !.matched = r[j]]
          /\ \A k \in DOMAIN s \ {i} : t[k] = s[k]
      BY <2>7, <2>8
    <2>10. t[i].matched = r[j] /\ t[i].type = s[i].type /\ t[i].expected = s[i].expected
      BY <2>7, <2>9 DEF Items
    <2>11. \A k \in DOMAIN s : Claim(t[k]) = Claim(s[k])
      <3>1. Claim(t[i]) = Claim(s[i])
        BY <1>2, <2>5, <2>6, <2>10 DEF Claim
      <3>. QED
        BY <2>9, <3>1
    <2>12. \A k \in DOMAIN t : /\ t[k].type \in {"credit", "withdraw"}
                               /\ t[k].matched = Unmatched \/ Told(t[k])
      <3>1. Told(t[i])
        BY <2>5, <2>6, <2>10 DEF Told
      <3>. QED
        BY <2>9, <2>10, <3>1 DEF HistoryOK
    <2>13. ASSUME NEW k \in DOMAIN t, NEW l \in DOMAIN t,
                  t[k].matched.id = t[l].matched.id, t[k].matched # Unmatched
           PROVE  k = l
      <3>1. \A m \in DOMAIN s \ {i} : s[m].matched.id # j
        <4>1. ASSUME NEW m \in DOMAIN s, s[m].matched.id = j
              PROVE  FALSE
          <5>1. s[m].matched.id \in MatchedIds(s)
            BY <2>3, <4>1 DEF MatchedIds
          <5>. QED
            BY <2>4, <2>5, <4>1, <5>1
        <4>. QED
          BY <4>1
      <3>2. CASE k = i /\ l # i
        BY <2>5, <2>9, <2>10, <2>13, <3>1, <3>2
      <3>3. CASE k # i /\ l = i
        BY <2>5, <2>9, <2>10, <2>13, <3>1, <3>3
      <3>4. CASE k # i /\ l # i
        BY <2>9, <2>13, <3>4 DEF HistoryOK
      <3>. QED
        BY <3>2, <3>3, <3>4
    <2>14. HistoryOK(t)
      BY <2>9, <2>12, <2>13 DEF HistoryOK
    <2>15. Claims(t) = Claims(s)
      BY <2>9, <2>11 DEF Claims
    <2>16. Continues(t, s)
      BY <1>2, <2>9, <2>10 DEF Continues
    <2>. QED
      BY <2>1, <2>9, <2>14, <2>15, <2>16 DEF r
  <1>. QED
    BY <1>1, <1>2

\* The recursive function of the fold in MatchItems.
MatchOf(g, items, remote) ==
  LET is == [i \in DOMAIN items |-> i] IN
  [t \in SUBSET DOMAIN is |->
     IF t = {} THEN items ELSE MatchItem(g[t \ {Max(t)}], remote, is[Max(t)])]

LEMMA MatchItemsIs ==
  ASSUME NEW items, NEW remote
  PROVE  MatchItems(items, remote)
           = (CHOOSE g : g = MatchOf(g, items, remote))[DOMAIN [i \in DOMAIN items |-> i]]
  BY DEF MatchItems, FoldLeft, MapThenFoldSet, MatchOf

LEMMA MatchItemsKeeps ==
  ASSUME LedgerOK, NEW n \in Nat, n <= Len(ledger), NEW s, HistoryOK(s)
  PROVE  /\ HistoryOK(MatchItems(s, Reported(n)))
         /\ Claims(MatchItems(s, Reported(n))) = Claims(s)
         /\ DOMAIN MatchItems(s, Reported(n)) = DOMAIN s
         /\ Continues(MatchItems(s, Reported(n)), s)
  <1>. DEFINE r == Reported(n)
              m == Len(s)
              D == 1..m
              Good(x) == /\ HistoryOK(x) /\ DOMAIN x = D /\ Claims(x) = Claims(s)
                         /\ Continues(x, s)
              A == {x \in Seq(Items) : Good(x)}
              F == [p \in D \X A |-> MatchItem(p[2], r, p[1])]
              c == Lasts(m)
  <1>1. DOMAIN s = D /\ m \in Nat /\ s \in A
    BY HistoryTyped DEF Continues
  <1>2. IsFiniteSet(D) /\ Chooses(c, D)
    BY <1>1, LastsChosen
  <1>3. ASSUME NEW x \in A, NEW i \in D
        PROVE  MatchItem(x, r, i) \in A
    <2>1. /\ HistoryOK(x) /\ DOMAIN x = D /\ Claims(x) = Claims(s) /\ i \in DOMAIN x
          /\ Continues(x, s)
      BY <1>3
    <2>. DEFINE y == MatchItem(x, Reported(n), i)
    <2>2. /\ HistoryOK(y) /\ DOMAIN y = DOMAIN x /\ Claims(y) = Claims(x)
          /\ Continues(y, x)
      BY <2>1, MatchItemKeeps
    <2>. HIDE DEF y
    <2>3. y \in Seq(Items)
      BY <2>2, HistoryTyped
    <2>4. Continues(y, s)
      BY <1>1, <2>1, <2>2 DEF Continues
    <2>5. y \in A
      BY <2>1, <2>2, <2>3, <2>4
    <2>. QED
      BY <2>5 DEF y
  <1>4. \A i \in D, x \in A : F[<<i, x>>] = MatchItem(x, r, i)
    OBVIOUS
  <1>. HIDE DEF F, A, c, D, r, m
  <1>5. PICK g : g = Folded(F, c, s, g, D) /\ \A t \in SUBSET D : g[t] \in A
    <2>1. \A i \in D, x \in A : F[<<i, x>>] \in A
      BY <1>3, <1>4
    <2>2. s \in A
      BY <1>1
    <2>3. \E g : /\ g = Folded(F, Lasts(m), s, g, 1..m)
                 /\ \A t \in SUBSET (1..m) : g[t] \in A
      BY <1>1, <2>1, <2>2, SequenceFold DEF D
    <2>. QED
      BY <2>3 DEF D, c
  <1>6. DOMAIN [i \in DOMAIN s |-> i] = D /\ \A i \in D : [k \in DOMAIN s |-> k][i] = i
    BY <1>1
  <1>7. \A t \in SUBSET D : t # {} => c[t] = Max(t) /\ c[t] \in t
    BY <1>2 DEF Chooses, Lasts, c, D
  <1>8. g = MatchOf(g, s, r)
    <2>1. ASSUME NEW t \in SUBSET D
          PROVE  FoldStep(F, c, s, g, t)
                   = IF t = {} THEN s
                     ELSE MatchItem(g[t \ {Max(t)}], r, [k \in DOMAIN s |-> k][Max(t)])
      <3>1. CASE t # {}
        <4>1. c[t] = Max(t) /\ c[t] \in D /\ g[t \ {c[t]}] \in A
          BY <1>5, <1>7, <2>1, <3>1
        <4>. QED
          BY <1>4, <1>6, <3>1, <4>1 DEF FoldStep
      <3>. QED
        BY <3>1 DEF FoldStep
    <2>. QED
      BY <1>5, <1>6, <2>1 DEF Folded, MatchOf
  <1>. DEFINE h == CHOOSE g1 : g1 = MatchOf(g1, s, r)
  <1>9. h = MatchOf(h, s, r)
    BY <1>8
  <1>. HIDE DEF h
  <1>10. \A t \in SUBSET D : h[t] = IF t = {} THEN s ELSE MatchItem(h[t \ {Max(t)}], r, Max(t))
    <2>1. \A k : k = MatchOf(h, s, r) => \A t \in SUBSET D :
            k[t] = IF t = {} THEN s
                   ELSE MatchItem(h[t \ {Max(t)}], r, [l \in DOMAIN s |-> l][Max(t)])
      BY <1>6 DEF MatchOf
    <2>2. \A t \in SUBSET D : t # {} => [l \in DOMAIN s |-> l][Max(t)] = Max(t)
      BY <1>6, <1>7
    <2>. QED
      BY <1>9, <2>1, <2>2
  <1>. DEFINE Fine == {k \in 0..m : h[1..k] \in A}
  <1>11. 0 \in Fine
    <2>1. 1..0 = {} /\ {} \in SUBSET D
      OBVIOUS
    <2>2. h[{}] = s
      BY <1>10, <2>1
    <2>3. h[1..0] \in A
      BY <1>1, <2>1, <2>2
    <2>. QED
      BY <1>1, <2>3
  <1>12. ASSUME NEW k \in 1..m, k - 1 \in Fine
         PROVE  k \in Fine
    <2>1. Max(1..k) = k /\ (1..k) \ {k} = 1..(k - 1) /\ 1..k \in SUBSET D /\ 1..k # {}
      BY <1>1, LastOfFirst DEF D
    <2>2. h[1..k] = MatchItem(h[1..(k - 1)], r, k)
      BY <1>10, <2>1
    <2>3. h[1..k] \in A
      BY <1>3, <1>12, <2>2 DEF D
    <2>. QED
      BY <2>3
  <1>13. h[1..m] \in A
    <2>. HIDE DEF Fine
    <2>1. \A k \in 0..m : k \in Fine
      BY <1>1, <1>11, <1>12, UpTo
    <2>. QED
      BY <1>1, <2>1 DEF Fine
  <1>14. MatchItems(s, r) = h[D]
    BY <1>6, MatchItemsIs DEF h
  <1>. QED
    BY <1>1, <1>13, <1>14 DEF A, D, r

\* The item that is made of a transaction nobody expected.
NewItem(t) == [type |-> t.type, expected |-> Nothing, matched |-> t]
Push(s, list, t) == IF t.id \in MatchedIds(s) THEN list ELSE Append(list, NewItem(t))
PushOf(g, s, remote) ==
  [t \in SUBSET DOMAIN remote |->
     IF t = {} THEN <<>> ELSE Push(s, g[t \ {Max(t)}], remote[Max(t)])]

LEMMA AddedIs ==
  ASSUME NEW s, NEW remote
  PROVE  Added(s, remote) = (CHOOSE g : g = PushOf(g, s, remote))[DOMAIN remote]
  BY DEF Added, FoldLeft, MapThenFoldSet, PushOf, Push, NewItem

\* Items for some of the first k transactions that are not in s.
NewFor(list, s, k) ==
  /\ HistoryOK(list)
  /\ \A i \in DOMAIN list : /\ list[i].matched.id \in 1..k
                            /\ list[i].matched.id \notin MatchedIds(s)

LEMMA PushKeeps ==
  ASSUME LedgerOK, NEW n \in Nat, n <= Len(ledger), NEW s, NEW k \in 1..n,
         NEW list, NewFor(list, s, k - 1)
  PROVE  NewFor(Push(s, list, Reported(n)[k]), s, k)
  <1>. DEFINE t == Reported(n)[k]
  <1>1. /\ t \in Transactions /\ t.id = k /\ t # Unmatched
        /\ k \in DOMAIN ledger /\ t = Reported(Len(ledger))[k]
        /\ t.type = ledger[k].type /\ t.type \in {"credit", "withdraw"}
    BY ReportedIs
  <1>. HIDE DEF t
  <1>2. HistoryOK(list) /\ list \in Seq(Items) /\ DOMAIN list = 1..Len(list) /\ Len(list) \in Nat
    BY HistoryTyped DEF NewFor
  <1>3. \A i \in DOMAIN list : /\ list[i].matched.id \in 1..k /\ list[i].matched.id # k
                               /\ list[i].matched.id \notin MatchedIds(s)
    BY DEF NewFor
  <1>4. CASE k \in MatchedIds(s)
    <2>1. Push(s, list, t) = list
      BY <1>1, <1>4 DEF Push
    <2>. QED
      BY <1>2, <1>3, <2>1 DEF NewFor, t
  <1>5. CASE k \notin MatchedIds(s)
    <2>. DEFINE x == NewItem(t)
                u == Append(list, x)
                m == Len(list) + 1
    <2>1. Push(s, list, t) = u
      BY <1>1, <1>5 DEF Push
    <2>2. x.type = t.type /\ x.matched = t /\ x.expected = 0
      BY DEF NewItem, Nothing
    <2>3. x \in Items
      <3>1. t.type \in Types /\ 0 \in Nat /\ t \in Transactions \cup {Unmatched}
        BY <1>1 DEF Types
      <3>2. x = [type |-> t.type, expected |-> 0, matched |-> t]
        BY DEF NewItem, Nothing
      <3>. HIDE DEF x
      <3>. QED
        BY <3>1, <3>2 DEF Items
    <2>4. Told(x)
      BY <1>1, <2>2 DEF Told
    <2>. HIDE DEF x
    <2>5. /\ u \in Seq(Items) /\ DOMAIN u = DOMAIN list \cup {m} /\ m \notin DOMAIN list
          /\ u[m] = x /\ \A i \in DOMAIN list : u[i] = list[i]
      BY <1>2, <2>3
    <2>. HIDE DEF u, m
    <2>6. \A i \in DOMAIN u : /\ u[i].type \in {"credit", "withdraw"}
                              /\ u[i].matched = Unmatched \/ Told(u[i])
      BY <1>1, <1>2, <2>2, <2>4, <2>5 DEF HistoryOK
    <2>7. ASSUME NEW i \in DOMAIN u, NEW j \in DOMAIN u,
                 u[i].matched.id = u[j].matched.id, u[i].matched # Unmatched
          PROVE  i = j
      <3>1. CASE i \in DOMAIN list /\ j \in DOMAIN list
        BY <1>2, <2>5, <2>7, <3>1 DEF HistoryOK
      <3>2. CASE i = m /\ j \in DOMAIN list
        BY <1>1, <1>3, <2>2, <2>5, <2>7, <3>2
      <3>3. CASE i \in DOMAIN list /\ j = m
        BY <1>1, <1>3, <2>2, <2>5, <2>7, <3>3
      <3>. QED
        BY <2>5, <3>1, <3>2, <3>3
    <2>8. HistoryOK(u)
      BY <2>5, <2>6, <2>7 DEF HistoryOK
    <2>9. \A i \in DOMAIN u : u[i].matched.id \in 1..k /\ u[i].matched.id \notin MatchedIds(s)
      BY <1>1, <1>3, <1>5, <2>2, <2>5
    <2>. QED
      BY <2>1, <2>8, <2>9 DEF NewFor, t
  <1>. QED
    BY <1>4, <1>5

LEMMA AddedIsNew ==
  ASSUME LedgerOK, NEW n \in Nat, n <= Len(ledger), NEW s
  PROVE  NewFor(Added(s, Reported(n)), s, n)
  <1>. DEFINE r == Reported(n)
              D == 1..n
              A == Seq(Items)
              F == [p \in D \X A |-> Push(s, p[2], r[p[1]])]
              c == Lasts(n)
              none == <<>>
  <1>1. /\ DOMAIN r = D /\ IsFiniteSet(D) /\ Chooses(c, D) /\ none \in A
        /\ \A i \in D : r[i] \in Transactions
    BY ReportedIs, LastsChosen
  <1>2. \A i \in D, x \in A : F[<<i, x>>] = Push(s, x, r[i])
    OBVIOUS
  <1>. HIDE DEF F, c, r, D
  <1>3. ASSUME NEW i \in D, NEW x \in A
        PROVE  F[<<i, x>>] \in A
    <2>1. r[i] \in Transactions
      BY <1>1
    <2>2. NewItem(r[i]) \in Items
      BY <2>1 DEF NewItem, Items, Transactions, Nothing
    <2>3. Append(x, NewItem(r[i])) \in Seq(Items)
      BY <2>2
    <2>. QED
      BY <1>2, <2>3 DEF Push
  <1>. HIDE DEF A, none
  <1>4. PICK g : g = Folded(F, c, none, g, D) /\ \A t \in SUBSET D : g[t] \in A
    <2>1. \A i \in 1..n, x \in A : F[<<i, x>>] \in A
      BY <1>3 DEF D
    <2>2. none \in A
      BY <1>1
    <2>3. \E g : /\ g = Folded(F, Lasts(n), none, g, 1..n)
                 /\ \A t \in SUBSET (1..n) : g[t] \in A
      BY <2>1, <2>2, SequenceFold
    <2>. QED
      BY <2>3 DEF D, c
  <1>5. \A t \in SUBSET D : t # {} => c[t] = Max(t) /\ c[t] \in t
    BY <1>1 DEF Chooses, Lasts, c, D
  <1>6. g = PushOf(g, s, r)
    <2>1. ASSUME NEW t \in SUBSET D
          PROVE  FoldStep(F, c, none, g, t)
                   = IF t = {} THEN <<>> ELSE Push(s, g[t \ {Max(t)}], r[Max(t)])
      <3>1. CASE t # {}
        <4>1. c[t] = Max(t) /\ c[t] \in D /\ g[t \ {c[t]}] \in A
          BY <1>4, <1>5, <2>1, <3>1
        <4>. QED
          BY <1>2, <3>1, <4>1 DEF FoldStep
      <3>. QED
        BY <3>1 DEF FoldStep, none
    <2>. QED
      BY <1>1, <1>4, <2>1 DEF Folded, PushOf
  <1>. DEFINE h == CHOOSE g1 : g1 = PushOf(g1, s, r)
  <1>7. h = PushOf(h, s, r)
    BY <1>6
  <1>. HIDE DEF h
  <1>8. \A t \in SUBSET D : h[t] = IF t = {} THEN <<>> ELSE Push(s, h[t \ {Max(t)}], r[Max(t)])
    <2>1. \A k : k = PushOf(h, s, r) => \A t \in SUBSET D :
            k[t] = IF t = {} THEN <<>> ELSE Push(s, h[t \ {Max(t)}], r[Max(t)])
      BY <1>1 DEF PushOf
    <2>. QED
      BY <1>7, <2>1
  <1>. DEFINE Fine == {k \in 0..n : NewFor(h[1..k], s, k)}
  <1>9. 0 \in Fine
    <2>1. 1..0 = {} /\ {} \in SUBSET D
      OBVIOUS
    <2>2. h[1..0] = <<>>
      BY <1>8, <2>1
    <2>3. NewFor(<<>>, s, 0)
      <3>1. <<>> \in Seq(Items) /\ DOMAIN <<>> = {}
        OBVIOUS
      <3>. QED
        BY <3>1 DEF NewFor, HistoryOK
    <2>. QED
      BY <2>2, <2>3
  <1>10. ASSUME NEW k \in 1..n, k - 1 \in Fine
         PROVE  k \in Fine
    <2>1. Max(1..k) = k /\ (1..k) \ {k} = 1..(k - 1) /\ 1..k \in SUBSET D /\ 1..k # {}
      BY LastOfFirst DEF D
    <2>2. h[1..k] = Push(s, h[1..(k - 1)], r[k])
      BY <1>8, <2>1
    <2>3. NewFor(h[1..(k - 1)], s, k - 1)
      BY <1>10
    <2>4. NewFor(Push(s, h[1..(k - 1)], Reported(n)[k]), s, k)
      BY <2>3, PushKeeps
    <2>. QED
      BY <2>2, <2>4 DEF r
  <1>11. NewFor(h[1..n], s, n)
    <2>. HIDE DEF Fine
    <2>1. \A k \in 0..n : k \in Fine
      BY <1>9, <1>10, UpTo
    <2>. QED
      BY <2>1 DEF Fine
  <1>12. Added(s, r) = h[D]
    BY <1>1, AddedIs DEF h
  <1>. QED
    BY <1>11, <1>12 DEF r, D

\* Two histories that have no transaction in common make one.
LEMMA BothOK ==
  ASSUME NEW s, HistoryOK(s), NEW t, HistoryOK(t),
         \A k \in DOMAIN t : t[k].matched # Unmatched => t[k].matched.id \notin MatchedIds(s)
  PROVE  HistoryOK(s \o t) /\ Taken(s \o t) = Taken(s) + Taken(t)
  <1>. DEFINE m == Len(s)
              n == Len(t)
              u == s \o t
  <1>1. /\ s \in Seq(Items) /\ DOMAIN s = 1..m /\ m \in Nat /\ Claims(s) \in Seq(Nat)
        /\ DOMAIN Claims(s) = 1..m /\ Taken(s) = Total(Claims(s))
    BY HistoryTyped
  <1>2. /\ t \in Seq(Items) /\ DOMAIN t = 1..n /\ n \in Nat /\ Claims(t) \in Seq(Nat)
        /\ DOMAIN Claims(t) = 1..n /\ Taken(t) = Total(Claims(t))
    BY HistoryTyped
  <1>3. /\ u \in Seq(Items) /\ Len(u) = m + n /\ DOMAIN u = 1..(m + n)
        /\ \A i \in 1..m : u[i] = s[i]
        /\ \A i \in 1..(m + n) : i \notin 1..m => i - m \in 1..n /\ u[i] = t[i - m]
    BY <1>1, <1>2
  <1>. HIDE DEF u, m, n
  <1>4. ASSUME NEW i \in DOMAIN u
        PROVE  /\ u[i].type \in {"credit", "withdraw"}
               /\ u[i].matched = Unmatched \/ Told(u[i])
    <2>1. \A k \in 1..m : /\ s[k].type \in {"credit", "withdraw"}
                          /\ s[k].matched = Unmatched \/ Told(s[k])
      BY <1>1 DEF HistoryOK
    <2>2. \A k \in 1..n : /\ t[k].type \in {"credit", "withdraw"}
                          /\ t[k].matched = Unmatched \/ Told(t[k])
      BY <1>2 DEF HistoryOK
    <2>3. CASE i \in 1..m
      <3>1. u[i] = s[i]
        BY <1>3, <2>3
      <3>. QED
        BY <2>1, <2>3, <3>1
    <2>4. CASE i \notin 1..m
      <3>1. i - m \in 1..n /\ u[i] = t[i - m]
        BY <1>3, <2>4
      <3>. QED
        BY <2>2, <3>1
    <2>. QED
      BY <2>3, <2>4
  <1>5. \A i \in 1..m : \A k \in 1..n :
          ~ /\ s[i].matched.id = t[k].matched.id
            /\ s[i].matched # Unmatched \/ t[k].matched # Unmatched
    <2>1. \A x \in Items : x.matched # Unmatched => x.matched.id \in Nat \ {0}
      BY DEF Items, Transactions
    <2>2. \A x \in Items : x.matched = Unmatched => x.matched.id = 0
      BY DEF Unmatched
    <2>3. \A i \in 1..m : s[i] \in Items
      BY <1>1
    <2>4. \A k \in 1..n : t[k] \in Items
      BY <1>2
    <2>5. ASSUME NEW i \in 1..m, NEW k \in 1..n, s[i].matched.id = t[k].matched.id,
                 s[i].matched # Unmatched \/ t[k].matched # Unmatched
          PROVE  FALSE
      <3>1. s[i].matched.id # 0 /\ t[k].matched # Unmatched
        BY <2>1, <2>2, <2>3, <2>4, <2>5
      <3>2. s[i].matched.id \in MatchedIds(s)
        BY <1>1, <3>1 DEF MatchedIds
      <3>. QED
        BY <1>2, <2>5, <3>1, <3>2
    <2>. QED
      BY <2>5
  <1>6. ASSUME NEW i \in DOMAIN u, NEW k \in DOMAIN u,
               u[i].matched.id = u[k].matched.id, u[i].matched # Unmatched
        PROVE  i = k
    <2>1. CASE i \in 1..m /\ k \in 1..m
      BY <1>1, <1>3, <1>6, <2>1 DEF HistoryOK
    <2>2. CASE i \in 1..m /\ k \notin 1..m
      BY <1>3, <1>5, <1>6, <2>2
    <2>3. CASE i \notin 1..m /\ k \in 1..m
      BY <1>3, <1>5, <1>6, <2>3
    <2>4. CASE i \notin 1..m /\ k \notin 1..m
      <3>1. i - m \in 1..n /\ k - m \in 1..n /\ u[i] = t[i - m] /\ u[k] = t[k - m]
        BY <1>3, <2>4
      <3>2. i - m = k - m
        BY <1>2, <1>6, <3>1 DEF HistoryOK
      <3>. QED
        BY <1>1, <1>3, <3>2
    <2>. QED
      BY <2>1, <2>2, <2>3, <2>4
  <1>7. HistoryOK(u)
    BY <1>3, <1>4, <1>6 DEF HistoryOK
  <1>8. Claims(u) = Claims(s) \o Claims(t)
    <2>1. /\ DOMAIN Claims(u) = 1..(m + n)
          /\ \A i \in 1..(m + n) : Claims(u)[i] = Claim(u[i])
      BY <1>3 DEF Claims
    <2>2. /\ \A i \in 1..m : Claims(s)[i] = Claim(s[i])
          /\ \A i \in 1..n : Claims(t)[i] = Claim(t[i])
      BY <1>1, <1>2 DEF Claims
    <2>3. Len(Claims(s)) = m /\ Len(Claims(t)) = n
      BY <1>1, <1>2
    <2>4. Claims(u) \in Seq(Nat)
      BY <1>7, HistoryTyped
    <2>. DEFINE v == Claims(s) \o Claims(t)
    <2>5. /\ v \in Seq(Nat) /\ DOMAIN v = 1..(m + n)
          /\ \A i \in 1..m : v[i] = Claims(s)[i]
          /\ \A i \in 1..(m + n) : i \notin 1..m => v[i] = Claims(t)[i - m]
      BY <1>1, <1>2, <2>3
    <2>. HIDE DEF v
    <2>6. \A i \in 1..(m + n) : Claims(u)[i] = v[i]
      BY <1>3, <2>1, <2>2, <2>5
    <2>7. Len(Claims(u)) = m + n /\ Len(v) = m + n
      BY <1>1, <1>2, <2>1, <2>4, <2>5
    <2>8. Claims(u) = v
      BY <2>4, <2>5, <2>6, <2>7, SeqEqual
    <2>. QED
      BY <2>8 DEF v
  <1>9. Taken(u) = Total(Claims(u))
    BY <1>7, HistoryTyped
  <1>. QED
    BY <1>1, <1>2, <1>7, <1>8, <1>9, TotalOfBoth DEF u

\* Reconciling keeps the history in order, and what is set aside never gets less.
LEMMA ReconcileKeeps ==
  ASSUME LedgerOK, NEW n \in Nat, n <= Len(ledger), NEW s, HistoryOK(s)
  PROVE  /\ HistoryOK(Reconcile(s, Reported(n)))
         /\ Taken(s) <= Taken(Reconcile(s, Reported(n)))
         /\ Taken(s) \in Nat /\ Taken(Reconcile(s, Reported(n))) \in Nat
  <1>. DEFINE x == MatchItems(s, Reported(n))
              y == Added(x, Reported(n))
  <1>1. HistoryOK(x) /\ Claims(x) = Claims(s)
    BY MatchItemsKeeps
  <1>2. NewFor(y, x, n)
    BY AddedIsNew
  <1>3. Reconcile(s, Reported(n)) = x \o y
    BY DEF Reconcile
  <1>. HIDE DEF x, y
  <1>4. HistoryOK(y) /\ \A k \in DOMAIN y : y[k].matched.id \notin MatchedIds(x)
    BY <1>2 DEF NewFor
  <1>5. HistoryOK(x \o y) /\ Taken(x \o y) = Taken(x) + Taken(y)
    BY <1>1, <1>4, BothOK
  <1>6. Taken(x) = Taken(s) /\ Taken(s) \in Nat
    BY <1>1, HistoryTyped
  <1>7. Taken(y) \in Nat /\ Taken(x \o y) \in Nat
    BY <1>4, <1>5, HistoryTyped
  <1>. QED
    BY <1>3, <1>5, <1>6, <1>7

-----------------------------------------------------------------------------
(* The sums of a history                                                   *)

\* Elements with different images: the sum is at most that of the images.
LEMMA SumOfImages ==
  ASSUME NEW S, IsFiniteSet(S), NEW f, NaturalOn(f, S),
         NEW T, IsFiniteSet(T), NEW g, NaturalOn(g, T),
         NEW image, \A x \in S : image[x] \in T /\ f[x] = g[image[x]],
         \A x, y \in S : image[x] = image[y] => x = y
  PROVE  Sum(f, S) <= Sum(g, T)
  <1>. DEFINE im(U) == {image[x] : x \in U}
              Good == {U \in SUBSET S : Sum(f, U) = Sum(g, im(U))}
  <1>1. {} \in Good
    <2>1. im({}) = {}
      OBVIOUS
    <2>. QED
      BY <2>1, SumOfNone
  <1>2. ASSUME NEW U \in Good, NEW x \in S, x \notin U
        PROVE  U \cup {x} \in Good
    <2>1. U \subseteq S /\ IsFiniteSet(U) /\ NaturalOn(f, U \cup {x})
      BY FS_Subset DEF NaturalOn
    <2>2. im(U) \subseteq T /\ im(U \cup {x}) = im(U) \cup {image[x]} /\ image[x] \notin im(U)
      BY <1>2, <2>1
    <2>3. Sum(f, U) = Sum(g, im(U))
      OBVIOUS
    <2>. HIDE DEF im
    <2>4. IsFiniteSet(im(U)) /\ NaturalOn(g, im(U) \cup {image[x]}) /\ f[x] = g[image[x]]
      BY <2>2, FS_Subset DEF NaturalOn
    <2>5. Sum(f, U \cup {x}) = f[x] + Sum(f, U)
      BY <1>2, <2>1, SumWith
    <2>6. Sum(g, im(U) \cup {image[x]}) = g[image[x]] + Sum(g, im(U))
      BY <2>2, <2>4, SumWith
    <2>. QED
      BY <2>1, <2>2, <2>3, <2>4, <2>5, <2>6
  <1>3. im(S) \subseteq T
    OBVIOUS
  <1>. HIDE DEF Good, im
  <1>4. S \in Good
    BY <1>1, <1>2, SubsetInduction
  <1>5. Sum(g, im(S)) <= Sum(g, T)
    BY <1>3, SumOfPartIsLess
  <1>. QED
    BY <1>4, <1>5 DEF Good

CreditAmounts(s) == [i \in DOMAIN s |-> IF s[i].type = "credit" THEN s[i].amount ELSE 0]
DebitAmounts(s) == [i \in DOMAIN s |-> IF s[i].type = "withdraw" THEN s[i].amount ELSE 0]

LEMMA LedgerTyped ==
  ASSUME LedgerOK
  PROVE  /\ Len(ledger) \in Nat /\ DOMAIN ledger = 1..Len(ledger)
         /\ NaturalOn(CreditAmounts(ledger), 1..Len(ledger))
         /\ NaturalOn(DebitAmounts(ledger), 1..Len(ledger))
         /\ Credits(ledger) = Sum(CreditAmounts(ledger), 1..Len(ledger))
         /\ Debits(ledger) = Sum(DebitAmounts(ledger), 1..Len(ledger))
         /\ Credits(ledger) \in Nat /\ Debits(ledger) \in Nat
  <1>1. Len(ledger) \in Nat /\ DOMAIN ledger = 1..Len(ledger)
    BY DEF LedgerOK
  <1>2. \A i \in 1..Len(ledger) : ledger[i].amount \in Nat
    <2>1. \A i \in 1..Len(ledger) : ledger[i] \in Entries
      BY DEF LedgerOK
    <2>. QED
      BY <2>1 DEF Entries
  <1>3. /\ DOMAIN CreditAmounts(ledger) = 1..Len(ledger)
        /\ DOMAIN DebitAmounts(ledger) = 1..Len(ledger)
        /\ NaturalOn(CreditAmounts(ledger), 1..Len(ledger))
        /\ NaturalOn(DebitAmounts(ledger), 1..Len(ledger))
    BY <1>1, <1>2 DEF CreditAmounts, DebitAmounts, NaturalOn
  <1>4. /\ Credits(ledger) = Total(CreditAmounts(ledger))
        /\ Debits(ledger) = Total(DebitAmounts(ledger))
    BY DEF Credits, Debits, CreditAmounts, DebitAmounts
  <1>5. Total(CreditAmounts(ledger)) = Sum(CreditAmounts(ledger), 1..Len(ledger))
        /\ Total(CreditAmounts(ledger)) \in Nat
    BY <1>1, <1>3, TotalIsSum
  <1>6. Total(DebitAmounts(ledger)) = Sum(DebitAmounts(ledger), 1..Len(ledger))
        /\ Total(DebitAmounts(ledger)) \in Nat
    BY <1>1, <1>3, TotalIsSum
  <1>. QED
    BY <1>1, <1>3, <1>4, <1>5, <1>6

MatchedAmounts(s, types) ==
  [i \in DOMAIN s |-> IF s[i].type \in types THEN s[i].matched.amount ELSE 0]
ExpectedAmounts(s, types) ==
  [i \in DOMAIN s |-> IF s[i].type \in types /\ s[i].matched = Unmatched
                      THEN s[i].expected ELSE 0]

LEMMA SumsTyped ==
  ASSUME NEW s, HistoryOK(s), NEW types
  PROVE  /\ NaturalOn(MatchedAmounts(s, types), 1..Len(s))
         /\ NaturalOn(ExpectedAmounts(s, types), 1..Len(s))
         /\ SumMatched(s, types) = Sum(MatchedAmounts(s, types), 1..Len(s))
         /\ SumExpected(s, types) = Sum(ExpectedAmounts(s, types), 1..Len(s))
         /\ SumMatched(s, types) \in Nat /\ SumExpected(s, types) \in Nat
  <1>1. /\ Len(s) \in Nat /\ DOMAIN s = 1..Len(s)
        /\ \A i \in 1..Len(s) : s[i].matched.amount \in Nat /\ s[i].expected \in Nat
    BY HistoryTyped, ItemTyped
  <1>2. /\ DOMAIN MatchedAmounts(s, types) = 1..Len(s)
        /\ DOMAIN ExpectedAmounts(s, types) = 1..Len(s)
        /\ NaturalOn(MatchedAmounts(s, types), 1..Len(s))
        /\ NaturalOn(ExpectedAmounts(s, types), 1..Len(s))
    BY <1>1 DEF MatchedAmounts, ExpectedAmounts, NaturalOn
  <1>3. SumMatched(s, types) = Total(MatchedAmounts(s, types))
    BY DEF SumMatched, MatchedAmounts
  <1>4. SumExpected(s, types) = Total(ExpectedAmounts(s, types))
    BY DEF SumExpected, ExpectedAmounts
  <1>5. Total(MatchedAmounts(s, types)) = Sum(MatchedAmounts(s, types), 1..Len(s))
        /\ Total(MatchedAmounts(s, types)) \in Nat
    BY <1>1, <1>2, TotalIsSum
  <1>6. Total(ExpectedAmounts(s, types)) = Sum(ExpectedAmounts(s, types), 1..Len(s))
        /\ Total(ExpectedAmounts(s, types)) \in Nat
    BY <1>1, <1>2, TotalIsSum
  <1>. QED
    BY <1>2, <1>3, <1>4, <1>5, <1>6

\* What was matched or is still expected to be withdrawn is what is set aside.
LEMMA TakenIsNegative ==
  ASSUME NEW s, HistoryOK(s)
  PROVE  Taken(s) = Negative(s) + SumExpected(s, {"withdraw"})
  <1>. DEFINE D == 1..Len(s)
              f == MatchedAmounts(s, {"withdraw", "closing"})
              g == ExpectedAmounts(s, {"withdraw"})
              h == Claims(s)
  <1>1. /\ DOMAIN s = D /\ Len(s) \in Nat /\ Taken(s) = Sum(h, D)
        /\ \A i \in D : s[i] \in Items
    BY HistoryTyped
  <1>2. /\ NaturalOn(f, D) /\ NaturalOn(g, D) /\ Negative(s) = Sum(f, D)
        /\ SumExpected(s, {"withdraw"}) = Sum(g, D)
    BY SumsTyped DEF Negative
  <1>3. ASSUME NEW i \in D
        PROVE  h[i] = f[i] + g[i]
    <2>1. s[i] \in Items /\ s[i].type \in {"credit", "withdraw"} /\ i \in DOMAIN s
      BY <1>1 DEF HistoryOK
    <2>2. s[i].matched = Unmatched => s[i].matched.amount = 0
      BY DEF Unmatched
    <2>3. s[i].matched.amount \in Nat /\ s[i].expected \in Nat
      BY <2>1, ItemTyped
    <2>4. h[i] = Claim(s[i])
      BY <2>1 DEF Claims
    <2>5. f[i] = IF s[i].type = "withdraw" THEN s[i].matched.amount ELSE 0
      BY <2>1 DEF MatchedAmounts
    <2>6. g[i] = IF s[i].type = "withdraw" /\ s[i].matched = Unmatched THEN s[i].expected ELSE 0
      BY <2>1 DEF ExpectedAmounts
    <2>. HIDE DEF f, g, h
    <2>7. CASE s[i].type # "withdraw"
      BY <2>4, <2>5, <2>6, <2>7 DEF Claim
    <2>8. CASE s[i].type = "withdraw" /\ s[i].matched = Unmatched
      <3>1. h[i] = s[i].expected /\ f[i] = 0 /\ g[i] = s[i].expected
        BY <2>2, <2>4, <2>5, <2>6, <2>8 DEF Claim
      <3>. QED
        BY <2>3, <3>1
    <2>9. CASE s[i].type = "withdraw" /\ s[i].matched # Unmatched
      <3>1. h[i] = s[i].matched.amount /\ f[i] = s[i].matched.amount /\ g[i] = 0
        BY <2>4, <2>5, <2>6, <2>9 DEF Claim
      <3>. QED
        BY <2>3, <3>1
    <2>. QED
      BY <2>7, <2>8, <2>9
  <1>. HIDE DEF f, g, h, D
  <1>4. IsFiniteSet(D)
    BY <1>1, FS_Interval DEF D
  <1>5. Sum(h, D) = Sum(f, D) + Sum(g, D)
    BY <1>2, <1>3, <1>4, SumOfBoth
  <1>. QED
    BY <1>1, <1>2, <1>5

\* The wallet counts no credit that did not arrive, and none twice.
LEMMA PositiveArrived ==
  ASSUME LedgerOK, NEW s, HistoryOK(s)
  PROVE  Positive(s) <= Credits(ledger) /\ Positive(s) \in Nat
  <1>. DEFINE D == 1..Len(s)
              L == 1..Len(ledger)
              P == {i \in D : s[i].type = "credit" /\ s[i].matched # Unmatched}
              f == MatchedAmounts(s, {"credit", "recoup"})
              g == CreditAmounts(ledger)
              image == [i \in D |-> s[i].matched.id]
  <1>1. DOMAIN s = D /\ Len(s) \in Nat /\ \A i \in D : s[i] \in Items
    BY HistoryTyped
  <1>2. NaturalOn(f, D) /\ Positive(s) = Sum(f, D) /\ Positive(s) \in Nat
    BY SumsTyped DEF Positive
  <1>3. /\ NaturalOn(g, L) /\ Credits(ledger) = Sum(g, L) /\ Len(ledger) \in Nat
        /\ DOMAIN ledger = L
    BY LedgerTyped
  <1>4. IsFiniteSet(D) /\ IsFiniteSet(L) /\ IsFiniteSet(P) /\ NaturalOn(f, P) /\ P \subseteq D
    <2>1. IsFiniteSet(D)
      BY <1>1, FS_Interval
    <2>2. IsFiniteSet(L)
      BY <1>3, FS_Interval
    <2>3. IsFiniteSet(P)
      BY <2>1, FS_Subset
    <2>4. NaturalOn(f, P)
      BY <1>2 DEF NaturalOn
    <2>. QED
      BY <2>1, <2>2, <2>3, <2>4
  <1>5. ASSUME NEW i \in P
        PROVE  image[i] \in L /\ f[i] = g[image[i]]
    <2>1. i \in DOMAIN s /\ s[i].type = "credit" /\ Told(s[i])
      BY <1>1 DEF HistoryOK
    <2>2. PICK j \in DOMAIN ledger : /\ s[i].matched = Reported(Len(ledger))[j]
                                     /\ s[i].type = ledger[j].type
      BY <2>1 DEF Told
    <2>3. s[i].matched.id = j /\ s[i].matched.amount = ledger[j].amount /\ j \in L
      BY <1>3, <2>2, ReportedIs
    <2>4. f[i] = ledger[j].amount
      BY <2>1, <2>3 DEF MatchedAmounts
    <2>5. g[j] = ledger[j].amount
      BY <2>1, <2>2 DEF CreditAmounts
    <2>6. image[i] = j
      BY <1>1, <2>1, <2>3
    <2>. HIDE DEF f, g, image
    <2>. QED
      BY <2>3, <2>4, <2>5, <2>6
  <1>6. ASSUME NEW i \in P, NEW k \in P, image[i] = image[k]
        PROVE  i = k
    BY <1>1, <1>6 DEF HistoryOK
  <1>7. ASSUME NEW i \in D, i \notin P
        PROVE  f[i] = 0
    <2>1. s[i].type \in {"credit", "withdraw"}
      BY <1>1 DEF HistoryOK
    <2>2. CASE s[i].type = "withdraw"
      BY <1>1, <2>2 DEF MatchedAmounts
    <2>3. CASE s[i].type = "credit"
      <3>1. s[i].matched.amount = 0
        BY <1>7, <2>3 DEF Unmatched
      <3>. QED
        BY <1>1, <3>1 DEF MatchedAmounts
    <2>. QED
      BY <2>1, <2>2, <2>3
  <1>. HIDE DEF f, g, image, P, D, L
  <1>8. Sum(f, P) <= Sum(g, L)
    BY <1>3, <1>4, <1>5, <1>6, SumOfImages
  <1>9. Sum(f, P) = Sum(f, D)
    <2>. DEFINE h == [x \in D |-> IF x \in P THEN f[x] ELSE 0]
    <2>1. Sum(f, P) = Sum(h, D)
      BY <1>2, <1>4, SumOfPart
    <2>2. \A x \in D : h[x] = f[x]
      BY <1>7
    <2>. HIDE DEF h
    <2>3. Sum(h, D) = Sum(f, D)
      BY <1>2, <1>4, <2>2, SumsAgree
    <2>. QED
      BY <2>1, <2>3
  <1>. QED
    BY <1>2, <1>3, <1>8, <1>9

\* What depleteReserve may claim has arrived and is not set aside for anything.
LEMMA UnclaimedIsThere ==
  ASSUME LedgerOK, NEW s, HistoryOK(s)
  PROVE  /\ Unclaimed(s) \in Nat /\ Taken(s) \in Nat /\ Positive(s) \in Nat
         /\ Unclaimed(s) = Minus(Positive(s), Taken(s))
         /\ Unclaimed(s) > 0 => Taken(s) + Unclaimed(s) <= Credits(ledger)
  <1>1. Positive(s) <= Credits(ledger) /\ Positive(s) \in Nat
    BY PositiveArrived
  <1>2. Taken(s) = Negative(s) + SumExpected(s, {"withdraw"}) /\ Taken(s) \in Nat
    BY TakenIsNegative, HistoryTyped
  <1>3. Unclaimed(s) = Minus(Positive(s), Taken(s))
    BY <1>2 DEF Unclaimed
  <1>4. Credits(ledger) \in Nat
    BY LedgerTyped
  <1>. QED
    BY <1>1, <1>2, <1>3, <1>4 DEF Minus

-----------------------------------------------------------------------------
(* What the open planchets cost                                            *)

\* A sequence with one more element.
LEMMA TotalOfOneMore ==
  ASSUME NEW n \in Nat, NEW f, DOMAIN f = 1..(n + 1), NaturalOn(f, 1..(n + 1)),
         NEW h, DOMAIN h = 1..n, \A i \in 1..n : f[i] = h[i]
  PROVE  Total(f) = Total(h) + f[n + 1] /\ Total(h) \in Nat
  <1>. DEFINE D == 1..n
  <1>1. D \cup {n + 1} = 1..(n + 1) /\ n + 1 \notin D
    OBVIOUS
  <1>2. IsFiniteSet(D)
    BY FS_Interval
  <1>3. NaturalOn(f, D) /\ NaturalOn(h, D)
    BY DEF NaturalOn
  <1>4. Total(h) = Sum(h, D) /\ Total(h) \in Nat
    BY <1>3, TotalIsSum
  <1>5. Total(f) = Sum(f, D \cup {n + 1})
    <2>1. n + 1 \in Nat
      OBVIOUS
    <2>2. Total(f) = Sum(f, 1..(n + 1))
      BY <2>1, TotalIsSum
    <2>. QED
      BY <1>1, <2>2
  <1>. HIDE DEF D
  <1>6. Sum(f, D \cup {n + 1}) = f[n + 1] + Sum(f, D)
    BY <1>1, <1>2, SumWith
  <1>7. Sum(f, D) = Sum(h, D)
    <2>1. \A x \in D : f[x] = h[x]
      BY DEF D
    <2>. QED
      BY <1>2, <1>3, <2>1, SumsAgree
  <1>8. f[n + 1] \in Nat
    BY <1>1 DEF NaturalOn
  <1>. QED
    BY <1>4, <1>5, <1>6, <1>7, <1>8

Groups == Seq([costs: Seq(Costs), withdrawn: SUBSET Nat])
Paid(s) == {s[j].coin : j \in DOMAIN s}
OpenOf(gs, P, g) ==
  [i \in DOMAIN gs[g].costs |-> IF <<g, i>> \in P THEN 0 ELSE gs[g].costs[i]]
OpenSums(gs, P) == [g \in DOMAIN gs |-> Total(OpenOf(gs, P, g))]
OpenIn(gs, P) == Total(OpenSums(gs, P))

LEMMA OpenIs ==
  Open = OpenIn(groups, Paid(ledger))
  BY DEF Open, OpenIn, OpenSums, OpenOf, Paid

LEMMA CostsTyped ==
  ASSUME NEW plan \in Seq(Costs)
  PROVE  /\ plan \in Seq(Nat) /\ Len(plan) \in Nat /\ DOMAIN plan = 1..Len(plan)
         /\ NaturalOn(plan, 1..Len(plan))
         /\ \A i \in 1..Len(plan) : plan[i] \in Costs /\ plan[i] \in Nat
  <1>1. Costs \subseteq Nat
    BY AmountsAssumption
  <1>2. /\ Len(plan) \in Nat /\ DOMAIN plan = 1..Len(plan)
        /\ \A i \in 1..Len(plan) : plan[i] \in Costs
    OBVIOUS
  <1>3. plan \in Seq(Nat)
    BY <1>1, SeqMonotonic
  <1>. QED
    BY <1>1, <1>2, <1>3 DEF NaturalOn

LEMMA OpenOfTyped ==
  ASSUME NEW gs \in Groups, NEW P, NEW g \in DOMAIN gs
  PROVE  /\ gs[g].costs \in Seq(Costs) /\ Len(gs[g].costs) \in Nat
         /\ DOMAIN gs[g].costs = 1..Len(gs[g].costs)
         /\ DOMAIN OpenOf(gs, P, g) = 1..Len(gs[g].costs)
         /\ NaturalOn(OpenOf(gs, P, g), 1..Len(gs[g].costs))
         /\ Total(OpenOf(gs, P, g)) = Sum(OpenOf(gs, P, g), 1..Len(gs[g].costs))
         /\ Total(OpenOf(gs, P, g)) \in Nat
  <1>1. gs[g].costs \in Seq(Costs)
    <2>1. gs \in Seq([costs: Seq(Costs), withdrawn: SUBSET Nat])
      BY DEF Groups
    <2>2. gs[g] \in [costs: Seq(Costs), withdrawn: SUBSET Nat]
      <3>. DEFINE S == [costs: Seq(Costs), withdrawn: SUBSET Nat]
      <3>. HIDE DEF S
      <3>1. \A s \in Seq(S) : \A k \in DOMAIN s : s[k] \in S
        OBVIOUS
      <3>. QED
        BY <2>1, <3>1 DEF S
    <2>. QED
      BY <2>2
  <1>. DEFINE plan == gs[g].costs
              n == Len(plan)
              f == OpenOf(gs, P, g)
              open(i) == <<g, i>> \in P
  <1>2. n \in Nat /\ DOMAIN plan = 1..n /\ \A i \in 1..n : plan[i] \in Nat
    <2>. HIDE DEF plan
    <2>. QED
      BY <1>1, CostsTyped DEF plan
  <1>3. f = [i \in 1..n |-> IF open(i) THEN 0 ELSE plan[i]]
    BY <1>2 DEF OpenOf
  <1>. HIDE DEF f, n, plan, open
  <1>4. DOMAIN f = 1..n /\ \A i \in 1..n : f[i] \in Nat
    BY <1>2, <1>3
  <1>5. NaturalOn(f, 1..n)
    BY <1>4 DEF NaturalOn
  <1>6. Total(f) = Sum(f, 1..n) /\ Total(f) \in Nat
    BY <1>2, <1>4, <1>5, TotalIsSum
  <1>. QED
    BY <1>1, <1>2, <1>4, <1>5, <1>6 DEF f, n, plan

LEMMA OpenTyped ==
  ASSUME NEW gs \in Groups, NEW P
  PROVE  /\ Len(gs) \in Nat /\ DOMAIN gs = 1..Len(gs)
         /\ DOMAIN OpenSums(gs, P) = 1..Len(gs)
         /\ NaturalOn(OpenSums(gs, P), 1..Len(gs))
         /\ OpenIn(gs, P) = Sum(OpenSums(gs, P), 1..Len(gs)) /\ OpenIn(gs, P) \in Nat
  <1>1. Len(gs) \in Nat /\ DOMAIN gs = 1..Len(gs)
    BY DEF Groups
  <1>. DEFINE f == OpenSums(gs, P)
              n == Len(gs)
  <1>2. DOMAIN f = 1..n /\ \A g \in 1..n : f[g] \in Nat
    BY <1>1, OpenOfTyped DEF OpenSums
  <1>. HIDE DEF f, n
  <1>3. NaturalOn(f, 1..n)
    BY <1>2 DEF NaturalOn
  <1>4. Total(f) = Sum(f, 1..n) /\ Total(f) \in Nat
    <2>1. n \in Nat
      BY <1>1 DEF n
    <2>. QED
      BY <1>2, <1>3, <2>1, TotalIsSum
  <1>. QED
    BY <1>1, <1>2, <1>3, <1>4 DEF f, n, OpenIn

\* Only the costs count, and whether a planchet is paid.
LEMMA OpenAlike ==
  ASSUME NEW gs, NEW hs, DOMAIN hs = DOMAIN gs,
         \A g \in DOMAIN gs : hs[g].costs = gs[g].costs,
         NEW P, NEW Q,
         \A g \in DOMAIN gs : \A i \in DOMAIN gs[g].costs : <<g, i>> \in P <=> <<g, i>> \in Q
  PROVE  OpenIn(hs, Q) = OpenIn(gs, P)
  <1>1. ASSUME NEW g \in DOMAIN gs
        PROVE  OpenOf(hs, Q, g) = OpenOf(gs, P, g)
    <2>1. hs[g].costs = gs[g].costs
      OBVIOUS
    <2>2. \A i \in DOMAIN gs[g].costs : <<g, i>> \in P <=> <<g, i>> \in Q
      OBVIOUS
    <2>. QED
      BY <2>1, <2>2 DEF OpenOf
  <1>2. OpenSums(hs, Q) = OpenSums(gs, P)
    BY <1>1 DEF OpenSums
  <1>. QED
    BY <1>2 DEF OpenIn

\* The exchange takes the money for one planchet.
LEMMA OnePaid ==
  ASSUME NEW gs \in Groups, NEW P, NEW g \in DOMAIN gs, NEW i \in DOMAIN gs[g].costs,
         <<g, i>> \notin P
  PROVE  /\ OpenIn(gs, P) = OpenIn(gs, P \cup {<<g, i>>}) + gs[g].costs[i]
         /\ gs[g].costs[i] \in Nat
  <1>. DEFINE Q == P \cup {<<g, i>>}
              n == Len(gs)
              m == Len(gs[g].costs)
              f == OpenOf(gs, P, g)
              h == OpenOf(gs, Q, g)
              F == OpenSums(gs, P)
              H == OpenSums(gs, Q)
              cost == gs[g].costs[i]
  <1>1. /\ gs[g].costs \in Seq(Costs) /\ m \in Nat /\ DOMAIN gs[g].costs = 1..m
        /\ NaturalOn(f, 1..m) /\ Total(f) = Sum(f, 1..m) /\ Total(f) \in Nat
    BY OpenOfTyped
  <1>2. NaturalOn(h, 1..m) /\ Total(h) = Sum(h, 1..m) /\ Total(h) \in Nat
    BY OpenOfTyped
  <1>3. /\ n \in Nat /\ DOMAIN gs = 1..n
        /\ NaturalOn(F, 1..n) /\ OpenIn(gs, P) = Sum(F, 1..n) /\ OpenIn(gs, P) \in Nat
    BY OpenTyped
  <1>4. NaturalOn(H, 1..n) /\ OpenIn(gs, Q) = Sum(H, 1..n) /\ OpenIn(gs, Q) \in Nat
    BY OpenTyped
  <1>5. f[i] = cost /\ h[i] = 0 /\ cost \in Nat
    BY <1>1, CostsTyped DEF OpenOf
  <1>6. \A k \in 1..m \ {i} : h[k] = f[k]
    BY <1>1 DEF OpenOf
  <1>7. \A k \in 1..n \ {g} : H[k] = F[k]
    <2>1. ASSUME NEW k \in DOMAIN gs, k # g
          PROVE  OpenOf(gs, Q, k) = OpenOf(gs, P, k)
      <3>1. \A l : <<k, l>> \in Q <=> <<k, l>> \in P
        BY <2>1
      <3>. HIDE DEF Q
      <3>. QED
        BY <3>1 DEF OpenOf
    <2>. QED
      BY <1>3, <2>1 DEF OpenSums
  <1>8. H[g] = Total(h) /\ F[g] = Total(f)
    BY DEF OpenSums
  <1>9. i \in 1..m /\ g \in 1..n
    BY <1>1, <1>3
  <1>. HIDE DEF f, h, F, H, Q, n, m, cost
  <1>10. Sum(h, 1..m) + f[i] = Sum(f, 1..m) + h[i]
    <2>. DEFINE D == 1..m
    <2>1. IsFiniteSet(D)
      BY <1>1, FS_Interval
    <2>2. NaturalOn(f, D) /\ NaturalOn(h, D) /\ i \in D /\ \A k \in D \ {i} : h[k] = f[k]
      BY <1>1, <1>2, <1>6, <1>9
    <2>. HIDE DEF D
    <2>3. Sum(h, D) + f[i] = Sum(f, D) + h[i]
      BY <2>1, <2>2, SumChanges
    <2>. QED
      BY <2>3 DEF D
  <1>11. Sum(H, 1..n) + F[g] = Sum(F, 1..n) + H[g]
    <2>. DEFINE D == 1..n
    <2>1. IsFiniteSet(D)
      BY <1>3, FS_Interval
    <2>2. NaturalOn(F, D) /\ NaturalOn(H, D) /\ g \in D /\ \A k \in D \ {g} : H[k] = F[k]
      BY <1>3, <1>4, <1>7, <1>9
    <2>. HIDE DEF D
    <2>3. Sum(H, D) + F[g] = Sum(F, D) + H[g]
      BY <2>1, <2>2, SumChanges
    <2>. QED
      BY <2>3 DEF D
  <1>12. Total(f) = Total(h) + cost
    BY <1>1, <1>2, <1>5, <1>10
  <1>13. OpenIn(gs, P) = OpenIn(gs, Q) + cost
    <2>1. /\ OpenIn(gs, P) \in Nat /\ OpenIn(gs, Q) \in Nat /\ cost \in Nat
          /\ Total(f) \in Nat /\ Total(h) \in Nat
      BY <1>1, <1>2, <1>3, <1>4, <1>5
    <2>2. OpenIn(gs, Q) + Total(f) = OpenIn(gs, P) + Total(h)
      BY <1>3, <1>4, <1>8, <1>11
    <2>. QED
      BY <1>12, <2>1, <2>2
  <1>. QED
    BY <1>5, <1>13 DEF Q, cost

\* A group is added, and none of its planchets is paid.
LEMMA OneMoreGroup ==
  ASSUME NEW gs \in Groups, NEW plan \in Seq(Costs), NEW P,
         \A i \in DOMAIN plan : <<Len(gs) + 1, i>> \notin P
  PROVE  /\ Append(gs, [costs |-> plan, withdrawn |-> {}]) \in Groups
         /\ OpenIn(Append(gs, [costs |-> plan, withdrawn |-> {}]), P)
              = OpenIn(gs, P) + Total(plan)
  <1>. DEFINE new == [costs |-> plan, withdrawn |-> {}]
              hs == Append(gs, new)
              n == Len(gs)
              F == OpenSums(gs, P)
              H == OpenSums(hs, P)
  <1>1. n \in Nat /\ DOMAIN gs = 1..n /\ DOMAIN F = 1..n
    BY OpenTyped
  <1>2. hs \in Groups
    <2>1. new \in [costs: Seq(Costs), withdrawn: SUBSET Nat]
      OBVIOUS
    <2>. HIDE DEF new
    <2>. QED
      BY <2>1 DEF Groups
  <1>3. /\ DOMAIN hs = 1..(n + 1) /\ hs[n + 1].costs = plan
        /\ \A k \in 1..n : hs[k] = gs[k]
    <2>. HIDE DEF new
    <2>1. DOMAIN hs = 1..(n + 1) /\ hs[n + 1] = new /\ \A k \in 1..n : hs[k] = gs[k]
      BY DEF Groups
    <2>. QED
      BY <2>1 DEF new
  <1>4. DOMAIN H = 1..(n + 1) /\ NaturalOn(H, 1..(n + 1))
    <2>1. Len(hs) = n + 1
      BY <1>1 DEF Groups
    <2>. HIDE DEF hs
    <2>. QED
      BY <1>2, <2>1, OpenTyped
  <1>. HIDE DEF hs
  <1>5. \A k \in 1..n : H[k] = F[k]
    <2>1. ASSUME NEW k \in 1..n
          PROVE  OpenOf(hs, P, k) = OpenOf(gs, P, k)
      BY <1>3 DEF OpenOf
    <2>. QED
      BY <1>1, <1>3, <2>1 DEF OpenSums
  <1>6. H[n + 1] = Total(plan)
    <2>1. OpenOf(hs, P, n + 1) = [i \in DOMAIN plan |-> plan[i]]
      BY <1>3 DEF OpenOf
    <2>2. plan = [i \in DOMAIN plan |-> plan[i]]
      OBVIOUS
    <2>3. n + 1 \in DOMAIN hs
      BY <1>1, <1>3
    <2>. QED
      BY <2>1, <2>2, <2>3 DEF OpenSums
  <1>. HIDE DEF H, F, n
  <1>7. Total(H) = Total(F) + H[n + 1]
    BY <1>1, <1>4, <1>5, TotalOfOneMore
  <1>8. OpenIn(hs, P) = OpenIn(gs, P) + Total(plan)
    BY <1>6, <1>7 DEF OpenIn, H, F
  <1>. QED
    BY <1>2, <1>8 DEF hs

\* One more transaction.
LEMMA LedgerWithMore ==
  ASSUME LedgerOK, NEW x \in Entries
  PROVE  /\ Append(ledger, x) \in Seq(Entries)
         /\ Len(Append(ledger, x)) = Len(ledger) + 1
         /\ DOMAIN Append(ledger, x) = 1..(Len(ledger) + 1)
         /\ Append(ledger, x)[Len(ledger) + 1] = x
         /\ \A j \in 1..Len(ledger) : Append(ledger, x)[j] = ledger[j]
         /\ Paid(Append(ledger, x)) = Paid(ledger) \cup {x.coin}
         /\ Credits(Append(ledger, x))
              = Credits(ledger) + (IF x.type = "credit" THEN x.amount ELSE 0)
         /\ Debits(Append(ledger, x))
              = Debits(ledger) + (IF x.type = "withdraw" THEN x.amount ELSE 0)
  <1>. DEFINE n == Len(ledger)
              u == Append(ledger, x)
  <1>1. ledger \in Seq(Entries) /\ n \in Nat /\ DOMAIN ledger = 1..n
    BY DEF LedgerOK
  <1>2. u \in Seq(Entries) /\ Len(u) = n + 1 /\ DOMAIN u = 1..(n + 1) /\ u[n + 1] = x
        /\ \A j \in 1..n : u[j] = ledger[j]
    BY <1>1
  <1>. HIDE DEF u, n
  <1>3. 1..(n + 1) = 1..n \cup {n + 1}
    BY <1>1
  <1>4. Paid(u) = Paid(ledger) \cup {x.coin}
    BY <1>1, <1>2, <1>3 DEF Paid
  <1>5. \A j \in 1..(n + 1) : u[j].amount \in Nat
    <2>1. \A j \in 1..(n + 1) : u[j] \in Entries
      BY <1>2
    <2>. QED
      BY <2>1 DEF Entries
  <1>6. Credits(u) = Credits(ledger) + (IF x.type = "credit" THEN x.amount ELSE 0)
    <2>. DEFINE f == CreditAmounts(u)
                h == CreditAmounts(ledger)
    <2>1. DOMAIN f = 1..(n + 1) /\ NaturalOn(f, 1..(n + 1))
      BY <1>2, <1>5 DEF CreditAmounts, NaturalOn
    <2>2. DOMAIN h = 1..n /\ \A i \in 1..n : f[i] = h[i]
      BY <1>1, <1>2, <1>3 DEF CreditAmounts
    <2>3. f[n + 1] = IF x.type = "credit" THEN x.amount ELSE 0
      BY <1>2, <1>3 DEF CreditAmounts
    <2>4. Credits(u) = Total(f) /\ Credits(ledger) = Total(h)
      BY DEF Credits, CreditAmounts
    <2>. HIDE DEF f, h
    <2>5. Total(f) = Total(h) + f[n + 1]
      BY <1>1, <2>1, <2>2, TotalOfOneMore
    <2>. QED
      BY <2>3, <2>4, <2>5
  <1>7. Debits(u) = Debits(ledger) + (IF x.type = "withdraw" THEN x.amount ELSE 0)
    <2>. DEFINE f == DebitAmounts(u)
                h == DebitAmounts(ledger)
    <2>1. DOMAIN f = 1..(n + 1) /\ NaturalOn(f, 1..(n + 1))
      BY <1>2, <1>5 DEF DebitAmounts, NaturalOn
    <2>2. DOMAIN h = 1..n /\ \A i \in 1..n : f[i] = h[i]
      BY <1>1, <1>2, <1>3 DEF DebitAmounts
    <2>3. f[n + 1] = IF x.type = "withdraw" THEN x.amount ELSE 0
      BY <1>2, <1>3 DEF DebitAmounts
    <2>4. Debits(u) = Total(f) /\ Debits(ledger) = Total(h)
      BY DEF Debits, DebitAmounts
    <2>. HIDE DEF f, h
    <2>5. Total(f) = Total(h) + f[n + 1]
      BY <1>1, <2>1, <2>2, TotalOfOneMore
    <2>. QED
      BY <2>3, <2>4, <2>5
  <1>. QED
    BY <1>2, <1>4, <1>6, <1>7 DEF u, n

-----------------------------------------------------------------------------
(* The invariant, of the values of the variables                           *)

IsPlanchetIn(gs, coin) ==
  \E g \in DOMAIN gs : \E i \in DOMAIN gs[g].costs : coin = <<g, i>>
LedgerIn(l, gs) ==
  /\ l \in Seq(Entries)
  /\ \A j \in DOMAIN l :
       /\ l[j].id = j
       /\ l[j].type = "credit" => l[j].coin = <<>>
       /\ l[j].type = "withdraw" => IsPlanchetIn(gs, l[j].coin)
ReportOf(l, j) == [id |-> l[j].id, type |-> l[j].type, amount |-> l[j].amount]
ToldIn(l, item) ==
  \E j \in DOMAIN l : item.matched = ReportOf(l, j) /\ item.type = l[j].type
HistoryIn(l, s) ==
  /\ s \in Seq(Items)
  /\ \A i \in DOMAIN s : /\ s[i].type \in {"credit", "withdraw"}
                         /\ s[i].matched = Unmatched \/ ToldIn(l, s[i])
  /\ \A i, k \in DOMAIN s :
       s[i].matched.id = s[k].matched.id /\ s[i].matched # Unmatched => i = k
SeenIn(s, n) == s \in [Actors -> SeenThings] /\ \A a \in Actors : s[a].answer <= n
PlanchetKinds == [pc: {"idle", "asking", "signed"}, group: Nat, index: Nat]
PlanchetIn(q, gs) == q.pc = "idle" \/ IsPlanchetIn(gs, <<q.group, q.index>>)
PlanchetsIn(p, gs) ==
  p \in [Withdrawers -> PlanchetKinds] /\ \A w \in Withdrawers : PlanchetIn(p[w], gs)
SumsIn(l, gs, h) == /\ Debits(l) + OpenIn(gs, Paid(l)) <= Credits(l)
                    /\ Debits(l) + OpenIn(gs, Paid(l)) <= Taken(h)
ClaimsIn(l, gs, h, s, p, st) ==
  /\ gs \in Groups /\ LedgerIn(l, gs) /\ HistoryIn(l, h) /\ SeenIn(s, Len(l))
  /\ PlanchetsIn(p, gs)
  /\ st = "absent" => h = <<>>
  /\ SumsIn(l, gs, h)

LEMMA LedgerIs ==
  /\ LedgerOK <=> LedgerIn(ledger, groups)
  /\ LedgerOK' <=> LedgerIn(ledger', groups')
  BY DEF LedgerOK, LedgerIn, IsPlanchet, IsPlanchetIn

LEMMA HistoryIs ==
  ASSUME LedgerOK, NEW s
  PROVE  HistoryOK(s) <=> HistoryIn(ledger, s)
  <1>1. DOMAIN ledger = 1..Len(ledger)
    BY DEF LedgerOK
  <1>2. \A j \in DOMAIN ledger : Reported(Len(ledger))[j] = ReportOf(ledger, j)
    BY <1>1 DEF Reported, ReportOf
  <1>3. \A item : Told(item) <=> ToldIn(ledger, item)
    BY <1>2 DEF Told, ToldIn
  <1>. QED
    BY <1>3 DEF HistoryOK, HistoryIn

LEMMA HistoryIsNext ==
  ASSUME LedgerOK'
  PROVE  HistoryOK(history)' <=> HistoryIn(ledger', history')
  <1>1. DOMAIN ledger' = 1..Len(ledger')
    BY DEF LedgerOK
  <1>2. \A j \in DOMAIN ledger' : Reported(Len(ledger))'[j] = ReportOf(ledger', j)
    BY <1>1 DEF Reported, ReportOf
  <1>3. \A i : Told(history[i])' <=> ToldIn(ledger', history'[i])
    BY <1>2 DEF Told, ToldIn
  <1>. QED
    BY <1>3 DEF HistoryOK, HistoryIn

LEMMA PlanchetsAre ==
  /\ PlanchetsOK <=> PlanchetsIn(planchet, groups)
  /\ PlanchetsOK' <=> PlanchetsIn(planchet', groups')
  BY DEF PlanchetsOK, PlanchetsIn, PlanchetOK, PlanchetIn, IsPlanchet, IsPlanchetIn,
         PlanchetKinds

LEMMA ClaimsAre ==
  ASSUME ClaimsOK
  PROVE  ClaimsIn(ledger, groups, history, seen, planchet, status)
  <1>1. LedgerIn(ledger, groups) /\ PlanchetsIn(planchet, groups)
    BY LedgerIs, PlanchetsAre DEF ClaimsOK
  <1>2. HistoryIn(ledger, history)
    BY HistoryIs DEF ClaimsOK
  <1>3. SumsIn(ledger, groups, history)
    BY OpenIs DEF ClaimsOK, SumsIn
  <1>4. groups \in Groups /\ SeenIn(seen, Len(ledger))
    BY DEF ClaimsOK, GroupsOK, Groups, SeenOK, SeenIn
  <1>. QED
    BY <1>1, <1>2, <1>3, <1>4 DEF ClaimsOK, ClaimsIn

LEMMA ClaimsNext ==
  ASSUME ClaimsIn(ledger', groups', history', seen', planchet', status')
  PROVE  ClaimsOK'
  <1>1. LedgerOK' /\ PlanchetsOK'
    BY LedgerIs, PlanchetsAre DEF ClaimsIn
  <1>2. HistoryOK(history)'
    BY <1>1, HistoryIsNext DEF ClaimsIn
  <1>3. Open' = OpenIn(groups', Paid(ledger'))
    BY DEF Open, OpenIn, OpenSums, OpenOf, Paid
  <1>4. GroupsOK' /\ SeenOK'
    BY DEF ClaimsIn, GroupsOK, Groups, SeenOK, SeenIn
  <1>. QED
    BY <1>1, <1>2, <1>3, <1>4 DEF ClaimsOK, ClaimsIn, SumsIn

-----------------------------------------------------------------------------
(* Steps that leave the sums alone                                         *)

LEMMA QuietClaims ==
  ASSUME ClaimsOK, UNCHANGED <<ledger, groups, history, seen, planchet>>,
         status' = "absent" => status = "absent"
  PROVE  ClaimsOK'
  <1>1. ClaimsIn(ledger, groups, history, seen, planchet, status)
    BY ClaimsAre
  <1>2. ClaimsIn(ledger', groups', history', seen', planchet', status')
    BY <1>1 DEF ClaimsIn
  <1>. QED
    BY <1>2, ClaimsNext

LEMMA SeenClaims ==
  ASSUME ClaimsOK, UNCHANGED <<ledger, groups, history, planchet>>,
         status' = "absent" => status = "absent",
         NEW a \in Actors, NEW t \in SeenThings, t.answer <= Len(ledger),
         seen' = [seen EXCEPT ![a] = t]
  PROVE  ClaimsOK'
  <1>1. ClaimsIn(ledger, groups, history, seen, planchet, status)
    BY ClaimsAre
  <1>2. SeenIn(seen', Len(ledger))
    BY <1>1 DEF ClaimsIn, SeenIn
  <1>3. ClaimsIn(ledger', groups', history', seen', planchet', status')
    BY <1>1, <1>2 DEF ClaimsIn
  <1>. QED
    BY <1>3, ClaimsNext

LEMMA NothingSeenFits ==
  NothingSeen \in SeenThings /\ NothingSeen.answer = 0
  <1>1. <<>> \in Seq(Costs)
    OBVIOUS
  <1>. QED
    BY <1>1 DEF NothingSeen, SeenThings, Statuses

LEMMA ForgetClaims ==
  ASSUME ClaimsOK, UNCHANGED <<ledger, groups, history, planchet>>,
         status' = "absent" => status = "absent", NEW a \in Actors, Forget(a)
  PROVE  ClaimsOK'
  <1>1. 0 <= Len(ledger)
    BY DEF ClaimsOK, LedgerOK
  <1>2. seen' = [seen EXCEPT ![a] = NothingSeen]
    BY DEF Forget
  <1>. QED
    BY <1>1, <1>2, NothingSeenFits, SeenClaims

\* What an activity has read, after it has read something more.
LEMMA SeenHere ==
  ASSUME ClaimsOK, NEW a \in Actors
  PROVE  seen[a] \in SeenThings /\ seen[a].answer \in Nat /\ seen[a].answer <= Len(ledger)
         /\ seen[a].plan \in Seq(Costs)
         /\ DOMAIN seen = Actors
         /\ Len(ledger) \in Nat
  <1>1. seen \in [Actors -> SeenThings] /\ seen[a].answer <= Len(ledger)
    BY DEF ClaimsOK, SeenOK
  <1>2. seen[a] \in SeenThings
    BY <1>1
  <1>3. Len(ledger) \in Nat
    BY DEF ClaimsOK, LedgerOK
  <1>. QED
    BY <1>1, <1>2, <1>3 DEF SeenThings

LEMMA PlanchetMoves ==
  ASSUME ClaimsOK, UNCHANGED <<ledger, groups, history, seen, status>>,
         NEW w \in Withdrawers, NEW q \in PlanchetKinds, PlanchetIn(q, groups),
         planchet' = [planchet EXCEPT ![w] = q]
  PROVE  ClaimsOK'
  <1>1. ClaimsIn(ledger, groups, history, seen, planchet, status)
    BY ClaimsAre
  <1>2. PlanchetsIn(planchet', groups)
    BY <1>1 DEF ClaimsIn, PlanchetsIn
  <1>3. ClaimsIn(ledger', groups', history', seen', planchet', status')
    BY <1>1, <1>2 DEF ClaimsIn
  <1>. QED
    BY <1>3, ClaimsNext

-----------------------------------------------------------------------------
(* The actions on the reserve                                              *)

LEMMA NothingTaken == Taken(<<>>) = 0
  <1>1. [i \in DOMAIN <<>> |-> Claim(<<>>[i])] = <<>>
    OBVIOUS
  <1>. QED
    BY <1>1, NothingTotal DEF Taken

LEMMA CreateReserveClaims ==
  ASSUME ClaimsOK, NEW c \in Creators, CreateReserve(c)
  PROVE  ClaimsOK'
  <1>1. UNCHANGED <<ledger, groups, seen, planchet>>
    BY DEF CreateReserve, outside
  <1>2. CASE status # "absent" /\ UNCHANGED <<status, bankUrl, history>>
    BY <1>1, <1>2, QuietClaims
  <1>3. CASE /\ status = "absent"
             /\ status' = IF bankUrl' THEN "REGISTERING_BANK" ELSE "UNCONFIRMED"
             /\ history' = <<Expect("credit", Expected)>>
    <2>. DEFINE x == Expect("credit", Expected)
                h == <<x>>
    <2>1. ClaimsIn(ledger, groups, history, seen, planchet, status)
      BY ClaimsAre
    <2>2. Debits(ledger) + OpenIn(groups, Paid(ledger)) <= 0
      BY <1>3, <2>1, NothingTaken DEF ClaimsIn, SumsIn
    <2>3. x \in Items /\ x.type = "credit" /\ x.matched = Unmatched
      <3>1. Expected \in Nat
        BY AmountsAssumption
      <3>. QED
        BY <3>1 DEF Expect, Items, Types
    <2>. HIDE DEF x
    <2>4. h \in Seq(Items) /\ DOMAIN h = {1} /\ h[1] = x
      BY <2>3
    <2>. HIDE DEF h
    <2>5. HistoryIn(ledger, h)
      BY <2>3, <2>4 DEF HistoryIn
    <2>6. Taken(h) \in Nat
      <3>1. LedgerOK
        BY DEF ClaimsOK
      <3>. QED
        BY <2>5, <3>1, HistoryIs, HistoryTyped
    <2>7. SumsIn(ledger, groups, h)
      <3>1. Debits(ledger) \in Nat /\ LedgerOK
        BY LedgerTyped DEF ClaimsOK
      <3>2. OpenIn(groups, Paid(ledger)) \in Nat
        BY <2>1, OpenTyped DEF ClaimsIn
      <3>. QED
        BY <2>1, <2>2, <2>6, <3>1, <3>2 DEF ClaimsIn, SumsIn
    <2>8. history' = h /\ status' # "absent"
      BY <1>3 DEF h, x
    <2>9. ClaimsIn(ledger', groups', history', seen', planchet', status')
      BY <1>1, <2>1, <2>5, <2>7, <2>8 DEF ClaimsIn
    <2>. QED
      BY <2>9, ClaimsNext
  <1>. QED
    BY <1>2, <1>3 DEF CreateReserve

LEMMA UpdateReserveClaims ==
  ASSUME ClaimsOK, NEW a \in Actors, UpdateReserve(a)
  PROVE  ClaimsOK'
  <1>. DEFINE n == seen[a].answer
  <1>1. Forget(a) /\ UNCHANGED <<ledger, groups, planchet>>
    BY DEF UpdateReserve, outside
  <1>2. CASE UNCHANGED <<status, history>>
    BY <1>1, <1>2, ForgetClaims
  <1>3. CASE /\ history' = Reconcile(history, Reported(n))
             /\ status' = IF HasNews(history, Reported(n)) THEN "WITHDRAWING" ELSE "DORMANT"
    <2>1. ClaimsIn(ledger, groups, history, seen, planchet, status)
      BY ClaimsAre
    <2>2. LedgerOK /\ HistoryOK(history) /\ n \in Nat /\ n <= Len(ledger) /\ Len(ledger) \in Nat
      BY SeenHere DEF ClaimsOK
    <2>. HIDE DEF n
    <2>3. /\ HistoryOK(history') /\ Taken(history) <= Taken(history')
          /\ Taken(history) \in Nat /\ Taken(history') \in Nat
      BY <1>3, <2>2, ReconcileKeeps
    <2>4. HistoryIn(ledger, history')
      BY <2>2, <2>3, HistoryIs
    <2>5. SumsIn(ledger, groups, history')
      <3>1. Debits(ledger) \in Nat
        BY <2>2, LedgerTyped
      <3>2. OpenIn(groups, Paid(ledger)) \in Nat
        BY <2>1, OpenTyped DEF ClaimsIn
      <3>. QED
        BY <2>1, <2>3, <3>1, <3>2 DEF ClaimsIn, SumsIn
    <2>6. SeenIn(seen', Len(ledger))
      <3>1. seen' = [seen EXCEPT ![a] = NothingSeen]
        BY <1>1 DEF Forget
      <3>. QED
        BY <2>1, <2>2, <3>1, NothingSeenFits DEF ClaimsIn, SeenIn
    <2>7. ClaimsIn(ledger', groups', history', seen', planchet', status')
      BY <1>1, <1>3, <2>1, <2>4, <2>5, <2>6 DEF ClaimsIn
    <2>. QED
      BY <2>7, ClaimsNext
  <1>. QED
    BY <1>2, <1>3 DEF UpdateReserve

LEMMA DepleteReserveClaims ==
  ASSUME ClaimsOK, NEW a \in Actors, DepleteReserve(a)
  PROVE  ClaimsOK'
  <1>. DEFINE plan == DenomList(Unclaimed(history))
              t == [seen[a] EXCEPT !.plan = plan]
  <1>1. UNCHANGED <<ledger, groups, history, planchet, status>>
    BY DEF DepleteReserve, db, outside
  <1>2. CASE UNCHANGED seen
    BY <1>1, <1>2, QuietClaims
  <1>3. CASE seen' = [seen EXCEPT ![a].plan = plan]
    <2>1. plan \in Seq(Costs)
      <3>1. Unclaimed(history) \in Nat
        BY UnclaimedIsThere DEF ClaimsOK
      <3>. QED
        BY <3>1, NothingMore
    <2>. HIDE DEF plan
    <2>2. t \in SeenThings /\ t.answer = seen[a].answer
      BY <2>1, SeenHere DEF SeenThings
    <2>3. seen' = [seen EXCEPT ![a] = t]
      BY <1>3
    <2>. HIDE DEF t
    <2>4. t.answer <= Len(ledger)
      BY <2>2, SeenHere
    <2>. QED
      BY <1>1, <2>2, <2>3, <2>4, SeenClaims
  <1>. QED
    BY <1>2, <1>3 DEF DepleteReserve

\* The items for the planchets of a plan.
LEMMA PlanItems ==
  ASSUME LedgerOK, NEW plan \in Seq(Costs)
  PROVE  /\ HistoryOK([i \in DOMAIN plan |-> Expect("withdraw", plan[i])])
         /\ Taken([i \in DOMAIN plan |-> Expect("withdraw", plan[i])]) = Total(plan)
         /\ \A i \in DOMAIN plan : Expect("withdraw", plan[i]).matched = Unmatched
  <1>. DEFINE item(i) == Expect("withdraw", plan[i])
              h == [i \in DOMAIN plan |-> item(i)]
  <1>1. /\ Len(plan) \in Nat /\ DOMAIN plan = 1..Len(plan)
        /\ \A i \in 1..Len(plan) : plan[i] \in Nat
    BY CostsTyped
  <1>2. \A i \in DOMAIN plan : /\ item(i) \in Items /\ item(i).type = "withdraw"
                               /\ item(i).matched = Unmatched /\ item(i).expected = plan[i]
    BY <1>1 DEF Expect, Items, Types
  <1>. HIDE DEF item
  <1>3. h \in Seq(Items) /\ DOMAIN h = DOMAIN plan /\ \A i \in DOMAIN plan : h[i] = item(i)
    BY <1>1, <1>2
  <1>. HIDE DEF h
  <1>4. HistoryOK(h)
    BY <1>2, <1>3 DEF HistoryOK
  <1>5. [i \in DOMAIN h |-> Claim(h[i])] = plan
    <2>1. \A i \in DOMAIN plan : Claim(h[i]) = plan[i]
      BY <1>2, <1>3 DEF Claim
    <2>2. plan = [i \in DOMAIN plan |-> plan[i]]
      OBVIOUS
    <2>. QED
      BY <1>3, <2>1, <2>2
  <1>6. Taken(h) = Total(plan)
    BY <1>5 DEF Taken
  <1>. QED
    BY <1>2, <1>4, <1>6 DEF h, item

LEMMA CreateGroupClaims ==
  ASSUME ClaimsOK, NEW a \in Actors, CreateGroup(a)
  PROVE  ClaimsOK'
  <1>. DEFINE plan == seen[a].plan
              h == [i \in DOMAIN plan |-> Expect("withdraw", plan[i])]
              t == [NothingSeen EXCEPT !.group = Len(groups')]
  <1>1. UNCHANGED <<ledger, planchet>>
    BY DEF CreateGroup, outside
  <1>2. CASE UNCHANGED <<status, history, groups>> /\ Forget(a)
    BY <1>1, <1>2, ForgetClaims
  <1>3. CASE /\ MayCreateGroup(a)
             /\ history' = history \o h
             /\ groups' = Append(groups, [costs |-> plan, withdrawn |-> {}])
             /\ status' = "DORMANT"
             /\ seen' = [seen EXCEPT ![a] = t]
    <2>1. ClaimsIn(ledger, groups, history, seen, planchet, status)
      BY ClaimsAre
    <2>2. LedgerOK /\ HistoryOK(history) /\ Len(ledger) \in Nat
      BY SeenHere DEF ClaimsOK
    <2>3. plan \in Seq(Costs)
      BY SeenHere
    <2>. HIDE DEF plan
    <2>4. /\ HistoryOK(h) /\ Taken(h) = Total(plan)
          /\ \A i \in DOMAIN h : h[i].matched = Unmatched
      BY <2>2, <2>3, PlanItems
    <2>. HIDE DEF h
    <2>5. HistoryOK(history') /\ Taken(history') = Taken(history) + Total(plan)
      BY <1>3, <2>2, <2>4, BothOK
    <2>6. HistoryIn(ledger, history')
      BY <2>2, <2>5, HistoryIs
    <2>7. groups \in Groups /\ LedgerIn(ledger, groups)
      BY <2>1 DEF ClaimsIn
    <2>8. Len(groups) \in Nat /\ DOMAIN groups = 1..Len(groups)
      BY <2>7, OpenTyped
    <2>9. \A i \in DOMAIN plan : <<Len(groups) + 1, i>> \notin Paid(ledger)
      <3>1. ASSUME NEW i, NEW j \in DOMAIN ledger, ledger[j].coin = <<Len(groups) + 1, i>>
            PROVE  FALSE
        <4>1. ledger[j] \in Entries
          BY <2>7 DEF LedgerIn
        <4>2. ledger[j].type \in {"credit", "withdraw"}
          BY <4>1 DEF Entries
        <4>3. CASE ledger[j].type = "credit"
          <5>. HIDE DEF t
          <5>1. ledger[j].coin = <<>>
            BY ONLY <2>7, j \in DOMAIN ledger, <4>3 DEF LedgerIn
          <5>2. <<Len(groups) + 1, i>> # <<>>
            OBVIOUS
          <5>. QED
            BY ONLY <3>1, <5>1, <5>2
        <4>4. CASE ledger[j].type = "withdraw"
          <5>1. PICK g \in DOMAIN groups : \E k : <<Len(groups) + 1, i>> = <<g, k>>
            BY <2>7, <3>1, <4>4 DEF LedgerIn, IsPlanchetIn
          <5>2. g = Len(groups) + 1
            BY <5>1
          <5>. QED
            BY <2>8, <5>2
        <4>. QED
          BY <4>2, <4>3, <4>4
      <3>. QED
        BY <3>1 DEF Paid
    <2>10. /\ groups' \in Groups
           /\ OpenIn(groups', Paid(ledger)) = OpenIn(groups, Paid(ledger)) + Total(plan)
      BY <1>3, <2>3, <2>7, <2>9, OneMoreGroup
    <2>11. /\ Len(groups') = Len(groups) + 1 /\ DOMAIN groups \subseteq DOMAIN groups'
           /\ \A g \in DOMAIN groups : groups'[g] = groups[g]
      BY <1>3, <2>8 DEF Groups
    <2>12. \A coin : IsPlanchetIn(groups, coin) => IsPlanchetIn(groups', coin)
      BY <2>11 DEF IsPlanchetIn
    <2>13. LedgerIn(ledger, groups') /\ PlanchetsIn(planchet, groups')
      BY <2>1, <2>12 DEF ClaimsIn, LedgerIn, PlanchetsIn, PlanchetIn
    <2>14. SumsIn(ledger, groups', history')
      <3>1. Debits(ledger) \in Nat /\ Credits(ledger) \in Nat
        BY <2>2, LedgerTyped
      <3>2. OpenIn(groups, Paid(ledger)) \in Nat
        BY <2>7, OpenTyped
      <3>3. Total(plan) \in Nat
        BY <2>4, HistoryTyped
      <3>4. /\ Unclaimed(history) \in Nat /\ Taken(history) \in Nat
            /\ Unclaimed(history) > 0 => Taken(history) + Unclaimed(history) <= Credits(ledger)
        BY <2>2, UnclaimedIsThere
      <3>5. Total(plan) <= Unclaimed(history)
        BY <1>3, <3>3, <3>4 DEF MayCreateGroup, plan
      <3>6. SumsIn(ledger, groups, history)
        BY <2>1 DEF ClaimsIn
      <3>. QED
        BY <2>5, <2>10, <3>1, <3>2, <3>3, <3>4, <3>5, <3>6 DEF SumsIn
    <2>15. SeenIn(seen', Len(ledger))
      <3>1. t \in SeenThings /\ t.answer = 0
        <4>1. Len(groups') \in Nat
          BY <2>8, <2>11
        <4>. QED
          BY <4>1, NothingSeenFits DEF SeenThings
      <3>. HIDE DEF t
      <3>2. seen' = [seen EXCEPT ![a] = t]
        BY <1>3
      <3>. QED
        BY <2>1, <2>2, <3>1, <3>2 DEF ClaimsIn, SeenIn
    <2>16. ClaimsIn(ledger', groups', history', seen', planchet', status')
      BY <1>1, <1>3, <2>6, <2>10, <2>13, <2>14, <2>15 DEF ClaimsIn
    <2>. QED
      BY <2>16, ClaimsNext
  <1>. QED
    BY <1>2, <1>3 DEF CreateGroup

-----------------------------------------------------------------------------
(* Planchets, transfers and restarts                                       *)

LEMMA PlanchetHere ==
  ASSUME ClaimsOK, NEW w \in Withdrawers
  PROVE  /\ planchet[w] \in PlanchetKinds /\ PlanchetIn(planchet[w], groups)
         /\ planchet[w].pc # "idle" =>
              /\ planchet[w].group \in DOMAIN groups
              /\ planchet[w].index \in DOMAIN groups[planchet[w].group].costs
         /\ planchet[w].index \in Nat
  <1>1. planchet[w] \in PlanchetKinds /\ PlanchetIn(planchet[w], groups)
    BY ClaimsAre DEF ClaimsIn, PlanchetsIn
  <1>2. ASSUME planchet[w].pc # "idle"
        PROVE  /\ planchet[w].group \in DOMAIN groups
               /\ planchet[w].index \in DOMAIN groups[planchet[w].group].costs
    BY <1>1, <1>2 DEF PlanchetIn, IsPlanchetIn
  <1>. QED
    BY <1>1, <1>2 DEF PlanchetKinds

LEMMA NoPlanchetFits ==
  NoPlanchet \in PlanchetKinds /\ \A gs : PlanchetIn(NoPlanchet, gs)
  BY DEF NoPlanchet, PlanchetKinds, PlanchetIn

LEMMA StartPlanchetClaims ==
  ASSUME ClaimsOK, NEW w \in Withdrawers, StartPlanchet(w)
  PROVE  ClaimsOK'
  <1>1. UNCHANGED <<ledger, groups, history, seen, status>>
    BY DEF StartPlanchet, db, outside
  <1>. DEFINE asking(g, i) == [pc |-> "asking", group |-> g, index |-> i]
  <1>0. PICK g \in DOMAIN groups :
          \E i \in DOMAIN groups[g].costs : planchet' = [planchet EXCEPT ![w] = asking(g, i)]
    BY DEF StartPlanchet
  <1>2. PICK i \in DOMAIN groups[g].costs : planchet' = [planchet EXCEPT ![w] = asking(g, i)]
    BY <1>0
  <1>. DEFINE q == [pc |-> "asking", group |-> g, index |-> i]
  <1>3. groups \in Groups
    BY ClaimsAre DEF ClaimsIn
  <1>4. g \in Nat /\ i \in Nat
    <2>1. DOMAIN groups = 1..Len(groups)
      BY <1>3, OpenTyped
    <2>2. DOMAIN groups[g].costs = 1..Len(groups[g].costs)
      BY <1>3, OpenOfTyped
    <2>. QED
      BY <2>1, <2>2
  <1>5. q \in PlanchetKinds /\ PlanchetIn(q, groups)
    BY <1>2, <1>4 DEF PlanchetKinds, PlanchetIn, IsPlanchetIn
  <1>6. planchet' = [planchet EXCEPT ![w] = q]
    BY <1>2
  <1>. HIDE DEF q
  <1>. QED
    BY <1>1, <1>5, <1>6, PlanchetMoves

LEMMA PlanchetFailsClaims ==
  ASSUME ClaimsOK, NEW w \in Withdrawers, PlanchetFails(w)
  PROVE  ClaimsOK'
  <1>1. /\ UNCHANGED <<ledger, groups, history, seen, status>>
        /\ planchet' = [planchet EXCEPT ![w] = NoPlanchet]
    BY DEF PlanchetFails, db, outside
  <1>. QED
    BY <1>1, NoPlanchetFits, PlanchetMoves

LEMMA RecordCoinClaims ==
  ASSUME ClaimsOK, NEW w \in Withdrawers, RecordCoin(w)
  PROVE  ClaimsOK'
  <1>. DEFINE g == planchet[w].group
              i == planchet[w].index
  <1>1. /\ planchet[w].pc = "signed" /\ UNCHANGED <<ledger, history, seen, status>>
        /\ planchet' = [planchet EXCEPT ![w] = NoPlanchet]
    BY DEF RecordCoin, outside
  <1>2. CASE UNCHANGED groups
    BY <1>1, <1>2, NoPlanchetFits, PlanchetMoves
  <1>3. CASE groups' = [groups EXCEPT ![g].withdrawn = @ \cup {i}]
    <2>1. ClaimsIn(ledger, groups, history, seen, planchet, status)
      BY ClaimsAre
    <2>2. groups \in Groups /\ g \in DOMAIN groups /\ i \in Nat
      BY <1>1, <2>1, PlanchetHere DEF ClaimsIn
    <2>. DEFINE Group == [costs: Seq(Costs), withdrawn: SUBSET Nat]
                new == [groups[g] EXCEPT !.withdrawn = @ \cup {i}]
    <2>3. groups \in Seq(Group) /\ groups' = [groups EXCEPT ![g] = new]
      BY <1>3, <2>2 DEF Groups
    <2>4. groups[g] \in Group
      <3>. HIDE DEF Group
      <3>1. \A s \in Seq(Group) : \A k \in DOMAIN s : s[k] \in Group
        OBVIOUS
      <3>. QED
        BY <2>2, <2>3, <3>1
    <2>5. new \in Group /\ new.costs = groups[g].costs
      BY <2>2, <2>4
    <2>. HIDE DEF new, Group, g, i
    <2>6. /\ groups' \in Seq(Group) /\ DOMAIN groups' = DOMAIN groups
          /\ \A k \in DOMAIN groups : groups'[k].costs = groups[k].costs
      BY <2>2, <2>3, <2>5
    <2>7. groups' \in Groups
      BY <2>6 DEF Groups, Group
    <2>8. OpenIn(groups', Paid(ledger)) = OpenIn(groups, Paid(ledger))
      BY <2>6, OpenAlike
    <2>9. \A coin : IsPlanchetIn(groups, coin) => IsPlanchetIn(groups', coin)
      BY <2>6 DEF IsPlanchetIn
    <2>10. LedgerIn(ledger, groups')
      BY <2>1, <2>9 DEF ClaimsIn, LedgerIn
    <2>11. PlanchetsIn(planchet', groups')
      <3>1. PlanchetsIn(planchet, groups')
        BY <2>1, <2>9 DEF ClaimsIn, PlanchetsIn, PlanchetIn
      <3>. QED
        BY <1>1, <3>1, NoPlanchetFits DEF PlanchetsIn
    <2>12. ClaimsIn(ledger', groups', history', seen', planchet', status')
      BY <1>1, <2>1, <2>7, <2>8, <2>10, <2>11 DEF ClaimsIn, SumsIn
    <2>. QED
      BY <2>12, ClaimsNext
  <1>. QED
    BY <1>2, <1>3 DEF RecordCoin

\* What was told stays told when the exchange books something more.
LEMMA LedgerGrows ==
  ASSUME ClaimsOK, NEW x \in Entries, x.id = Len(ledger) + 1,
         x.type = "credit" => x.coin = <<>>,
         x.type = "withdraw" => IsPlanchetIn(groups, x.coin)
  PROVE  /\ LedgerIn(Append(ledger, x), groups)
         /\ HistoryIn(Append(ledger, x), history)
         /\ SeenIn(seen, Len(Append(ledger, x)))
  <1>. DEFINE u == Append(ledger, x)
              n == Len(ledger)
  <1>1. LedgerOK /\ ClaimsIn(ledger, groups, history, seen, planchet, status)
    BY ClaimsAre DEF ClaimsOK
  <1>2. n \in Nat /\ DOMAIN ledger = 1..n
    BY <1>1 DEF LedgerOK
  <1>3. /\ u \in Seq(Entries) /\ Len(u) = n + 1 /\ DOMAIN u = 1..(n + 1) /\ u[n + 1] = x
        /\ \A j \in 1..n : u[j] = ledger[j]
    BY <1>1, LedgerWithMore
  <1>. HIDE DEF u, n
  <1>4. LedgerIn(u, groups)
    <2>1. \A j \in 1..n : /\ u[j].id = j
                          /\ u[j].type = "credit" => u[j].coin = <<>>
                          /\ u[j].type = "withdraw" => IsPlanchetIn(groups, u[j].coin)
      BY <1>1, <1>2, <1>3 DEF ClaimsIn, LedgerIn
    <2>2. x.id = n + 1
      BY DEF n
    <2>3. \A j \in 1..(n + 1) : j \in 1..n \/ j = n + 1
      BY <1>2
    <2>. QED
      BY <1>3, <2>1, <2>2, <2>3 DEF LedgerIn
  <1>5. \A item : ToldIn(ledger, item) => ToldIn(u, item)
    <2>1. \A j \in DOMAIN ledger : j \in DOMAIN u /\ u[j] = ledger[j]
      BY <1>2, <1>3
    <2>. QED
      BY <2>1 DEF ToldIn, ReportOf
  <1>6. HistoryIn(u, history)
    BY <1>1, <1>5 DEF ClaimsIn, HistoryIn
  <1>7. SeenIn(seen, Len(u))
    <2>1. SeenIn(seen, n)
      BY <1>1 DEF ClaimsIn, n
    <2>2. \A a \in Actors : seen[a].answer \in Nat
      BY <1>1, SeenHere
    <2>. QED
      BY <1>2, <1>3, <2>1, <2>2 DEF SeenIn
  <1>. QED
    BY <1>4, <1>6, <1>7 DEF u

\* What the exchange books.
CreditEntry == [id |-> Len(ledger) + 1, type |-> "credit",
                amount |-> Transfers[Arrived + 1], coin |-> <<>>]
CoinAsked(w) == <<planchet[w].group, planchet[w].index>>
CostAsked(w) == groups[planchet[w].group].costs[planchet[w].index]
DebitEntry(w) == [id |-> Len(ledger) + 1, type |-> "withdraw", amount |-> CostAsked(w),
                  coin |-> CoinAsked(w)]

LEMMA TransferIsEntry ==
  ASSUME ClaimsOK, TransferArrives
  PROVE  /\ CreditEntry \in Entries /\ CreditEntry.id = Len(ledger) + 1
         /\ CreditEntry.type = "credit" /\ CreditEntry.coin = <<>>
         /\ CreditEntry.amount \in Nat
  <1>. DEFINE x == CreditEntry
  <1>1. Arrived < Len(Transfers)
    BY DEF TransferArrives
  <1>2. LedgerOK /\ Len(ledger) \in Nat
    BY DEF ClaimsOK, LedgerOK
  <1>3. Arrived \in Nat
    <2>1. IsFiniteSet(DOMAIN ledger)
      BY <1>2, FS_Interval DEF LedgerOK
    <2>2. IsFiniteSet({i \in DOMAIN ledger : ledger[i].type = "credit"})
      BY <2>1, FS_Subset
    <2>. QED
      BY <2>2, FS_CardinalityType DEF Arrived
  <1>4. Transfers[Arrived + 1] \in Nat
    <2>1. Transfers \in Seq(Nat \ {0}) /\ Len(Transfers) \in Nat
      BY AmountsAssumption
    <2>2. Arrived + 1 \in 1..Len(Transfers)
      BY <1>1, <1>3, <2>1
    <2>3. DOMAIN Transfers = 1..Len(Transfers)
      BY <2>1
    <2>. DEFINE k == Arrived + 1
    <2>. HIDE DEF k
    <2>4. k \in DOMAIN Transfers
      BY <2>2, <2>3 DEF k
    <2>5. Transfers[k] \in Nat
      BY <2>1, <2>4
    <2>. QED
      BY <2>5 DEF k
  <1>5. x \in Entries /\ x.id = Len(ledger) + 1 /\ x.type = "credit" /\ x.coin = <<>>
        /\ x.amount \in Nat
    <2>. DEFINE am == Transfers[Arrived + 1]
                n == Len(ledger) + 1
    <2>1. am \in Nat /\ n \in Nat \ {0}
      BY <1>2, <1>4
    <2>2. x = [id |-> n, type |-> "credit", amount |-> am, coin |-> <<>>]
      BY DEF CreditEntry
    <2>3. x.amount = am
      BY <2>2
    <2>. HIDE DEF am, n, x
    <2>4. x.id = n /\ x.type = "credit" /\ x.coin = <<>> /\ x \in Entries
      BY <2>1, <2>2 DEF Entries
    <2>. QED
      BY <2>1, <2>3, <2>4 DEF n
  <1>. QED
    BY <1>5

LEMMA SigningIsEntry ==
  ASSUME ClaimsOK, NEW w \in Withdrawers, planchet[w].pc = "asking"
  PROVE  /\ DebitEntry(w) \in Entries /\ DebitEntry(w).id = Len(ledger) + 1
         /\ DebitEntry(w).type = "withdraw" /\ DebitEntry(w).coin = CoinAsked(w)
         /\ DebitEntry(w).amount = CostAsked(w) /\ CostAsked(w) \in Nat
  <1>. DEFINE g == planchet[w].group
              i == planchet[w].index
              cost == CostAsked(w)
              coin == CoinAsked(w)
              n == Len(ledger) + 1
  <1>1. groups \in Groups /\ g \in DOMAIN groups /\ i \in DOMAIN groups[g].costs /\ i \in Nat
    BY ClaimsAre, PlanchetHere DEF ClaimsIn
  <1>2. n \in Nat \ {0}
    BY DEF ClaimsOK, LedgerOK
  <1>3. cost \in Nat
    <2>. HIDE DEF g, i
    <2>1. groups[g].costs \in Seq(Costs)
      BY <1>1, OpenOfTyped
    <2>2. groups[g].costs[i] \in Nat
      <3>. DEFINE plan == groups[g].costs
      <3>1. plan \in Seq(Costs) /\ i \in DOMAIN plan
        BY <1>1, <2>1
      <3>. HIDE DEF plan
      <3>2. plan[i] \in Nat
        BY <3>1, CostsTyped
      <3>. QED
        BY <3>2 DEF plan
    <2>. QED
      BY <2>2 DEF CostAsked, g, i
  <1>4. coin \in (Nat \X Nat) \cup {<<>>}
    <2>1. g \in Nat
      BY <1>1, OpenTyped
    <2>. QED
      BY <1>1, <2>1 DEF CoinAsked
  <1>5. DebitEntry(w) = [id |-> n, type |-> "withdraw", amount |-> cost, coin |-> coin]
    BY DEF DebitEntry
  <1>. HIDE DEF cost, coin, n
  <1>6. DebitEntry(w) \in Entries
    BY <1>2, <1>3, <1>4, <1>5 DEF Entries
  <1>. QED
    BY <1>3, <1>5, <1>6 DEF cost, coin, n

LEMMA TransferArrivesClaims ==
  ASSUME ClaimsOK, TransferArrives
  PROVE  ClaimsOK'
  <1>. DEFINE x == CreditEntry
  <1>1. /\ UNCHANGED <<groups, history, seen, planchet, status>>
        /\ ledger' = Append(ledger, x)
    BY DEF TransferArrives, CreditEntry, db, local
  <1>2. ClaimsIn(ledger, groups, history, seen, planchet, status)
        /\ LedgerOK /\ Len(ledger) \in Nat
    BY ClaimsAre DEF ClaimsOK, LedgerOK
  <1>5. x \in Entries /\ x.id = Len(ledger) + 1 /\ x.type = "credit" /\ x.coin = <<>>
        /\ x.amount \in Nat
    BY TransferIsEntry
  <1>. HIDE DEF x
  <1>6. /\ LedgerIn(ledger', groups') /\ HistoryIn(ledger', history')
        /\ SeenIn(seen', Len(ledger'))
    BY <1>1, <1>5, LedgerGrows
  <1>7. /\ Paid(ledger') = Paid(ledger) \cup {<<>>}
        /\ Credits(ledger') = Credits(ledger) + x.amount
        /\ Debits(ledger') = Debits(ledger) + 0
    BY <1>1, <1>2, <1>5, LedgerWithMore
  <1>8. OpenIn(groups', Paid(ledger')) = OpenIn(groups, Paid(ledger))
    <2>1. \A g, i : <<g, i>> \in Paid(ledger) <=> <<g, i>> \in Paid(ledger')
      BY <1>7
    <2>. QED
      BY <1>1, <2>1, OpenAlike
  <1>9. SumsIn(ledger', groups', history')
    <2>1. Debits(ledger) \in Nat /\ Credits(ledger) \in Nat
      BY <1>2, LedgerTyped
    <2>2. OpenIn(groups, Paid(ledger)) \in Nat /\ SumsIn(ledger, groups, history)
      BY <1>2, OpenTyped DEF ClaimsIn
    <2>. QED
      BY <1>1, <1>5, <1>7, <1>8, <2>1, <2>2 DEF SumsIn
  <1>10. ClaimsIn(ledger', groups', history', seen', planchet', status')
    BY <1>1, <1>2, <1>6, <1>9 DEF ClaimsIn
  <1>. QED
    BY <1>10, ClaimsNext

LEMMA ExchangeSignsClaims ==
  ASSUME ClaimsOK, NEW w \in Withdrawers, ExchangeSigns(w)
  PROVE  ClaimsOK'
  <1>. DEFINE g == planchet[w].group
              i == planchet[w].index
              coin == CoinAsked(w)
              cost == CostAsked(w)
              q == [planchet[w] EXCEPT !.pc = "signed"]
              x == DebitEntry(w)
  <1>1. /\ planchet[w].pc = "asking" /\ UNCHANGED <<groups, history, seen, status>>
        /\ planchet' = [planchet EXCEPT ![w] = q]
    BY DEF ExchangeSigns, db
  <1>2. /\ q \in PlanchetKinds /\ PlanchetIn(q, groups)
        /\ g \in DOMAIN groups /\ i \in DOMAIN groups[g].costs /\ i \in Nat
        /\ IsPlanchetIn(groups, coin)
    <2>1. /\ planchet[w] \in PlanchetKinds /\ PlanchetIn(planchet[w], groups)
          /\ g \in DOMAIN groups /\ i \in DOMAIN groups[g].costs /\ i \in Nat
      BY <1>1, PlanchetHere
    <2>2. q \in PlanchetKinds /\ q.group = g /\ q.index = i
      BY <2>1 DEF PlanchetKinds
    <2>3. IsPlanchetIn(groups, coin)
      BY <2>1 DEF IsPlanchetIn, CoinAsked
    <2>. QED
      BY <2>1, <2>2, <2>3 DEF PlanchetIn, CoinAsked
  <1>3. CASE UNCHANGED ledger
    BY <1>1, <1>2, <1>3, PlanchetMoves
  <1>4. CASE ledger' = Append(ledger, x) /\ ~ \E j \in DOMAIN ledger : ledger[j].coin = coin
    <2>1. ClaimsIn(ledger, groups, history, seen, planchet, status)
          /\ LedgerOK /\ Len(ledger) \in Nat /\ groups \in Groups
      BY ClaimsAre DEF ClaimsOK, LedgerOK, ClaimsIn
    <2>2. coin \notin Paid(ledger)
      BY <1>4 DEF Paid
    <2>3. /\ OpenIn(groups, Paid(ledger)) = OpenIn(groups, Paid(ledger) \cup {coin}) + cost
          /\ cost \in Nat
      <3>1. <<g, i>> \notin Paid(ledger)
        BY <2>2 DEF CoinAsked
      <3>. HIDE DEF g, i
      <3>2. /\ OpenIn(groups, Paid(ledger)) = OpenIn(groups, Paid(ledger) \cup {<<g, i>>})
                                                + groups[g].costs[i]
            /\ groups[g].costs[i] \in Nat
        BY <1>2, <2>1, <3>1, OnePaid
      <3>. QED
        BY <3>2 DEF CoinAsked, CostAsked, g, i
    <2>4. x \in Entries /\ x.id = Len(ledger) + 1 /\ x.type = "withdraw" /\ x.coin = coin
          /\ x.amount = cost
      BY <1>1, SigningIsEntry
    <2>. HIDE DEF x, coin, cost, q
    <2>5. /\ LedgerIn(ledger', groups') /\ HistoryIn(ledger', history')
          /\ SeenIn(seen', Len(ledger'))
      BY <1>1, <1>2, <1>4, <2>4, LedgerGrows
    <2>6. /\ Paid(ledger') = Paid(ledger) \cup {coin}
          /\ Credits(ledger') = Credits(ledger) + 0
          /\ Debits(ledger') = Debits(ledger) + cost
      BY <1>4, <2>1, <2>4, LedgerWithMore
    <2>7. SumsIn(ledger', groups', history')
      <3>1. Debits(ledger) \in Nat /\ Credits(ledger) \in Nat
        BY <2>1, LedgerTyped
      <3>2. OpenIn(groups, Paid(ledger) \cup {coin}) \in Nat /\ SumsIn(ledger, groups, history)
        BY <2>1, OpenTyped DEF ClaimsIn
      <3>. QED
        BY <1>1, <2>3, <2>6, <3>1, <3>2 DEF SumsIn
    <2>8. PlanchetsIn(planchet', groups')
      <3>1. PlanchetsIn(planchet, groups)
        BY <2>1 DEF ClaimsIn
      <3>. QED
        BY <1>1, <1>2, <3>1 DEF PlanchetsIn
    <2>9. ClaimsIn(ledger', groups', history', seen', planchet', status')
      BY <1>1, <2>1, <2>5, <2>7, <2>8 DEF ClaimsIn
    <2>. QED
      BY <2>9, ClaimsNext
  <1>. QED
    BY <1>3, <1>4 DEF ExchangeSigns, DebitEntry, CoinAsked, CostAsked

LEMMA CrashClaims ==
  ASSUME ClaimsOK, Crash
  PROVE  ClaimsOK'
  <1>1. /\ UNCHANGED <<ledger, groups, history, status>>
        /\ seen' = [a \in Actors |-> NothingSeen]
        /\ planchet' = [w \in Withdrawers |-> NoPlanchet]
    BY DEF Crash, db, outside
  <1>2. ClaimsIn(ledger, groups, history, seen, planchet, status) /\ Len(ledger) \in Nat
    BY ClaimsAre DEF ClaimsOK, LedgerOK
  <1>3. SeenIn(seen', Len(ledger'))
    BY <1>1, <1>2, NothingSeenFits DEF SeenIn
  <1>4. PlanchetsIn(planchet', groups')
    BY <1>1, NoPlanchetFits DEF PlanchetsIn
  <1>5. ClaimsIn(ledger', groups', history', seen', planchet', status')
    BY <1>1, <1>2, <1>3, <1>4 DEF ClaimsIn
  <1>. QED
    BY <1>5, ClaimsNext

-----------------------------------------------------------------------------
(* All steps                                                               *)

\* A step of an activity that asks, waits or returns.
LEMMA StepClaims ==
  ASSUME ClaimsOK, ControlOK, NEW a \in Actors, Step(a)
  PROVE  ClaimsOK'
  <1>1. CASE Impl(a) \/ Register(a) \/ BankSelects(a) \/ BankRefuses(a) \/ AskExchange(a)
    <2>1. UNCHANGED <<ledger, groups, history, seen, planchet, status>>
      BY <1>1 DEF Impl, Register, BankSelects, BankRefuses, AskExchange, db, outside
    <2>. QED
      BY <2>1, QuietClaims
  <1>2. CASE AnswerIsLost(a)
    <2>1. UNCHANGED <<ledger, groups, history, seen, planchet, status>>
      BY <1>2 DEF AnswerIsLost, db
    <2>. QED
      BY <2>1, QuietClaims
  <1>3. CASE RecordRegistered(a)
    <2>1. UNCHANGED <<ledger, groups, history, seen, planchet>>
      BY <1>3 DEF RecordRegistered, outside
    <2>2. status' = "absent" => status = "absent"
      BY <1>3 DEF RecordRegistered
    <2>. QED
      BY <2>1, <2>2, QuietClaims
  <1>4. CASE AskBank(a)
    <2>1. UNCHANGED <<ledger, groups, history, planchet, status>>
      BY <1>4 DEF AskBank, db, outside
    <2>2. CASE UNCHANGED seen
      BY <2>1, <2>2, QuietClaims
    <2>3. CASE seen' = [seen EXCEPT ![a].status = status]
      <3>. DEFINE t == [seen[a] EXCEPT !.status = status]
      <3>1. t \in SeenThings /\ t.answer = seen[a].answer
        BY SeenHere DEF ControlOK, SeenThings
      <3>2. seen' = [seen EXCEPT ![a] = t]
        BY <2>3
      <3>. HIDE DEF t
      <3>3. t.answer <= Len(ledger)
        BY <3>1, SeenHere
      <3>. QED
        BY <2>1, <3>1, <3>2, <3>3, SeenClaims
    <2>. QED
      BY <1>4, <2>2, <2>3 DEF AskBank
  <1>5. CASE BankAnswers(a)
    <2>1. UNCHANGED <<ledger, groups, history, planchet, status>>
      BY <1>5 DEF BankAnswers, db, outside
    <2>. DEFINE t == [seen[a] EXCEPT !.selected = selected, !.transferred = transferred]
    <2>2. t \in SeenThings /\ t.answer = seen[a].answer
      BY SeenHere DEF ControlOK, SeenThings
    <2>3. seen' = [seen EXCEPT ![a] = t]
      <3>1. seen' = [seen EXCEPT ![a].selected = selected, ![a].transferred = transferred]
        BY <1>5 DEF BankAnswers
      <3>2. seen[a] \in SeenThings /\ DOMAIN seen = Actors
        BY SeenHere
      <3>. QED
        BY <3>1, <3>2 DEF SeenThings
    <2>. HIDE DEF t
    <2>4. t.answer <= Len(ledger)
      BY <2>2, SeenHere
    <2>. QED
      BY <2>1, <2>2, <2>3, <2>4, SeenClaims
  <1>6. CASE ReadBankAnswer(a)
    <2>1. UNCHANGED <<ledger, groups, history, planchet>> /\ Forget(a)
      BY <1>6 DEF ReadBankAnswer, outside
    <2>2. status' = "absent" => status = "absent"
      BY <1>6 DEF ReadBankAnswer
    <2>. QED
      BY <2>1, <2>2, ForgetClaims
  <1>7. CASE ExchangeAnswers(a)
    <2>1. UNCHANGED <<ledger, groups, history, planchet, status>>
      BY <1>7 DEF ExchangeAnswers, db, outside
    <2>. DEFINE t == [seen[a] EXCEPT !.answer = Len(ledger)]
    <2>2. t \in SeenThings /\ t.answer = Len(ledger)
      BY SeenHere DEF SeenThings
    <2>3. seen' = [seen EXCEPT ![a] = t]
      BY <1>7 DEF ExchangeAnswers
    <2>. HIDE DEF t
    <2>4. t.answer <= Len(ledger)
      BY <2>2, SeenHere
    <2>. QED
      BY <2>1, <2>2, <2>3, <2>4, SeenClaims
  <1>8. CASE UpdateReserve(a)
    BY <1>8, UpdateReserveClaims
  <1>9. CASE RequestFails(a) \/ AwaitGroup(a)
    <2>1. UNCHANGED <<ledger, groups, history, planchet, status>> /\ Forget(a)
      BY <1>9 DEF RequestFails, AwaitGroup, db, outside
    <2>. QED
      BY <2>1, ForgetClaims
  <1>10. CASE DepleteReserve(a)
    BY <1>10, DepleteReserveClaims
  <1>11. CASE CreateGroup(a)
    BY <1>11, CreateGroupClaims
  <1>. QED
    BY <1>1, <1>2, <1>3, <1>4, <1>5, <1>6, <1>7, <1>8, <1>9, <1>10, <1>11 DEF Step

LEMMA OtherClaims ==
  ASSUME ClaimsOK, ConfirmReserve \/ ForceQueryReserve \/ ProcessReserve \/ UserConfirmsAtBank
  PROVE  ClaimsOK'
  <1>1. UNCHANGED <<ledger, groups, history, seen, planchet>>
    BY DEF ConfirmReserve, ForceQueryReserve, ProcessReserve, UserConfirmsAtBank, local, db,
           outside
  <1>2. status' = "absent" => status = "absent"
    BY DEF ConfirmReserve, ForceQueryReserve, ProcessReserve, UserConfirmsAtBank, db
  <1>. QED
    BY <1>1, <1>2, QuietClaims

LEMMA ProcessPlanchetClaims ==
  ASSUME ClaimsOK, NEW w \in Withdrawers, ProcessPlanchet(w)
  PROVE  ClaimsOK'
  BY StartPlanchetClaims, ExchangeSignsClaims, PlanchetFailsClaims, RecordCoinClaims
     DEF ProcessPlanchet

LEMMA InitClaims ==
  ASSUME Init
  PROVE  ClaimsOK
  <1>1. ledger = <<>> /\ groups = <<>> /\ history = <<>>
    BY DEF Init
  <1>2. GroupsOK
    BY <1>1 DEF GroupsOK
  <1>3. LedgerOK
    BY <1>1 DEF LedgerOK
  <1>4. HistoryOK(history)
    BY <1>1 DEF HistoryOK
  <1>5. SeenOK
    <2>1. seen = [a \in Actors |-> NothingSeen] /\ Len(ledger) = 0
      BY <1>1 DEF Init
    <2>. QED
      BY <2>1, NothingSeenFits DEF SeenOK
  <1>6. PlanchetsOK
    BY NoPlanchetFits DEF Init, PlanchetsOK, PlanchetOK, NoPlanchet
  <1>7. Open = 0
    <2>1. [g \in DOMAIN groups |-> Total(OpenOf(groups, Paid(ledger), g))] = <<>>
      BY <1>1
    <2>. QED
      BY <2>1, OpenIs, NothingTotal DEF OpenIn, OpenSums
  <1>8. Debits(ledger) = 0 /\ Credits(ledger) \in Nat
    <2>1. [i \in DOMAIN ledger |->
             IF ledger[i].type = "withdraw" THEN ledger[i].amount ELSE 0] = <<>>
      BY <1>1
    <2>. QED
      BY <1>3, <2>1, NothingTotal, LedgerTyped DEF Debits
  <1>9. Taken(history) = 0
    BY <1>1, NothingTaken
  <1>. QED
    BY <1>1, <1>2, <1>3, <1>4, <1>5, <1>6, <1>7, <1>8, <1>9 DEF ClaimsOK

LEMMA ClaimsInductive ==
  ASSUME ClaimsOK, ControlOK, [Next]_vars
  PROVE  ClaimsOK'
  <1>1. CASE UNCHANGED vars
    <2>1. UNCHANGED <<ledger, groups, history, seen, planchet, status>>
      BY <1>1 DEF vars
    <2>. QED
      BY <2>1, QuietClaims
  <1>2. CASE Next
    BY <1>2, CreateReserveClaims, OtherClaims, StepClaims, ProcessPlanchetClaims,
       TransferArrivesClaims, CrashClaims DEF Next
  <1>. QED
    BY <1>1, <1>2

LEMMA ClaimsAreFunded ==
  ASSUME ClaimsOK
  PROVE  OpenPlanchetsFunded
  <1>1. Credits(ledger) \in Nat /\ Debits(ledger) \in Nat
    BY LedgerTyped DEF ClaimsOK
  <1>2. Open \in Nat
    BY ClaimsAre, OpenTyped, OpenIs DEF ClaimsIn
  <1>. QED
    BY <1>1, <1>2 DEF OpenPlanchetsFunded, Balance, ClaimsOK

LEMMA UnclaimedCovered ==
  ASSUME ClaimsOK
  PROVE  UnclaimedIsCovered
  <1>1. Credits(ledger) \in Nat /\ Debits(ledger) \in Nat
    BY LedgerTyped DEF ClaimsOK
  <1>2. Open \in Nat
    BY ClaimsAre, OpenTyped, OpenIs DEF ClaimsIn
  <1>3. /\ Unclaimed(history) \in Nat /\ Taken(history) \in Nat
        /\ Unclaimed(history) > 0 => Taken(history) + Unclaimed(history) <= Credits(ledger)
    BY UnclaimedIsThere DEF ClaimsOK
  <1>. QED
    BY <1>1, <1>2, <1>3 DEF UnclaimedIsCovered, Balance, ClaimsOK

-----------------------------------------------------------------------------
(* A dormant reserve is depleted                                           *)

Elsewhere(a) == \A b \in Actors : pc'[b] = "planned" => b # a /\ pc[b] = "planned"
Underway == {"WITHDRAWING", "DORMANT"}

LEMMA MovesElsewhere ==
  ASSUME ControlOK, NEW a \in Actors,
         \/ Return(a) \/ Throw(a)
         \/ \E f \in Pcs \ {"planned"} : Goto(a, f)
         \/ \E f \in Pcs \ {"planned"} : \E n \in {"impl", "bank"} : Call(a, f, n)
  PROVE  Elsewhere(a)
  <1>1. CASE Return(a)
    BY <1>1, ReturnMoves DEF Moved, Elsewhere
  <1>2. CASE Throw(a)
    BY <1>2, ThrowMoves DEF Moved, Elsewhere
  <1>3. ASSUME NEW f \in Pcs \ {"planned"}, Goto(a, f)
        PROVE  Elsewhere(a)
    BY <1>3, GotoMoves DEF Moved, Elsewhere
  <1>4. ASSUME NEW f \in Pcs \ {"planned"}, NEW n \in {"impl", "bank"}, Call(a, f, n)
        PROVE  Elsewhere(a)
    BY <1>4, CallMoves DEF Moved, Elsewhere
  <1>. QED
    BY <1>1, <1>2, <1>3, <1>4

LEMMA QuietDepletion ==
  ASSUME DepletionOK, UNCHANGED <<status, history>>,
         NEW a \in Actors, Elsewhere(a), \A b \in Actors \ {a} : seen'[b] = seen[b]
  PROVE  DepletionOK'
  BY DEF DepletionOK, Elsewhere

LEMMA StillDepletion ==
  ASSUME DepletionOK, UNCHANGED <<status, history, pc, seen>>
  PROVE  DepletionOK'
  BY DEF DepletionOK

\* Nothing is planned before the exchange was asked.
LEMMA EarlyDepletion ==
  ASSUME DepletionOK, status \notin Underway, status' \notin Underway,
         DenomList(Unclaimed(history')) = <<>>,
         \A b \in Actors : pc'[b] = "planned" => pc[b] = "planned"
  PROVE  DepletionOK'
  BY DEF DepletionOK, Underway

\* Where nothing is matched, nothing can be claimed.
LEMMA NothingUnclaimed ==
  ASSUME LedgerOK, NEW s, HistoryOK(s), MatchedItems(s) = {}
  PROVE  Unclaimed(s) = 0
  <1>. DEFINE D == 1..Len(s)
              f == MatchedAmounts(s, {"credit", "recoup"})
  <1>1. DOMAIN s = D /\ Len(s) \in Nat
    BY HistoryTyped
  <1>2. \A i \in D : f[i] = 0
    <2>1. \A i \in D : s[i].matched = Unmatched
      BY <1>1 DEF MatchedItems
    <2>. QED
      BY <1>1, <2>1 DEF MatchedAmounts, Unmatched
  <1>3. Positive(s) = Sum(f, D)
    BY SumsTyped DEF Positive
  <1>4. IsFiniteSet(D)
    BY <1>1, FS_Interval
  <1>. HIDE DEF D, f
  <1>5. Positive(s) = 0
    BY <1>2, <1>3, <1>4, SumOfZeros
  <1>6. Unclaimed(s) = Minus(Positive(s), Taken(s)) /\ Taken(s) \in Nat
    BY UnclaimedIsThere
  <1>. QED
    BY <1>5, <1>6 DEF Minus

LEMMA CreateReserveDepletion ==
  ASSUME DepletionOK, ControlOK, ClaimsOK, NEW c \in Creators, CreateReserve(c)
  PROVE  DepletionOK'
  <1>1. c \in Actors /\ UNCHANGED seen
    BY DEF Actors, CreateReserve
  <1>2. Elsewhere(c)
    <2>1. Goto(c, IF bankUrl' THEN "bank" ELSE "done")
      BY DEF CreateReserve
    <2>2. \E f \in Pcs \ {"planned"} : Goto(c, f)
      BY <2>1 DEF Pcs
    <2>. QED
      BY <1>1, <2>2, MovesElsewhere
  <1>3. CASE UNCHANGED <<status, history>>
    BY <1>1, <1>2, <1>3, QuietDepletion
  <1>4. CASE /\ status = "absent"
             /\ status' = IF bankUrl' THEN "REGISTERING_BANK" ELSE "UNCONFIRMED"
             /\ history' = <<Expect("credit", Expected)>>
    <2>1. DenomList(Unclaimed(history')) = <<>>
      <3>1. MatchedItems(history') = {}
        BY <1>4 DEF MatchedItems, Expect
      <3>2. HistoryOK(history') /\ LedgerOK
        <4>1. Expect("credit", Expected) \in Items
          BY AmountsAssumption DEF Expect, Items, Types
        <4>2. /\ history' \in Seq(Items) /\ DOMAIN history' = {1}
              /\ history'[1] = Expect("credit", Expected)
          BY <1>4, <4>1
        <4>. QED
          BY <4>2 DEF HistoryOK, Expect, ClaimsOK
      <3>3. Unclaimed(history') = 0
        BY <3>1, <3>2, NothingUnclaimed
      <3>. QED
        BY <3>3, NothingMore
    <2>2. status \notin Underway /\ status' \notin Underway
      BY <1>4 DEF Underway
    <2>. QED
      BY <1>1, <1>2, <2>1, <2>2, EarlyDepletion DEF Elsewhere
  <1>. QED
    BY <1>3, <1>4 DEF CreateReserve

LEMMA ConfirmReserveDepletion ==
  ASSUME DepletionOK, ConfirmReserve
  PROVE  DepletionOK'
  <1>1. /\ status = "UNCONFIRMED" /\ status' = "QUERYING_STATUS"
        /\ UNCHANGED <<history, pc>>
    BY DEF ConfirmReserve, local
  <1>2. status \notin Underway /\ status' \notin Underway
    BY <1>1 DEF Underway
  <1>3. DenomList(Unclaimed(history')) = <<>>
    BY <1>1, <1>2 DEF DepletionOK, Underway
  <1>. QED
    BY <1>1, <1>2, <1>3, EarlyDepletion

LEMMA ProcessReserveDepletion ==
  ASSUME DepletionOK, ControlOK, ProcessReserve
  PROVE  DepletionOK'
  <1>1. Loop \in Actors /\ UNCHANGED <<status, history, seen>>
    BY DEF Actors, ProcessReserve, db
  <1>2. \E f \in Pcs \ {"planned"} : Goto(Loop, f)
    BY DEF ProcessReserve, Pcs
  <1>. QED
    BY <1>1, <1>2, MovesElsewhere, QuietDepletion

\* The steps of an activity that leave the reserve alone.
LEMMA QuietStepDepletion ==
  ASSUME DepletionOK, ControlOK, ClaimsOK, NEW a \in Actors,
         \/ Impl(a) \/ AskBank(a) \/ BankAnswers(a) \/ Register(a)
         \/ BankSelects(a) \/ AnswerIsLost(a) \/ BankRefuses(a)
         \/ AskExchange(a) \/ ExchangeAnswers(a) \/ RequestFails(a) \/ AwaitGroup(a)
  PROVE  DepletionOK'
  <1>1. UNCHANGED <<status, history>>
    BY DEF Impl, AskBank, BankAnswers, Register, BankSelects, AnswerIsLost, BankRefuses,
           AskExchange, ExchangeAnswers, RequestFails, AwaitGroup, db
  <1>2. Elsewhere(a)
    <2>. DEFINE Moves == \/ Return(a) \/ Throw(a)
                         \/ \E f \in Pcs \ {"planned"} : Goto(a, f)
                         \/ \E f \in Pcs \ {"planned"} : \E n \in {"impl", "bank"} : Call(a, f, n)
    <2>1. CASE Impl(a)
      <3>1. \/ Return(a) \/ Goto(a, "bank") \/ Goto(a, "deplete")
            \/ Call(a, "bank", "impl") \/ Call(a, "update", "impl")
        BY <2>1 DEF Impl
      <3>2. Moves
        BY <3>1 DEF Pcs
      <3>. QED
        BY <3>2, MovesElsewhere
    <2>2. CASE AskBank(a) \/ BankAnswers(a) \/ Register(a)
      <3>1. \/ Return(a) \/ Throw(a) \/ Goto(a, "asking") \/ Goto(a, "answered")
            \/ Goto(a, "posting")
        BY <2>2 DEF AskBank, BankAnswers, Register
      <3>2. Moves
        BY <3>1 DEF Pcs
      <3>. QED
        BY <3>2, MovesElsewhere
    <2>3. CASE BankSelects(a) \/ AnswerIsLost(a) \/ BankRefuses(a)
      <3>1. Throw(a) \/ Goto(a, "registered")
        BY <2>3 DEF BankSelects, AnswerIsLost, BankRefuses
      <3>2. Moves
        BY <3>1 DEF Pcs
      <3>. QED
        BY <3>2, MovesElsewhere
    <2>4. CASE AskExchange(a) \/ ExchangeAnswers(a) \/ RequestFails(a) \/ AwaitGroup(a)
      <3>1. Return(a) \/ Throw(a) \/ Goto(a, "querying") \/ Goto(a, "queried")
        BY <2>4 DEF AskExchange, ExchangeAnswers, RequestFails, AwaitGroup
      <3>2. Moves
        BY <3>1 DEF Pcs
      <3>. QED
        BY <3>2, MovesElsewhere
    <2>. QED
      BY <2>1, <2>2, <2>3, <2>4
  <1>3. \A b \in Actors \ {a} : seen'[b] = seen[b]
    <2>1. DOMAIN seen = Actors
      BY SeenHere
    <2>. QED
      BY <2>1 DEF Impl, AskBank, BankAnswers, Register, BankSelects, AnswerIsLost, BankRefuses,
         AskExchange, ExchangeAnswers, RequestFails, AwaitGroup, Forget
  <1>. QED
    BY <1>1, <1>2, <1>3, QuietDepletion

LEMMA ReadBankAnswerDepletion ==
  ASSUME DepletionOK, ControlOK, ClaimsOK, NEW a \in Actors, ReadBankAnswer(a)
  PROVE  DepletionOK'
  <1>1. UNCHANGED history /\ Forget(a)
    BY DEF ReadBankAnswer
  <1>2. Elsewhere(a)
    <2>1. Call(a, "register", "bank") \/ Goto(a, "impl") \/ Return(a)
      BY DEF ReadBankAnswer
    <2>2. \/ Return(a) \/ Throw(a)
          \/ \E f \in Pcs \ {"planned"} : Goto(a, f)
          \/ \E f \in Pcs \ {"planned"} : \E n \in {"impl", "bank"} : Call(a, f, n)
      BY <2>1 DEF Pcs
    <2>. QED
      BY <2>2, MovesElsewhere
  <1>3. CASE UNCHANGED status
    <2>1. \A b \in Actors \ {a} : seen'[b] = seen[b]
      BY <1>1, SeenHere DEF Forget
    <2>. QED
      BY <1>1, <1>2, <1>3, <2>1, QuietDepletion
  <1>4. CASE status \in BankStatus /\ status' = "QUERYING_STATUS"
    <2>1. status \notin Underway /\ status' \notin Underway
      BY <1>4 DEF BankStatus, Underway
    <2>2. DenomList(Unclaimed(history')) = <<>>
      BY <1>1, <2>1 DEF DepletionOK, Underway
    <2>. QED
      BY <1>1, <1>2, <2>1, <2>2, EarlyDepletion DEF Elsewhere
  <1>. QED
    BY <1>3, <1>4 DEF ReadBankAnswer

LEMMA RecordRegisteredDepletion ==
  ASSUME DepletionOK, ControlOK, NEW a \in Actors, RecordRegistered(a)
  PROVE  DepletionOK'
  <1>1. UNCHANGED <<history, seen>>
    BY DEF RecordRegistered
  <1>2. Elsewhere(a)
    <2>1. \E f \in Pcs \ {"planned"} : Goto(a, f)
      BY DEF RecordRegistered, Pcs
    <2>. QED
      BY <2>1, MovesElsewhere
  <1>3. CASE UNCHANGED status
    BY <1>1, <1>2, <1>3, QuietDepletion
  <1>4. CASE status \in BankStatus /\ status' = "WAIT_CONFIRM_BANK"
    <2>1. status \notin Underway /\ status' \notin Underway
      BY <1>4 DEF BankStatus, Underway
    <2>2. DenomList(Unclaimed(history')) = <<>>
      BY <1>1, <2>1 DEF DepletionOK, Underway
    <2>. QED
      BY <1>1, <1>2, <2>1, <2>2, EarlyDepletion DEF Elsewhere
  <1>. QED
    BY <1>3, <1>4 DEF RecordRegistered

\* An answer without news leaves what can be claimed as it is.
LEMMA NoNewsNoClaim ==
  ASSUME LedgerOK, NEW n \in Nat, n <= Len(ledger), NEW s, HistoryOK(s),
         ~HasNews(s, Reported(n))
  PROVE  Unclaimed(Reconcile(s, Reported(n))) = Unclaimed(s)
  <1>. DEFINE x == MatchItems(s, Reported(n))
              y == Added(x, Reported(n))
              types == {"credit", "recoup"}
  <1>1. /\ HistoryOK(x) /\ Claims(x) = Claims(s) /\ DOMAIN x = DOMAIN s
        /\ Continues(x, s)
    BY MatchItemsKeeps
  <1>2. NewFor(y, x, n)
    BY AddedIsNew
  <1>3. Reconcile(s, Reported(n)) = x \o y /\ MatchedItems(x \o y) = MatchedItems(s)
    BY DEF Reconcile, HasNews
  <1>. HIDE DEF x, y
  <1>4. HistoryOK(y) /\ \A k \in DOMAIN y : y[k].matched # Unmatched
    BY <1>2 DEF NewFor, Unmatched
  <1>5. /\ x \in Seq(Items) /\ DOMAIN x = 1..Len(x) /\ Len(x) \in Nat
        /\ y \in Seq(Items) /\ DOMAIN y = 1..Len(y) /\ Len(y) \in Nat
        /\ DOMAIN s = 1..Len(s)
    BY <1>1, <1>4, HistoryTyped
  <1>6. y = <<>>
    <2>1. SUFFICES ASSUME Len(y) > 0
                   PROVE  FALSE
      BY <1>5
    <2>2. /\ 1 \in DOMAIN y /\ Len(x) + 1 \in DOMAIN (x \o y)
          /\ (x \o y)[Len(x) + 1] = y[1]
      BY <1>5, <2>1
    <2>3. Len(x) + 1 \in MatchedItems(x \o y)
      BY <1>4, <2>2 DEF MatchedItems
    <2>4. Len(x) + 1 \notin DOMAIN s
      BY <1>1, <1>5
    <2>. QED
      BY <1>3, <2>3, <2>4 DEF MatchedItems
  <1>7. x \o y = x
    BY <1>5, <1>6
  <1>8. \A i \in DOMAIN s : x[i].matched = s[i].matched
    <2>1. ASSUME NEW i \in DOMAIN s, s[i].matched = Unmatched
          PROVE  x[i].matched = Unmatched
      BY <1>1, <1>3, <1>7, <2>1 DEF MatchedItems
    <2>. QED
      BY <1>1, <2>1 DEF Continues
  <1>9. MatchedAmounts(x, types) = MatchedAmounts(s, types)
    BY <1>1, <1>8 DEF MatchedAmounts, Continues
  <1>10. Positive(x) = Positive(s)
    BY <1>9 DEF Positive, SumMatched, MatchedAmounts
  <1>11. Taken(x) = Taken(s)
    BY <1>1 DEF Taken, Claims
  <1>12. /\ Unclaimed(x) = Minus(Positive(x), Taken(x))
         /\ Unclaimed(s) = Minus(Positive(s), Taken(s))
    BY <1>1, UnclaimedIsThere
  <1>. QED
    BY <1>3, <1>7, <1>10, <1>11, <1>12

LEMMA UpdateReserveDepletion ==
  ASSUME DepletionOK, ControlOK, ClaimsOK, NEW a \in Actors, UpdateReserve(a)
  PROVE  DepletionOK'
  <1>. DEFINE answer == Reported(seen[a].answer)
  <1>1. Forget(a)
    BY DEF UpdateReserve
  <1>2. Elsewhere(a)
    <2>1. Return(a) \/ Throw(a)
      BY DEF UpdateReserve
    <2>. QED
      BY <2>1, MovesElsewhere
  <1>3. CASE UNCHANGED <<status, history>>
    <2>1. \A b \in Actors \ {a} : seen'[b] = seen[b]
      BY <1>1, SeenHere DEF Forget
    <2>. QED
      BY <1>1, <1>2, <1>3, <2>1, QuietDepletion
  <1>4. CASE /\ status = "QUERYING_STATUS"
             /\ history' = Reconcile(history, answer)
             /\ status' = IF HasNews(history, answer) THEN "WITHDRAWING" ELSE "DORMANT"
    <2>1. \A b \in Actors : pc[b] # "planned"
      BY <1>4 DEF DepletionOK
    <2>2. \A b \in Actors : pc'[b] # "planned"
      BY <1>2, <2>1 DEF Elsewhere
    <2>6. status' = "DORMANT" => DenomList(Unclaimed(history')) = <<>>
      <3>1. /\ LedgerOK /\ HistoryOK(history)
            /\ seen[a].answer \in Nat /\ seen[a].answer <= Len(ledger)
        BY SeenHere DEF ClaimsOK
      <3>2. status' = "DORMANT" => ~HasNews(history, answer)
        BY <1>4
      <3>3. status' = "DORMANT" => Unclaimed(history') = Unclaimed(history)
        BY <1>4, <3>1, <3>2, NoNewsNoClaim
      <3>4. DenomList(Unclaimed(history)) = <<>>
        BY <1>4 DEF DepletionOK
      <3>. QED
        BY <3>3, <3>4
    <2>7. status' \in {"WITHDRAWING", "DORMANT"}
      BY <1>4
    <2>. QED
      BY <2>2, <2>6, <2>7 DEF DepletionOK
  <1>. QED
    BY <1>3, <1>4 DEF UpdateReserve

LEMMA DepleteReserveDepletion ==
  ASSUME DepletionOK, ControlOK, ClaimsOK, NEW a \in Actors, DepleteReserve(a)
  PROVE  DepletionOK'
  <1>. DEFINE plan == DenomList(Unclaimed(history))
  <1>1. UNCHANGED <<status, history>>
    BY DEF DepleteReserve, db
  <1>2. CASE (Return(a) \/ Throw(a)) /\ UNCHANGED seen
    BY <1>1, <1>2, MovesElsewhere, QuietDepletion
  <1>3. CASE /\ status = "WITHDRAWING" /\ Goto(a, "planned")
             /\ seen' = [seen EXCEPT ![a].plan = plan]
    <2>1. DOMAIN seen = Actors /\ seen[a] \in SeenThings
      BY SeenHere
    <2>2. seen'[a].plan = plan /\ \A b \in Actors \ {a} : seen'[b] = seen[b]
      <3>. HIDE DEF plan
      <3>. QED
        BY <1>3, <2>1 DEF SeenThings
    <2>3. \A b \in Actors \ {a} : pc'[b] = pc[b]
      <3>1. "planned" \in Pcs
        BY DEF Pcs
      <3>. QED
        BY <1>3, <3>1, GotoMoves DEF Moved
    <2>. QED
      BY <1>1, <1>3, <2>2, <2>3 DEF DepletionOK
  <1>. QED
    BY <1>2, <1>3 DEF DepleteReserve

\* What was matched in a history that is continued.
LEMMA TotalOfMatched ==
  ASSUME NEW s, HistoryOK(s)
  PROVE  /\ s \in Seq(Items) /\ Len(s) \in Nat /\ DOMAIN s = 1..Len(s)
         /\ MatchedAmounts(s, {"credit", "recoup"}) \in Seq(Nat)
         /\ Positive(s) = Total(MatchedAmounts(s, {"credit", "recoup"}))
  <1>1. /\ s \in Seq(Items) /\ Len(s) \in Nat /\ DOMAIN s = 1..Len(s)
        /\ \A i \in 1..Len(s) : s[i].matched.amount \in Nat
    BY HistoryTyped, ItemTyped
  <1>2. MatchedAmounts(s, {"credit", "recoup"}) \in Seq(Nat)
    BY <1>1 DEF MatchedAmounts
  <1>3. Positive(s) = Total(MatchedAmounts(s, {"credit", "recoup"}))
    BY DEF Positive, SumMatched, MatchedAmounts
  <1>. QED
    BY <1>1, <1>2, <1>3

LEMMA MatchedOfBoth ==
  ASSUME NEW s \in Seq(Items), NEW t \in Seq(Items), NEW types,
         MatchedAmounts(s, types) \in Seq(Nat), MatchedAmounts(t, types) \in Seq(Nat),
         MatchedAmounts(s \o t, types) \in Seq(Nat)
  PROVE  MatchedAmounts(s \o t, types) = MatchedAmounts(s, types) \o MatchedAmounts(t, types)
  <1>. DEFINE m == Len(s)
              n == Len(t)
              amount(item) == IF item.type \in types THEN item.matched.amount ELSE 0
              x == s \o t
              u == MatchedAmounts(s, types)
              v == MatchedAmounts(t, types)
              w == MatchedAmounts(x, types)
  <1>1. /\ m \in Nat /\ n \in Nat /\ DOMAIN s = 1..m /\ DOMAIN t = 1..n
        /\ DOMAIN x = 1..(m + n)
        /\ \A i \in 1..m : x[i] = s[i]
        /\ \A i \in 1..(m + n) : i \notin 1..m => x[i] = t[i - m] /\ i - m \in 1..n
    OBVIOUS
  <1>. HIDE DEF x
  <1>2. /\ DOMAIN u = 1..m /\ \A i \in 1..m : u[i] = amount(s[i])
        /\ DOMAIN v = 1..n /\ \A i \in 1..n : v[i] = amount(t[i])
        /\ DOMAIN w = 1..(m + n) /\ \A i \in 1..(m + n) : w[i] = amount(x[i])
    BY <1>1 DEF MatchedAmounts
  <1>3. u \in Seq(Nat) /\ v \in Seq(Nat) /\ w \in Seq(Nat)
    BY DEF x
  <1>. HIDE DEF u, v, w, amount, m, n
  <1>4. Len(u) = m /\ Len(v) = n /\ Len(w) = m + n
    BY <1>1, <1>2, <1>3
  <1>5. /\ u \o v \in Seq(Nat) /\ Len(u \o v) = m + n
        /\ \A i \in 1..m : (u \o v)[i] = u[i]
        /\ \A i \in 1..(m + n) : i \notin 1..m => (u \o v)[i] = v[i - m]
    <2>1. /\ u \o v \in Seq(Nat) /\ Len(u \o v) = Len(u) + Len(v)
          /\ \A i \in 1..Len(u) : (u \o v)[i] = u[i]
          /\ \A i \in 1..(Len(u) + Len(v)) : i \notin 1..Len(u) => (u \o v)[i] = v[i - Len(u)]
      BY <1>3
    <2>. QED
      BY <1>4, <2>1
  <1>6. \A i \in 1..(m + n) : w[i] = (u \o v)[i]
    <2>1. ASSUME NEW i \in 1..(m + n)
          PROVE  w[i] = (u \o v)[i]
      <3>1. CASE i \in 1..m
        BY <1>1, <1>2, <1>5, <3>1
      <3>2. CASE i \notin 1..m
        BY <1>1, <1>2, <1>5, <3>2
      <3>. QED
        BY <3>1, <3>2
    <2>. QED
      BY <2>1
  <1>7. w = u \o v
    BY <1>3, <1>4, <1>5, <1>6, SeqEqual
  <1>. QED
    BY <1>7 DEF u, v, w, x

LEMMA CreateGroupDepletion ==
  ASSUME DepletionOK, ControlOK, ClaimsOK, NEW a \in Actors, CreateGroup(a)
  PROVE  DepletionOK'
  <1>. DEFINE plan == seen[a].plan
              h == [i \in DOMAIN plan |-> Expect("withdraw", plan[i])]
              t == [NothingSeen EXCEPT !.group = Len(groups')]
  <1>1. pc[a] = "planned"
    BY DEF CreateGroup
  <1>2. CASE UNCHANGED <<status, history>> /\ Forget(a) /\ Return(a)
    <2>1. \A b \in Actors \ {a} : seen'[b] = seen[b]
      BY <1>2, SeenHere DEF Forget
    <2>. QED
      BY <1>1, <1>2, <2>1, MovesElsewhere, QuietDepletion
  <1>3. CASE /\ MayCreateGroup(a) /\ history' = history \o h /\ status' = "DORMANT"
             /\ Goto(a, "withdraw")
    <2>1. plan = DenomList(Unclaimed(history))
      BY <1>1, <1>3 DEF DepletionOK, MayCreateGroup
    <2>2. plan \in Seq(Costs) /\ LedgerOK /\ HistoryOK(history)
      BY SeenHere DEF ClaimsOK
    <2>. HIDE DEF plan
    <2>3. /\ HistoryOK(h) /\ Taken(h) = Total(plan)
          /\ \A i \in DOMAIN h : h[i].matched = Unmatched
      BY <2>2, PlanItems
    <2>4. Positive(h) = 0
      <3>. DEFINE D == 1..Len(h)
                  f == MatchedAmounts(h, {"credit", "recoup"})
      <3>. HIDE DEF h
      <3>1. DOMAIN h = D /\ Len(h) \in Nat /\ Positive(h) = Sum(f, D)
        BY <2>3, HistoryTyped, SumsTyped DEF Positive
      <3>2. \A i \in D : f[i] = 0
        BY <2>3, <3>1 DEF MatchedAmounts, Unmatched
      <3>3. IsFiniteSet(D)
        BY <3>1, FS_Interval
      <3>. HIDE DEF D, f
      <3>. QED
        BY <3>1, <3>2, <3>3, SumOfZeros
    <2>. HIDE DEF h
    <2>5. HistoryOK(history') /\ Taken(history') = Taken(history) + Total(plan)
      BY <1>3, <2>2, <2>3, BothOK
    <2>6. Positive(history') = Positive(history)
      <3>. DEFINE types == {"credit", "recoup"}
                  u == MatchedAmounts(history, types)
                  v == MatchedAmounts(h, types)
                  m == Len(history)
                  n == Len(h)
      <3>1. /\ history \in Seq(Items) /\ m \in Nat /\ DOMAIN history = 1..m
            /\ Positive(history) = Total(u) /\ u \in Seq(Nat)
        BY <2>2, TotalOfMatched
      <3>2. /\ h \in Seq(Items) /\ n \in Nat /\ DOMAIN h = 1..n
            /\ Positive(h) = Total(v) /\ v \in Seq(Nat)
        BY <2>3, TotalOfMatched
      <3>3. /\ Positive(history') = Total(MatchedAmounts(history', types))
            /\ MatchedAmounts(history', types) \in Seq(Nat)
        BY <2>5, TotalOfMatched
      <3>4. MatchedAmounts(history \o h, types) = u \o v
        BY <1>3, <3>1, <3>2, <3>3, MatchedOfBoth
      <3>5. Total(u \o v) = Total(u) + Total(v) /\ Total(u) \in Nat /\ Total(v) \in Nat
        BY <3>1, <3>2, TotalOfBoth
      <3>6. MatchedAmounts(history', types) = u \o v
        BY <1>3, <3>4
      <3>. HIDE DEF u, v, types
      <3>. QED
        BY <2>4, <3>1, <3>2, <3>3, <3>5, <3>6
    <2>7. /\ Unclaimed(history) \in Nat /\ Taken(history) \in Nat /\ Positive(history) \in Nat
          /\ Unclaimed(history) = Minus(Positive(history), Taken(history))
          /\ Unclaimed(history') = Minus(Positive(history'), Taken(history'))
      BY <2>2, <2>5, UnclaimedIsThere
    <2>8. /\ Total(plan) \in 0..Unclaimed(history)
          /\ DenomList(Unclaimed(history) - Total(plan)) = <<>>
      BY <2>1, <2>7, NothingMore
    <2>9. Unclaimed(history') = Unclaimed(history) - Total(plan)
      BY <2>5, <2>6, <2>7, <2>8 DEF Minus
    <2>10. \A b \in Actors : pc'[b] = "planned" => status' = "DORMANT"
      BY <1>3
    <2>. QED
      BY <1>1, <1>3, <2>8, <2>9 DEF DepletionOK
  <1>. QED
    BY <1>2, <1>3 DEF CreateGroup

LEMMA ForceQueryDepletion ==
  ASSUME DepletionOK, ForceQueryReserve, ~InterruptsWithdrawal
  PROVE  DepletionOK'
  BY DEF DepletionOK, ForceQueryReserve, InterruptsWithdrawal, local

LEMMA CrashDepletion ==
  ASSUME DepletionOK, Crash
  PROVE  DepletionOK'
  <1>1. UNCHANGED <<status, history>> /\ \A a \in Actors : pc'[a] # "planned"
    BY DEF Crash, db, End
  <1>. QED
    BY <1>1 DEF DepletionOK

LEMMA EnvironmentDepletion ==
  ASSUME DepletionOK,
         \/ UserConfirmsAtBank \/ TransferArrives \/ \E w \in Withdrawers : ProcessPlanchet(w)
  PROVE  DepletionOK'
  <1>1. UNCHANGED <<status, history, pc, seen>>
    BY DEF UserConfirmsAtBank, TransferArrives, ProcessPlanchet, StartPlanchet,
           ExchangeSigns, PlanchetFails, RecordCoin, db, local
  <1>. QED
    BY <1>1, StillDepletion

LEMMA DepletionInductive ==
  ASSUME DepletionOK, ControlOK, ClaimsOK, [Next]_vars, ~InterruptsWithdrawal
  PROVE  DepletionOK'
  <1>1. CASE UNCHANGED vars
    BY <1>1, StillDepletion DEF vars
  <1>2. ASSUME NEW a \in Actors, Step(a)
        PROVE  DepletionOK'
    BY <1>2, QuietStepDepletion, ReadBankAnswerDepletion, RecordRegisteredDepletion,
       UpdateReserveDepletion, DepleteReserveDepletion, CreateGroupDepletion DEF Step
  <1>3. CASE Next
    BY <1>2, <1>3, CreateReserveDepletion, ConfirmReserveDepletion, ForceQueryDepletion,
       ProcessReserveDepletion, EnvironmentDepletion, CrashDepletion DEF Next
  <1>. QED
    BY <1>1, <1>3

LEMMA InitDepletion ==
  ASSUME Init
  PROVE  DepletionOK
  <1>1. history = <<>> /\ MatchedItems(history) = {} /\ \A a \in Actors : pc[a] # "planned"
    BY DEF Init, MatchedItems
  <1>2. Unclaimed(history) = 0
    BY <1>1, InitClaims, NothingUnclaimed DEF ClaimsOK
  <1>3. DenomList(0) = <<>>
    BY NothingMore
  <1>. QED
    BY <1>1, <1>2, <1>3 DEF DepletionOK

-----------------------------------------------------------------------------
(* Coins                                                                   *)

CoinsOf(gs) == UNION {{<<g, i>> : i \in gs[g].withdrawn} : g \in DOMAIN gs}
SignedIn(l, coin) == \E j \in DOMAIN l : l[j].coin = coin
BookedOnce(l) ==
  \A j, k \in DOMAIN l : l[j].type = "withdraw" /\ l[k].coin = l[j].coin => j = k
CoinsIn(l, gs, cs, p) ==
  /\ \A g \in DOMAIN gs : gs[g].withdrawn \subseteq DOMAIN gs[g].costs
  /\ cs = CoinsOf(gs)
  /\ \A coin \in cs : SignedIn(l, coin)
  /\ \A w \in Withdrawers : p[w].pc = "signed" => SignedIn(l, <<p[w].group, p[w].index>>)
  /\ BookedOnce(l)
BoundsOK == bankUrl \in BOOLEAN /\ forced \in 0..MaxForced /\ crashes \in 0..MaxCrashes

LEMMA CoinsAre ==
  /\ CoinsOK <=> BoundsOK /\ CoinsIn(ledger, groups, coins, planchet)
  /\ CoinsOK' <=> BoundsOK' /\ CoinsIn(ledger', groups', coins', planchet')
  BY DEF CoinsOK, BoundsOK, CoinsIn, CoinsOf, SignedIn, BookedOnce, Signed

LEMMA BoundsStay ==
  ASSUME BoundsOK, [Next]_vars
  PROVE  BoundsOK'
  <1>1. CASE UNCHANGED <<bankUrl, forced, crashes>>
    BY <1>1 DEF BoundsOK
  <1>2. ASSUME NEW c \in Creators, CreateReserve(c)
        PROVE  BoundsOK'
    BY <1>2, BankAssumption DEF CreateReserve, BoundsOK
  <1>3. CASE ForceQueryReserve
    BY <1>3, BoundsAssumption DEF ForceQueryReserve, BoundsOK
  <1>4. CASE Crash
    BY <1>4, BoundsAssumption DEF Crash, BoundsOK, db
  <1>5. CASE ConfirmReserve \/ ProcessReserve \/ UserConfirmsAtBank \/ TransferArrives
    BY <1>1, <1>5 DEF ConfirmReserve, ProcessReserve, UserConfirmsAtBank, TransferArrives, db
  <1>6. ASSUME NEW a \in Actors, Step(a)
        PROVE  BoundsOK'
    <2>1. UNCHANGED <<bankUrl, forced, crashes>>
      BY <1>6 DEF Step, Impl, AskBank, BankAnswers, ReadBankAnswer, Register, BankSelects,
         AnswerIsLost, BankRefuses, RecordRegistered, AskExchange, ExchangeAnswers,
         UpdateReserve, RequestFails, DepleteReserve, CreateGroup, AwaitGroup, db
    <2>. QED
      BY <1>1, <2>1
  <1>7. ASSUME NEW w \in Withdrawers, ProcessPlanchet(w)
        PROVE  BoundsOK'
    <2>1. UNCHANGED <<bankUrl, forced, crashes>>
      BY <1>7 DEF ProcessPlanchet, StartPlanchet, ExchangeSigns, PlanchetFails, RecordCoin, db
    <2>. QED
      BY <1>1, <2>1
  <1>8. CASE UNCHANGED vars
    BY <1>1, <1>8 DEF vars
  <1>. QED
    BY <1>2, <1>3, <1>4, <1>5, <1>6, <1>7, <1>8 DEF Next

\* No group, coin or transaction changes, and no planchet is signed.
LEMMA QuietCoins ==
  ASSUME CoinsIn(ledger, groups, coins, planchet), UNCHANGED <<ledger, groups, coins>>,
         \A w \in Withdrawers : planchet'[w].pc = "signed" => planchet'[w] = planchet[w]
  PROVE  CoinsIn(ledger', groups', coins', planchet')
  <1>1. ASSUME NEW w \in Withdrawers, planchet'[w].pc = "signed"
        PROVE  SignedIn(ledger', <<planchet'[w].group, planchet'[w].index>>)
    BY <1>1 DEF CoinsIn
  <1>. QED
    BY <1>1 DEF CoinsIn

LEMMA CreateGroupCoins ==
  ASSUME CoinsIn(ledger, groups, coins, planchet), ClaimsOK, NEW a \in Actors, CreateGroup(a)
  PROVE  CoinsIn(ledger', groups', coins', planchet')
  <1>. DEFINE plan == seen[a].plan
              new == [costs |-> plan, withdrawn |-> {}]
  <1>1. UNCHANGED <<ledger, coins, planchet>>
    BY DEF CreateGroup, outside
  <1>2. CASE UNCHANGED groups
    BY <1>1, <1>2, QuietCoins
  <1>3. CASE groups' = Append(groups, new)
    <2>1. groups \in Groups
      BY ClaimsAre DEF ClaimsIn
    <2>2. new.withdrawn = {}
      OBVIOUS
    <2>. HIDE DEF new
    <2>3. /\ DOMAIN groups' = DOMAIN groups \cup {Len(groups) + 1}
          /\ groups'[Len(groups) + 1] = new
          /\ \A g \in DOMAIN groups : groups'[g] = groups[g]
      BY <1>3, <2>1 DEF Groups
    <2>4. CoinsOf(groups') = CoinsOf(groups)
      BY <2>2, <2>3 DEF CoinsOf
    <2>5. \A g \in DOMAIN groups' : groups'[g].withdrawn \subseteq DOMAIN groups'[g].costs
      BY <2>2, <2>3 DEF CoinsIn
    <2>. QED
      BY <1>1, <2>4, <2>5 DEF CoinsIn
  <1>. QED
    BY <1>2, <1>3 DEF CreateGroup

LEMMA RecordCoinCoins ==
  ASSUME CoinsIn(ledger, groups, coins, planchet), ClaimsOK,
         NEW w \in Withdrawers, RecordCoin(w)
  PROVE  CoinsIn(ledger', groups', coins', planchet')
  <1>. DEFINE g == planchet[w].group
              i == planchet[w].index
  <1>1. /\ planchet[w].pc = "signed" /\ UNCHANGED ledger
        /\ planchet' = [planchet EXCEPT ![w] = NoPlanchet]
    BY DEF RecordCoin, outside
  <1>2. \A v \in Withdrawers : planchet'[v].pc = "signed" => planchet'[v] = planchet[v]
    <2>1. DOMAIN planchet = Withdrawers
      BY ClaimsAre DEF ClaimsIn, PlanchetsIn
    <2>. QED
      BY <1>1, <2>1 DEF NoPlanchet
  <1>3. CASE UNCHANGED <<groups, coins>>
    BY <1>1, <1>2, <1>3, QuietCoins
  <1>4. CASE /\ groups' = [groups EXCEPT ![g].withdrawn = @ \cup {i}]
             /\ coins' = coins \cup {<<g, i>>}
    <2>1. groups \in Groups /\ g \in DOMAIN groups /\ i \in DOMAIN groups[g].costs
      BY <1>1, ClaimsAre, PlanchetHere DEF ClaimsIn
    <2>2. SignedIn(ledger, <<g, i>>)
      BY <1>1 DEF CoinsIn
    <2>. DEFINE Group == [costs: Seq(Costs), withdrawn: SUBSET Nat]
    <2>3. groups[g] \in Group
      <3>1. groups \in Seq(Group)
        BY <2>1 DEF Groups
      <3>. HIDE DEF Group
      <3>2. \A s \in Seq(Group) : \A k \in DOMAIN s : s[k] \in Group
        OBVIOUS
      <3>. QED
        BY <2>1, <3>1, <3>2
    <2>. HIDE DEF g, i
    <2>4. /\ DOMAIN groups' = DOMAIN groups
          /\ groups'[g].costs = groups[g].costs
          /\ groups'[g].withdrawn = groups[g].withdrawn \cup {i}
          /\ \A k \in DOMAIN groups \ {g} : groups'[k] = groups[k]
      BY <1>4, <2>1, <2>3
    <2>5. CoinsOf(groups') = CoinsOf(groups) \cup {<<g, i>>}
      BY <2>1, <2>4 DEF CoinsOf
    <2>6. \A k \in DOMAIN groups' : groups'[k].withdrawn \subseteq DOMAIN groups'[k].costs
      <3>1. CASE TRUE
        BY <2>1, <2>4 DEF CoinsIn
      <3>. QED
        BY <3>1
    <2>7. \A v \in Withdrawers : planchet'[v].pc = "signed" =>
            SignedIn(ledger, <<planchet'[v].group, planchet'[v].index>>)
      BY <1>2 DEF CoinsIn
    <2>8. coins' = CoinsOf(groups') /\ \A coin \in coins' : SignedIn(ledger, coin)
      BY <1>4, <2>2, <2>5 DEF CoinsIn
    <2>. QED
      BY <1>1, <2>6, <2>7, <2>8 DEF CoinsIn
  <1>. QED
    BY <1>3, <1>4 DEF RecordCoin

LEMMA BooksMore ==
  ASSUME CoinsIn(ledger, groups, coins, planchet), ClaimsOK, NEW x \in Entries,
         \/ x.type = "credit" /\ x.coin = <<>>
         \/ x.type = "withdraw" /\ x.coin \notin Paid(ledger)
  PROVE  /\ \A coin : SignedIn(Append(ledger, x), coin) <=> SignedIn(ledger, coin) \/ coin = x.coin
         /\ BookedOnce(Append(ledger, x))
  <1>. DEFINE u == Append(ledger, x)
              n == Len(ledger)
  <1>1. LedgerOK /\ LedgerIn(ledger, groups) /\ n \in Nat /\ DOMAIN ledger = 1..n
    BY ClaimsAre DEF ClaimsOK, LedgerOK, ClaimsIn
  <1>2. /\ DOMAIN u = 1..(n + 1) /\ u[n + 1] = x /\ \A j \in 1..n : u[j] = ledger[j]
    BY <1>1, LedgerWithMore
  <1>3. 1..(n + 1) = 1..n \cup {n + 1} /\ n + 1 \notin 1..n
    BY <1>1
  <1>. HIDE DEF u, n
  <1>4. \A coin : SignedIn(u, coin) <=> SignedIn(ledger, coin) \/ coin = x.coin
    BY <1>1, <1>2, <1>3 DEF SignedIn
  <1>5. ASSUME NEW j \in 1..n, ledger[j].type = "withdraw", ledger[j].coin = x.coin
        PROVE  FALSE
    <2>1. IsPlanchetIn(groups, ledger[j].coin)
      BY <1>1, <1>5 DEF LedgerIn
    <2>2. ledger[j].coin # <<>>
      BY <2>1 DEF IsPlanchetIn
    <2>3. ledger[j].coin \in Paid(ledger)
      BY <1>1 DEF Paid
    <2>. QED
      BY <1>5, <2>2, <2>3
  <1>6. ASSUME NEW j \in 1..n, x.type = "withdraw", ledger[j].coin = x.coin
        PROVE  FALSE
    <2>1. ledger[j].coin \in Paid(ledger)
      BY <1>1 DEF Paid
    <2>. QED
      BY <1>6, <2>1
  <1>7. ASSUME NEW j \in DOMAIN u, NEW k \in DOMAIN u, u[j].type = "withdraw", u[k].coin = u[j].coin
        PROVE  j = k
    <2>1. CASE j \in 1..n /\ k \in 1..n
      BY <1>1, <1>2, <1>7, <2>1 DEF CoinsIn, BookedOnce
    <2>2. CASE j \in 1..n /\ k = n + 1
      BY <1>2, <1>5, <1>7, <2>2
    <2>3. CASE j = n + 1 /\ k \in 1..n
      BY <1>2, <1>6, <1>7, <2>3
    <2>. QED
      BY <1>2, <1>3, <2>1, <2>2, <2>3
  <1>. QED
    BY <1>4, <1>7 DEF BookedOnce, u

LEMMA TransferArrivesCoins ==
  ASSUME CoinsIn(ledger, groups, coins, planchet), ClaimsOK, TransferArrives
  PROVE  CoinsIn(ledger', groups', coins', planchet')
  <1>. DEFINE x == CreditEntry
  <1>1. UNCHANGED <<groups, coins, planchet>> /\ ledger' = Append(ledger, x)
    BY DEF TransferArrives, CreditEntry, db, local
  <1>2. x \in Entries /\ x.type = "credit" /\ x.coin = <<>>
    BY TransferIsEntry
  <1>. HIDE DEF x
  <1>3. /\ \A coin : SignedIn(ledger, coin) => SignedIn(ledger', coin)
        /\ BookedOnce(ledger')
    BY <1>1, <1>2, BooksMore
  <1>. QED
    BY <1>1, <1>3 DEF CoinsIn

LEMMA ExchangeSignsCoins ==
  ASSUME CoinsIn(ledger, groups, coins, planchet), ClaimsOK,
         NEW w \in Withdrawers, ExchangeSigns(w)
  PROVE  CoinsIn(ledger', groups', coins', planchet')
  <1>. DEFINE coin == CoinAsked(w)
              q == [planchet[w] EXCEPT !.pc = "signed"]
              x == DebitEntry(w)
  <1>1. /\ planchet[w].pc = "asking" /\ UNCHANGED <<groups, coins>>
        /\ planchet' = [planchet EXCEPT ![w] = q]
    BY DEF ExchangeSigns, db
  <1>2. /\ \A c : SignedIn(ledger, c) => SignedIn(ledger', c)
        /\ SignedIn(ledger', coin) /\ BookedOnce(ledger')
    <2>1. CASE UNCHANGED ledger /\ SignedIn(ledger, coin)
      BY <2>1 DEF CoinsIn
    <2>2. CASE ledger' = Append(ledger, x) /\ ~ SignedIn(ledger, coin)
      <3>1. coin \notin Paid(ledger)
        BY <2>2 DEF Paid, SignedIn
      <3>2. x \in Entries /\ x.type = "withdraw" /\ x.coin = coin
        BY <1>1, SigningIsEntry
      <3>. HIDE DEF x, coin
      <3>. QED
        BY <2>2, <3>1, <3>2, BooksMore
    <2>. QED
      BY <2>1, <2>2 DEF ExchangeSigns, SignedIn, DebitEntry, CoinAsked, CostAsked
  <1>3. ASSUME NEW v \in Withdrawers, planchet'[v].pc = "signed"
        PROVE  SignedIn(ledger', <<planchet'[v].group, planchet'[v].index>>)
    <2>1. planchet \in [Withdrawers -> PlanchetKinds]
      BY ClaimsAre DEF ClaimsIn, PlanchetsIn
    <2>2. CASE v = w
      <3>1. planchet'[v].group = planchet[w].group /\ planchet'[v].index = planchet[w].index
        BY <1>1, <2>1, <2>2 DEF PlanchetKinds
      <3>. QED
        BY <1>2, <3>1 DEF CoinAsked
    <2>3. CASE v # w
      <3>1. planchet'[v] = planchet[v]
        BY <1>1, <2>1, <2>3
      <3>. QED
        BY <1>2, <1>3, <3>1 DEF CoinsIn
    <2>. QED
      BY <2>2, <2>3
  <1>. QED
    BY <1>1, <1>2, <1>3 DEF CoinsIn

LEMMA StillCoins ==
  ASSUME CoinsOK, BoundsOK', UNCHANGED <<ledger, groups, coins, planchet>>
  PROVE  CoinsOK'
  <1>1. CoinsIn(ledger, groups, coins, planchet)
    BY CoinsAre
  <1>2. CoinsIn(ledger', groups', coins', planchet')
    BY <1>1
  <1>. QED
    BY <1>2, CoinsAre

LEMMA ProcessPlanchetCoins ==
  ASSUME CoinsOK, BoundsOK', ClaimsOK, NEW w \in Withdrawers, ProcessPlanchet(w)
  PROVE  CoinsOK'
  <1>1. CoinsIn(ledger, groups, coins, planchet)
    BY CoinsAre
  <1>2. CASE StartPlanchet(w) \/ PlanchetFails(w)
    <2>1. UNCHANGED <<ledger, groups, coins>>
      BY <1>2 DEF StartPlanchet, PlanchetFails, db, outside
    <2>2. DOMAIN planchet = Withdrawers
      BY ClaimsAre DEF ClaimsIn, PlanchetsIn
    <2>3. \A v \in Withdrawers : planchet'[v].pc = "signed" => planchet'[v] = planchet[v]
      BY <1>2, <2>2 DEF StartPlanchet, PlanchetFails, NoPlanchet
    <2>. QED
      BY <1>1, <2>1, <2>3, QuietCoins, CoinsAre
  <1>3. CASE ExchangeSigns(w)
    BY <1>1, <1>3, ExchangeSignsCoins, CoinsAre
  <1>4. CASE RecordCoin(w)
    BY <1>1, <1>4, RecordCoinCoins, CoinsAre
  <1>. QED
    BY <1>2, <1>3, <1>4 DEF ProcessPlanchet

LEMMA CoinsInductive ==
  ASSUME CoinsOK, ClaimsOK, [Next]_vars
  PROVE  CoinsOK'
  <1>1. CoinsIn(ledger, groups, coins, planchet) /\ BoundsOK'
    BY CoinsAre, BoundsStay
  <1>2. ASSUME NEW c \in Creators, CreateReserve(c)
        PROVE  CoinsOK'
    <2>1. UNCHANGED <<ledger, groups, coins, planchet>>
      BY <1>2 DEF CreateReserve, outside
    <2>. QED
      BY <1>1, <2>1, StillCoins
  <1>3. CASE ConfirmReserve \/ ForceQueryReserve \/ ProcessReserve \/ UserConfirmsAtBank
    <2>1. UNCHANGED <<ledger, groups, coins, planchet>>
      BY <1>3 DEF ConfirmReserve, ForceQueryReserve, ProcessReserve, UserConfirmsAtBank,
         db, local, outside
    <2>. QED
      BY <1>1, <2>1, StillCoins
  <1>4. ASSUME NEW a \in Actors, Step(a)
        PROVE  CoinsOK'
    <2>1. CASE CreateGroup(a)
      BY <1>1, <2>1, CreateGroupCoins, CoinsAre
    <2>2. CASE ~ CreateGroup(a)
      <3>1. UNCHANGED <<ledger, groups, coins, planchet>>
        <4>1. CASE Impl(a) \/ AskBank(a) \/ BankAnswers(a) \/ ReadBankAnswer(a) \/ Register(a)
          BY <4>1 DEF Impl, AskBank, BankAnswers, ReadBankAnswer, Register, db, outside
        <4>2. CASE BankSelects(a) \/ AnswerIsLost(a) \/ BankRefuses(a) \/ RecordRegistered(a)
          BY <4>2 DEF BankSelects, AnswerIsLost, BankRefuses, RecordRegistered, db, outside
        <4>3. CASE \/ AskExchange(a) \/ ExchangeAnswers(a) \/ UpdateReserve(a)
                   \/ RequestFails(a) \/ DepleteReserve(a) \/ AwaitGroup(a)
          BY <4>3 DEF AskExchange, ExchangeAnswers, UpdateReserve, RequestFails,
             DepleteReserve, AwaitGroup, db, outside
        <4>. QED
          BY <1>4, <2>2, <4>1, <4>2, <4>3 DEF Step
      <3>. QED
        BY <1>1, <3>1, StillCoins
    <2>. QED
      BY <2>1, <2>2
  <1>5. CASE TransferArrives
    BY <1>1, <1>5, TransferArrivesCoins, CoinsAre
  <1>6. CASE Crash
    <2>1. UNCHANGED <<ledger, groups, coins>>
      BY <1>6 DEF Crash, db, outside
    <2>2. \A w \in Withdrawers : planchet'[w].pc # "signed"
      BY <1>6 DEF Crash, NoPlanchet
    <2>. QED
      BY <1>1, <2>1, <2>2, QuietCoins, CoinsAre
  <1>7. CASE UNCHANGED vars
    BY <1>1, <1>7, StillCoins DEF vars
  <1>8. ASSUME NEW w \in Withdrawers, ProcessPlanchet(w)
        PROVE  CoinsOK'
    BY <1>1, <1>8, ProcessPlanchetCoins
  <1>. QED
    BY <1>2, <1>3, <1>4, <1>5, <1>6, <1>7, <1>8 DEF Next

LEMMA InitCoins ==
  ASSUME Init
  PROVE  CoinsOK
  <1>1. /\ bankUrl = FALSE /\ groups = <<>> /\ coins = {} /\ ledger = <<>>
        /\ forced = 0 /\ crashes = 0
        /\ \A w \in Withdrawers : planchet[w].pc # "signed"
    BY DEF Init, NoPlanchet
  <1>2. UNION {{<<g, i>> : i \in groups[g].withdrawn} : g \in DOMAIN groups} = {}
    BY <1>1
  <1>3. BoundsOK
    <2>1. 0 \in 0..MaxForced /\ 0 \in 0..MaxCrashes
      BY BoundsAssumption
    <2>2. bankUrl \in BOOLEAN
      BY <1>1
    <2>. QED
      BY <1>1, <2>1, <2>2 DEF BoundsOK
  <1>4. DOMAIN groups = {} /\ DOMAIN ledger = {}
    BY <1>1
  <1>5. CoinsIn(ledger, groups, coins, planchet)
    BY <1>1, <1>2, <1>4 DEF CoinsIn, CoinsOf, BookedOnce
  <1>. QED
    BY <1>3, <1>5, CoinsAre

LEMMA CoinsAreThere ==
  ASSUME CoinsOK, ClaimsOK
  PROVE  CoinsAreWithdrawn
  <1>1. ASSUME NEW coin \in coins
        PROVE  Cardinality({j \in DOMAIN ledger : ledger[j].coin = coin}) = 1
    <2>1. PICK j \in DOMAIN ledger : ledger[j].coin = coin
      BY DEF CoinsOK, Signed
    <2>2. ledger[j].type = "withdraw"
      <3>1. coin # <<>>
        BY DEF CoinsOK
      <3>2. LedgerOK /\ ledger[j] \in Entries
        BY DEF ClaimsOK, LedgerOK
      <3>3. ledger[j].type \in {"credit", "withdraw"}
        BY <3>2 DEF Entries
      <3>. QED
        BY <2>1, <3>1, <3>2, <3>3 DEF LedgerOK
    <2>3. {k \in DOMAIN ledger : ledger[k].coin = coin} = {j}
      BY <2>1, <2>2 DEF CoinsOK
    <2>. QED
      BY <2>3, FS_Singleton
  <1>. QED
    BY <1>1 DEF CoinsAreWithdrawn, CoinsOK

LEMMA ShapeIsKept ==
  ASSUME ControlOK, CoinsOK, ClaimsOK
  PROVE  TypeOK
  <1>1. groups \in Groups /\ PlanchetsIn(planchet, groups) /\ history \in Seq(Items)
    BY ClaimsAre DEF ClaimsIn, HistoryIn
  <1>2. ASSUME NEW g \in DOMAIN groups
        PROVE  /\ groups[g].costs \in Seq(Costs)
               /\ groups[g].withdrawn \subseteq DOMAIN groups[g].costs
    BY <1>1, OpenOfTyped DEF CoinsOK
  <1>3. \A w \in Withdrawers : planchet[w].pc \in {"idle", "asking", "signed"}
    BY <1>1 DEF PlanchetsIn, PlanchetKinds
  <1>4. coins \subseteq UNION {Planchets(g) : g \in DOMAIN groups}
    <2>1. ASSUME NEW coin \in coins
          PROVE  \E g \in DOMAIN groups : coin \in Planchets(g)
      <3>1. PICK g \in DOMAIN groups : coin \in {<<g, i>> : i \in groups[g].withdrawn}
        BY DEF CoinsOK
      <3>. QED
        BY <1>2, <3>1 DEF Planchets
    <2>. QED
      BY <2>1
  <1>. QED
    BY <1>1, <1>2, <1>3, <1>4 DEF TypeOK, CoinsOK

-----------------------------------------------------------------------------
(* The theorems                                                            *)

Funded == BankSide /\ ClaimsOK /\ CoinsOK

\* The invariant that carries the theorems about money.
THEOREM AlwaysFunded == Spec => []Funded
  <1>1. Init => Funded
    BY InitBankSide, InitClaims, InitCoins DEF Funded
  <1>2. Funded /\ [Next]_vars => Funded'
    BY BankSideInductive, ClaimsInductive, CoinsInductive DEF Funded, BankSide
  <1>. QED
    BY <1>1, <1>2, PTL DEF Spec

\* The records of the reserve keep their shape: every coin is a planchet of a
\* group that depleteReserve has stored, and no call is stacked out of place.
THEOREM TypeCorrect == Spec => []TypeOK
  <1>1. Funded => TypeOK
    BY ShapeIsKept DEF Funded, BankSide
  <1>. QED
    BY <1>1, AlwaysFunded, PTL

\* However many runs of depleteReserve claim from the same history, and whatever
\* was transferred: the exchange has what the stored planchets cost.
THEOREM ClaimsAreCovered == Spec => []OpenPlanchetsFunded
  <1>1. Funded => OpenPlanchetsFunded
    BY ClaimsAreFunded DEF Funded
  <1>. QED
    BY <1>1, AlwaysFunded, PTL

\* However often processPlanchet asks, fails and starts again: the exchange has
\* taken the cost of each coin in the wallet once, and its group has ticked it off.
THEOREM OnceForEachCoin == Spec => []CoinsAreWithdrawn
  <1>1. Funded => CoinsAreWithdrawn
    BY CoinsAreThere DEF Funded
  <1>. QED
    BY <1>1, AlwaysFunded, PTL

\* What the wallet can still claim of a reserve is there, beside what its open
\* planchets cost: a query that is forced at the wrong time may put the reserve to
\* sleep too early, but what it sleeps on is not spent on anything else.
THEOREM UnclaimedIsNotLost == Spec => []UnclaimedIsCovered
  <1>1. Funded => UnclaimedIsCovered
    BY UnclaimedCovered DEF Funded
  <1>. QED
    BY <1>1, AlwaysFunded, PTL

\* A step that breaks DepletionOK is a query forced during a withdrawal.
LEMMA OnlyInterruptions ==
  ASSUME Funded, DepletionOK, [Next]_vars, ~DepletionOK'
  PROVE  <<InterruptsWithdrawal>>_vars
  <1>1. InterruptsWithdrawal
    BY DepletionInductive DEF Funded, BankSide
  <1>2. vars' # vars
    <2>1. UNCHANGED vars => DepletionOK'
      BY StillDepletion DEF vars
    <2>. QED
      BY <2>1
  <1>. QED
    BY <1>1, <1>2

\* A reserve goes to sleep when no coin can be made of what is in it, unless at
\* some time the user has forced a query while money was being withdrawn.  Other
\* forced queries, late answers, second runs of depleteReserve and restarts do
\* not put it to sleep too early.
THEOREM SleepsWhenDepleted ==
  Spec => []DormantIsDepleted \/ <><<InterruptsWithdrawal>>_vars
  <1>1. Init => DepletionOK
    BY InitDepletion
  <1>2. Funded /\ DepletionOK /\ [Next]_vars /\ ~DepletionOK'
        => <<InterruptsWithdrawal>>_vars
    BY OnlyInterruptions
  <1>3. DepletionOK => DormantIsDepleted
    BY DEF DepletionOK, DormantIsDepleted
  <1>. QED
    BY <1>1, <1>2, <1>3, AlwaysFunded, PTL DEF Spec

-----------------------------------------------------------------------------
(* A reserve is confirmed through its bank                                 *)

LEMMA InitHeard ==
  ASSUME Init
  PROVE  BankHeard
  BY DEF Init, BankHeard, ConfirmedAtBank, NothingSeen

\* What an activity reads of the bank is so, and stays so.
LEMMA StepKeepsHeard ==
  ASSUME Funded, BankHeard, NEW a \in Actors, Step(a)
  PROVE  BankHeard'
  <1>1. DOMAIN seen = Actors /\ seen[a] \in SeenThings
    BY SeenHere DEF Funded
  <1>2. ~NothingSeen.selected /\ ~NothingSeen.transferred
    BY DEF NothingSeen
  <1>3. bankUrl' = bankUrl /\ transferred' = transferred
    BY DEF Step, Impl, AskBank, BankAnswers, ReadBankAnswer, Register, BankSelects,
       AnswerIsLost, BankRefuses, RecordRegistered, AskExchange, ExchangeAnswers,
       UpdateReserve, RequestFails, DepleteReserve, CreateGroup, AwaitGroup, db, outside
  <1>4. selected' = selected \/ (selected' = TRUE /\ UNCHANGED seen)
    BY DEF Step, Impl, AskBank, BankAnswers, ReadBankAnswer, Register, BankSelects,
       AnswerIsLost, BankRefuses, RecordRegistered, AskExchange, ExchangeAnswers,
       UpdateReserve, RequestFails, DepleteReserve, CreateGroup, AwaitGroup, outside
  <1>5. \A b \in Actors :
           \/ seen'[b].selected = seen[b].selected /\ seen'[b].transferred = seen[b].transferred
           \/ seen'[b].selected = selected /\ seen'[b].transferred = transferred
           \/ ~seen'[b].selected /\ ~seen'[b].transferred
    <2>1. \/ UNCHANGED seen \/ Forget(a)
          \/ seen' = [seen EXCEPT ![a].status = status]
          \/ seen' = [seen EXCEPT ![a].selected = selected, ![a].transferred = transferred]
          \/ seen' = [seen EXCEPT ![a].answer = Len(ledger)]
          \/ seen' = [seen EXCEPT ![a].plan = DenomList(Unclaimed(history))]
          \/ seen' = [seen EXCEPT ![a] = [NothingSeen EXCEPT !.group = Len(groups')]]
      <3>1. CASE Impl(a) \/ AskBank(a) \/ BankAnswers(a) \/ ReadBankAnswer(a) \/ Register(a)
        BY <3>1 DEF Impl, AskBank, BankAnswers, ReadBankAnswer, Register
      <3>2. CASE BankSelects(a) \/ AnswerIsLost(a) \/ BankRefuses(a) \/ RecordRegistered(a)
        BY <3>2 DEF BankSelects, AnswerIsLost, BankRefuses, RecordRegistered
      <3>3. CASE AskExchange(a) \/ ExchangeAnswers(a) \/ UpdateReserve(a) \/ RequestFails(a)
        BY <3>3 DEF AskExchange, ExchangeAnswers, UpdateReserve, RequestFails
      <3>4. CASE DepleteReserve(a) \/ CreateGroup(a) \/ AwaitGroup(a)
        BY <3>4 DEF DepleteReserve, CreateGroup, AwaitGroup
      <3>. QED
        BY <3>1, <3>2, <3>3, <3>4 DEF Step
    <2>2. ~[NothingSeen EXCEPT !.group = Len(groups')].selected
          /\ ~[NothingSeen EXCEPT !.group = Len(groups')].transferred
      BY DEF NothingSeen
    <2>3. \A x : /\ [seen[a] EXCEPT !.status = x].selected = seen[a].selected
                 /\ [seen[a] EXCEPT !.status = x].transferred = seen[a].transferred
                 /\ [seen[a] EXCEPT !.answer = x].selected = seen[a].selected
                 /\ [seen[a] EXCEPT !.answer = x].transferred = seen[a].transferred
                 /\ [seen[a] EXCEPT !.plan = x].selected = seen[a].selected
                 /\ [seen[a] EXCEPT !.plan = x].transferred = seen[a].transferred
      BY <1>1 DEF SeenThings
    <2>4. \A x, y : /\ [seen[a] EXCEPT !.selected = x, !.transferred = y].selected = x
                    /\ [seen[a] EXCEPT !.selected = x, !.transferred = y].transferred = y
      BY <1>1 DEF SeenThings
    <2>5. CASE UNCHANGED seen
      BY <2>5
    <2>6. CASE Forget(a) \/ seen' = [seen EXCEPT ![a] = [NothingSeen EXCEPT !.group = Len(groups')]]
      BY <1>1, <1>2, <2>2, <2>6 DEF Forget
    <2>7. CASE \/ seen' = [seen EXCEPT ![a].status = status]
               \/ seen' = [seen EXCEPT ![a].answer = Len(ledger)]
               \/ seen' = [seen EXCEPT ![a].plan = DenomList(Unclaimed(history))]
      <3>1. \A b \in Actors \ {a} : seen'[b] = seen[b]
        BY <1>1, <2>7
      <3>2. \/ seen'[a] = [seen[a] EXCEPT !.status = status]
            \/ seen'[a] = [seen[a] EXCEPT !.answer = Len(ledger)]
            \/ seen'[a] = [seen[a] EXCEPT !.plan = DenomList(Unclaimed(history))]
        BY <1>1, <2>7
      <3>3. seen'[a].selected = seen[a].selected /\ seen'[a].transferred = seen[a].transferred
        BY <2>3, <3>2
      <3>. QED
        BY <3>1, <3>3
    <2>8. CASE seen' = [seen EXCEPT ![a].selected = selected, ![a].transferred = transferred]
      BY <1>1, <2>4, <2>8
    <2>. QED
      BY <2>1, <2>5, <2>6, <2>7, <2>8
  <1>6. \/ UNCHANGED <<status, confirmed>>
        \/ status' \notin {"UNCONFIRMED"} /\ UNCHANGED confirmed
        \/ seen[a].transferred
    BY DEF Step, Impl, AskBank, BankAnswers, ReadBankAnswer, Register, BankSelects,
       AnswerIsLost, BankRefuses, RecordRegistered, AskExchange, ExchangeAnswers,
       UpdateReserve, RequestFails, DepleteReserve, CreateGroup, AwaitGroup, db
  <1>7. status' = "UNCONFIRMED" => status = "UNCONFIRMED"
    BY DEF Step, Impl, AskBank, BankAnswers, ReadBankAnswer, Register, BankSelects,
       AnswerIsLost, BankRefuses, RecordRegistered, AskExchange, ExchangeAnswers,
       UpdateReserve, RequestFails, DepleteReserve, CreateGroup, AwaitGroup, db
  <1>8. confirmed' => confirmed \/ seen[a].transferred
    BY <1>6
  <1>9. ConfirmedAtBank'
    BY <1>3, <1>4, <1>8 DEF BankHeard, ConfirmedAtBank
  <1>. QED
    BY <1>3, <1>4, <1>5, <1>7, <1>9 DEF BankHeard

LEMMA OthersKeepHeard ==
  ASSUME Funded, BankHeard,
         \/ \E c \in Creators : CreateReserve(c)
         \/ ConfirmReserve \/ ForceQueryReserve \/ ProcessReserve
         \/ \E w \in Withdrawers : ProcessPlanchet(w)
         \/ UserConfirmsAtBank \/ TransferArrives \/ Crash
  PROVE  BankHeard'
  <1>1. CASE \E c \in Creators : CreateReserve(c)
    <2>1. UNCHANGED <<confirmed, seen, selected, transferred>>
      BY <1>1 DEF CreateReserve, outside
    <2>2. \/ UNCHANGED <<status, bankUrl>>
          \/ /\ status = "absent"
             /\ status' = IF bankUrl' THEN "REGISTERING_BANK" ELSE "UNCONFIRMED"
      BY <1>1 DEF CreateReserve
    <2>3. status = "absent" => ~confirmed
      BY DEF Funded, BankSide, ConfirmedIsPastBank, QueryStatus
    <2>. QED
      BY <2>1, <2>2, <2>3 DEF BankHeard, ConfirmedAtBank
  <1>2. CASE ConfirmReserve
    BY <1>2 DEF ConfirmReserve, local, outside, BankHeard, ConfirmedAtBank
  <1>3. CASE ForceQueryReserve
    BY <1>3 DEF ForceQueryReserve, local, outside, BankHeard, ConfirmedAtBank
  <1>4. CASE \/ ProcessReserve \/ \E w \in Withdrawers : ProcessPlanchet(w)
             \/ UserConfirmsAtBank \/ TransferArrives
    <2>1. UNCHANGED <<status, bankUrl, confirmed, seen, selected>>
      BY <1>4 DEF ProcessReserve, ProcessPlanchet, StartPlanchet, ExchangeSigns,
         PlanchetFails, RecordCoin, UserConfirmsAtBank, TransferArrives, db, local, outside
    <2>2. UNCHANGED transferred \/ (transferred' = TRUE /\ selected)
      BY <1>4 DEF ProcessReserve, ProcessPlanchet, StartPlanchet, ExchangeSigns,
         PlanchetFails, RecordCoin, UserConfirmsAtBank, TransferArrives, outside
    <2>. QED
      BY <2>1, <2>2 DEF BankHeard, ConfirmedAtBank
  <1>5. CASE Crash
    BY <1>5 DEF Crash, NothingSeen, db, outside, BankHeard, ConfirmedAtBank
  <1>. QED
    BY <1>1, <1>2, <1>3, <1>4, <1>5

\* With a bank, a reserve counts as confirmed only when the bank knows it and the
\* user has confirmed the transfer there: whatever registrations the bank has
\* refused, whatever answers were lost or late, and wherever a restart came.
THEOREM ConfirmedThroughBank == Spec => []ConfirmedAtBank
  <1>1. Init => BankHeard
    BY InitHeard
  <1>2. Funded /\ BankHeard /\ [Next]_vars => BankHeard'
    <2>1. ASSUME BankHeard, UNCHANGED vars
          PROVE  BankHeard'
      BY <2>1 DEF vars, BankHeard, ConfirmedAtBank
    <2>. QED
      BY <2>1, StepKeepsHeard, OthersKeepHeard DEF Next
  <1>3. BankHeard => ConfirmedAtBank
    BY DEF BankHeard
  <1>. QED
    BY <1>1, <1>2, <1>3, AlwaysFunded, PTL DEF Spec
=============================================================================
