--------------------------- MODULE ExchangeProofs ---------------------------
(***************************************************************************)
(* Theorems about the record of an exchange, its denominations and what its *)
(* revocations take, for any number of updates, withdrawals and recoups     *)
(* beside each other, and about what recoups pay back, with these updates   *)
(* and by themselves (module Recoup).                                       *)
(***************************************************************************)
EXTENDS Exchange, SumTheorems, TLAPS

-----------------------------------------------------------------------------
(* Verdicts.  A withdrawal works with the records it has read, so the       *)
(* invariant relates its copies to what is stored.                          *)

Verdicts(d) == {"Unverified", Verdict(d)}
Judged == {r \in [Denoms -> DenominationRecord] : \A d \in Denoms : r[d].status \in Verdicts(d)}

\* Nobody stores a verdict that is not the denomination's.
StoredOK == denom \in Judged

SelectorRecord == [pc: {"idle", "verify", "done"}, copy: Judged, selected: SUBSET Denoms]
\* What a withdrawal has selected is known, to it and in the database.
SelectedKnown(s) ==
  \A d \in selector[s].selected : selector[s].copy[d].known /\ denom[d].known
\* What it has verified is stored.
VerifiedStored(s) ==
  \A d \in selector[s].selected :
    selector[s].copy[d].status = Verdict(d) => denom[d].status = Verdict(d)
\* It ends when it has verified all of it.
DoneVerified(s) ==
  selector[s].pc = "done" =>
    \A d \in selector[s].selected : selector[s].copy[d].status = Verdict(d)
SelectorsOK ==
  /\ selector \in [Selectors -> SelectorRecord]
  /\ \A s \in Selectors : SelectedKnown(s) /\ VerifiedStored(s) /\ DoneVerified(s)

VerdictsKept == StoredOK /\ SelectorsOK

LEMMA VerdictsInit ==
  ASSUME Init
  PROVE  VerdictsKept
  <1>1. StoredOK
    BY DEF Init, InitRecoup, StoredOK, Judged, DenominationRecord, UnknownDenom, Verdicts
  <1>2. [d \in Denoms |-> UnknownDenom] \in Judged
    BY DEF Judged, DenominationRecord, UnknownDenom, Verdicts
  <1>3. SelectorsOK
    BY <1>2 DEF Init, SelectorsOK, SelectorRecord, SelectedKnown, VerifiedStored, DoneVerified
  <1>. QED
    BY <1>1, <1>3 DEF VerdictsKept

\* No step of a recoup touches a denomination.
LEMMA RecoupKeepsDenoms ==
  ASSUME RecoupStep
  PROVE  UNCHANGED denom
  BY DEF RecoupStep, StartGroup, ExchangePaysBack, RecoupFails, RecoupCoin, RecoupTipCoin,
         RecoupWithdrawCoin, RecoupRefreshCoin, QueryStep, ForceQueryReserve,
         LoopProcessesReserve, ExchangeReports, QueryFails, UpdateReserve, DepleteReserve,
         CoinArrives

\* New keys make denominations known, or mark them; they change no verdict.
LEMMA KeysKeepVerdicts ==
  ASSUME NEW u \in Updaters, StoreKeys(u), StoredOK
  PROVE  /\ StoredOK'
         /\ \A d \in Denoms : /\ denom'[d].status = denom[d].status
                              /\ denom[d].known => denom'[d].known
  <1>. DEFINE answer == updater[u].answer
              known == KnownAfter(answer)
              revoked == NewlyRevoked(answer.recoup, known)
  <1>1. known \in Judged /\ \A d \in Denoms : /\ known[d].status = denom[d].status
                                              /\ denom[d].known => known[d].known
    BY DEF StoredOK, Judged, DenominationRecord, KnownAfter
  <1>2. denom' = [d \in Denoms |-> IF d \in revoked THEN [known[d] EXCEPT !.isRevoked = TRUE]
                                   ELSE known[d]]
    BY DEF StoreKeys, HandleRecoupList
  <1>. HIDE DEF known, revoked
  <1>. QED
    BY <1>1, <1>2 DEF StoredOK, Judged, DenominationRecord

LEMMA VerdictsStep ==
  ASSUME VerdictsKept, [Next]_vars
  PROVE  VerdictsKept'
  <1>. USE DEF VerdictsKept
  <1>1. ASSUME UNCHANGED <<selector, denom>>
        PROVE  VerdictsKept'
    BY <1>1 DEF StoredOK, SelectorsOK, SelectedKnown, VerifiedStored, DoneVerified
  <1>2. ASSUME NEW u \in Updaters, StoreKeys(u)
        PROVE  VerdictsKept'
    <2>1. UNCHANGED selector
      BY <1>2 DEF StoreKeys
    <2>. QED
      BY <2>1, <1>2, KeysKeepVerdicts
         DEF SelectorsOK, SelectorRecord, SelectedKnown, VerifiedStored, DoneVerified
  <1>3. ASSUME NEW s \in Selectors, PossibleDenoms(s)
        PROVE  VerdictsKept'
    <2>1. UNCHANGED denom
      BY <1>3 DEF PossibleDenoms, recoupVars
    <2>2. selector'[s].pc = "verify" /\ selector'[s].copy = denom
          /\ \A d \in selector'[s].selected : d \in Denoms /\ denom[d].known
      BY <1>3 DEF PossibleDenoms, SelectorsOK
    <2>3. selector' \in [Selectors -> SelectorRecord]
      BY <1>3 DEF PossibleDenoms, SelectorsOK, SelectorRecord, StoredOK
    <2>4. \A t \in Selectors \ {s} : selector'[t] = selector[t]
      BY <1>3 DEF PossibleDenoms, SelectorsOK
    <2>. QED
      BY <2>1, <2>2, <2>3, <2>4
         DEF StoredOK, SelectorsOK, SelectedKnown, VerifiedStored, DoneVerified
  <1>4. ASSUME NEW s \in Selectors, NEW d \in Denoms, VerifyDenom(s, d)
        PROVE  VerdictsKept'
    <2>. DEFINE judged == [selector[s].copy[d] EXCEPT !.status = Verdict(d)]
    <2>1. selector' = [selector EXCEPT ![s].copy[d].status = Verdict(d)]
          /\ denom' = [denom EXCEPT ![d] = judged]
          /\ selector[s].pc = "verify" /\ d \in selector[s].selected
      BY <1>4 DEF VerifyDenom, Unverified
    <2>2. judged \in DenominationRecord /\ judged.status = Verdict(d) /\ judged.known
      <3>1. selector[s].copy \in [Denoms -> DenominationRecord] /\ selector[s].copy[d].known
        BY <2>1 DEF SelectorsOK, SelectorRecord, Judged, SelectedKnown
      <3>2. Verdict(d) \in {"VerifiedGood", "VerifiedBad"}
        BY DEF Verdict
      <3>. QED
        BY <3>1, <3>2 DEF DenominationRecord
    <2>3. StoredOK' /\ \A e \in Denoms : denom'[e] = IF e = d THEN judged ELSE denom[e]
      BY <2>1, <2>2 DEF StoredOK, Judged, Verdicts
    <2>4. /\ selector'[s].pc = "verify" /\ selector'[s].selected = selector[s].selected
          /\ selector'[s].copy = [selector[s].copy EXCEPT ![d] = judged]
          /\ \A t \in Selectors \ {s} : selector'[t] = selector[t]
      BY <2>1 DEF SelectorsOK, SelectorRecord
    <2>. HIDE DEF judged
    <2>5. selector'[s].copy \in Judged
      <3>1. selector[s].copy \in Judged
        BY DEF SelectorsOK, SelectorRecord
      <3>. QED
        BY <3>1, <2>2, <2>4 DEF Judged, Verdicts
    <2>6. selector' \in [Selectors -> SelectorRecord]
      BY <2>1, <2>4, <2>5 DEF SelectorsOK, SelectorRecord
    <2>7. \A e \in Denoms : selector'[s].copy[e] = IF e = d THEN judged ELSE selector[s].copy[e]
      BY <2>4 DEF SelectorsOK, SelectorRecord, Judged
    <2>8. ASSUME NEW t \in Selectors
          PROVE  (SelectedKnown(t) /\ VerifiedStored(t) /\ DoneVerified(t))'
      <3>1. selector[t].selected \subseteq Denoms
        BY DEF SelectorsOK, SelectorRecord
      <3>2. CASE t = s
        BY <3>1, <3>2, <2>2, <2>3, <2>4, <2>7
           DEF SelectorsOK, SelectedKnown, VerifiedStored, DoneVerified, Verdict
      <3>3. CASE t # s
        BY <3>1, <3>3, <2>2, <2>3, <2>4
           DEF SelectorsOK, SelectedKnown, VerifiedStored, DoneVerified, Verdict
      <3>. QED
        BY <3>2, <3>3
    <2>. QED
      BY <2>3, <2>6, <2>8 DEF SelectorsOK
  <1>5. ASSUME NEW s \in Selectors, ReturnDenoms(s)
        PROVE  VerdictsKept'
    <2>1. UNCHANGED denom
      BY <1>5 DEF ReturnDenoms, recoupVars
    <2>2. selector' = [selector EXCEPT ![s].pc = "done"] /\ Unverified(s) = {}
      BY <1>5 DEF ReturnDenoms
    <2>3. \A e \in selector[s].selected : selector[s].copy[e].status = Verdict(e)
      BY <2>2 DEF SelectorsOK, SelectorRecord, Judged, Verdicts, Unverified
    <2>4. /\ selector' \in [Selectors -> SelectorRecord]
          /\ selector'[s].pc = "done" /\ selector'[s].copy = selector[s].copy
          /\ selector'[s].selected = selector[s].selected
          /\ \A t \in Selectors \ {s} : selector'[t] = selector[t]
      BY <2>2 DEF SelectorsOK, SelectorRecord
    <2>5. SelectorsOK'
      BY <2>1, <2>3, <2>4 DEF SelectorsOK, SelectedKnown, VerifiedStored, DoneVerified
    <2>. QED
      BY <2>1, <2>5 DEF StoredOK
  <1>6. ASSUME Restart
        PROVE  VerdictsKept'
    <2>1. UNCHANGED denom
          /\ selector' = [s \in Selectors |-> [selector[s] EXCEPT !.pc = "done", !.selected = {}]]
      BY <1>6 DEF Restart
    <2>. QED
      BY <2>1
         DEF StoredOK, SelectorsOK, SelectorRecord, SelectedKnown, VerifiedStored, DoneVerified
  <1>7. ASSUME NEW u \in Updaters, Update(u)
        PROVE  StoreKeys(u) \/ UNCHANGED <<selector, denom>>
    BY <1>7 DEF Update, UpdateExchange, AddExchange, RestartUpdate, Ask, Answers, UpdateFails,
                StoreWire, FetchTerms, FinalizeUpdate, recoupVars
  <1>8. ASSUME AcceptTerms \/ ExchangeChanges \/ UNCHANGED vars
        PROVE  UNCHANGED <<selector, denom>>
    BY <1>8 DEF AcceptTerms, ExchangeChanges, vars, exchangeVars, recoupVars
  <1>9. ASSUME RecoupStep, UNCHANGED exchangeVars
        PROVE  UNCHANGED <<selector, denom>>
    BY <1>9, RecoupKeepsDenoms DEF exchangeVars
  <1>. QED
    BY <1>1, <1>2, <1>3, <1>4, <1>5, <1>6, <1>7, <1>8, <1>9 DEF Next

\* The verdict on each denomination that a withdrawal returns stays in the database
\* with its record, whatever is put there by updates and other withdrawals.
THEOREM VerdictsStay == Spec => []VerdictsAreStored
  <1>1. VerdictsKept => VerdictsAreStored
    BY DEF VerdictsKept, SelectorsOK, SelectedKnown, VerifiedStored, DoneVerified,
           VerdictsAreStored
  <1>. QED
    BY <1>1, VerdictsInit, VerdictsStep, PTL DEF Spec

-----------------------------------------------------------------------------
(* The record of the exchange.  An update goes on with what it was answered, *)
(* whatever other updates have made of the record meanwhile.                 *)

RecordOK == exchange \in ExchangeRecord /\ StatusHasItsData
\* What an update was answered, and has validated, has a key.
AnswersOK ==
  \A u \in Updaters :
    /\ At(u, "answered", "keys") => updater[u].answer.key \in 1..MaxKeys
    /\ At(u, "answered", "wire") => updater[u].answer.key \in 1..MaxKeys
UpdaterRecord ==
  [pc: {"idle", "add", "reset", "do", "asked", "answered"},
   step: {"keys", "wire", "terms", "finalize"},
   details: 0..MaxKeys, answer: [key: 0..MaxKeys, offered: SUBSET Denoms, recoup: SUBSET Denoms]]
UpdatersOK == updater \in [Updaters -> UpdaterRecord] /\ AnswersOK
WorldTyped == world \in [key: 1..MaxKeys, revoked: SUBSET Denoms]
UpdatesOK == RecordOK /\ WorldTyped /\ UpdatersOK

LEMMA NoAnswerTyped ==
  IdleUpdater \in UpdaterRecord
  BY ExchangeAssumption DEF IdleUpdater, NoAnswer, UpdaterRecord

LEMMA UpdatesInit ==
  ASSUME Init
  PROVE  UpdatesOK
  <1>1. RecordOK
    BY ExchangeAssumption DEF Init, NoExchange, RecordOK, ExchangeRecord, StatusHasItsData
  <1>2. WorldTyped
    BY ExchangeAssumption DEF Init, WorldTyped
  <1>3. UpdatersOK
    BY NoAnswerTyped DEF Init, UpdatersOK, AnswersOK, At, IdleUpdater
  <1>. QED
    BY <1>1, <1>2, <1>3 DEF UpdatesOK

\* An update that goes on with an idle updater's locals, or ends, has no answer.
LEMMA WithoutAnswer ==
  ASSUME NEW u \in Updaters, NEW r \in UpdaterRecord, r.pc # "answered",
         UpdatersOK, updater' = [updater EXCEPT ![u] = r]
  PROVE  UpdatersOK'
  BY DEF UpdatersOK, AnswersOK, At

LEMMA GoingOn ==
  ASSUME NEW u \in Updaters, UpdatersOK,
         \/ Leave(u)
         \/ \E f \in {"keys", "wire", "terms", "finalize"} : Goto(u, f)
  PROVE  UpdatersOK'
  <1>1. \A f \in {"keys", "wire", "terms", "finalize"} :
          [IdleUpdater EXCEPT !.pc = "do", !.step = f] \in UpdaterRecord
    BY NoAnswerTyped DEF IdleUpdater, UpdaterRecord
  <1>2. CASE Leave(u)
    BY <1>2, NoAnswerTyped, WithoutAnswer DEF Leave, IdleUpdater
  <1>3. ASSUME NEW f \in {"keys", "wire", "terms", "finalize"}, Goto(u, f)
        PROVE  UpdatersOK'
    BY <1>1, <1>3, WithoutAnswer DEF Goto, IdleUpdater
  <1>. QED
    BY <1>2, <1>3

\* What the transactions put is a record, with these fields.
LEMMA RecordWithStatus ==
  ASSUME NEW e \in ExchangeRecord,
         NEW status \in {"FetchKeys", "FetchWire", "FetchTerms", "FinalizeUpdate", "Finished"}
  PROVE  LET f == [e EXCEPT !.status = status]
         IN /\ f \in ExchangeRecord /\ f.status = status
            /\ f.key = e.key /\ f.wire = e.wire /\ f.terms = e.terms
  BY DEF ExchangeRecord

LEMMA NewRecord ==
  NewExchange \in ExchangeRecord /\ NewExchange.status = "FetchKeys"
  <1>1. NoExchange \in ExchangeRecord
    BY ExchangeAssumption DEF NoExchange, ExchangeRecord
  <1>. QED
    BY <1>1, RecordWithStatus DEF NewExchange

LEMMA RecordWithKeys ==
  ASSUME NEW e \in ExchangeRecord, NEW key \in 0..MaxKeys
  PROVE  LET f == [e EXCEPT !.status = "FetchWire", !.key = key]
         IN f \in ExchangeRecord /\ f.status = "FetchWire" /\ f.key = key
  BY DEF ExchangeRecord

LEMMA RecordWithWire ==
  ASSUME NEW e \in ExchangeRecord, NEW wire \in 0..MaxKeys
  PROVE  LET f == [e EXCEPT !.status = "FetchTerms", !.wire = wire]
         IN f \in ExchangeRecord /\ f.status = "FetchTerms" /\ f.wire = wire /\ f.key = e.key
  BY DEF ExchangeRecord

Answer == [key: 0..MaxKeys, offered: SUBSET Denoms, recoup: SUBSET Denoms]
LEMMA UpdaterWithAnswer ==
  ASSUME NEW r \in UpdaterRecord, NEW answer \in Answer
  PROVE  LET t == [r EXCEPT !.pc = "answered", !.answer = answer]
         IN t \in UpdaterRecord /\ t.answer = answer
  BY DEF UpdaterRecord, Answer

\* Each update puts what it has only where the status says so, or all of it.
LEMMA UpdateStep ==
  ASSUME NEW u \in Updaters, Update(u), UpdatesOK
  PROVE  UpdatesOK'
  <1>. USE DEF UpdatesOK
  <1>1. WorldTyped'
    BY DEF WorldTyped, Update, UpdateExchange, AddExchange, RestartUpdate, Ask, Answers,
           UpdateFails, StoreKeys, StoreWire, FetchTerms, FinalizeUpdate
  <1>2. updater[u] \in UpdaterRecord
    BY DEF UpdatersOK
  <1>3. ASSUME UNCHANGED exchange
        PROVE  RecordOK'
    BY <1>3 DEF RecordOK, StatusHasItsData
  <1>4. CASE UpdateExchange(u)
    <2>1. UNCHANGED exchange
      BY <1>4 DEF UpdateExchange
    <2>2. \E pc \in {"add", "reset"} : updater' = [updater EXCEPT ![u] = [updater[u] EXCEPT !.pc = pc]]
      BY <1>2, <1>4 DEF UpdateExchange
    <2>3. UpdatersOK'
      BY <1>2, <2>2, WithoutAnswer DEF UpdaterRecord
    <2>. QED
      BY <1>1, <1>3, <2>1, <2>3
  <1>5. CASE AddExchange(u)
    <2>1. RecordOK'
      BY <1>5, NewRecord DEF AddExchange, Put, RecordOK, StatusHasItsData
    <2>2. UpdatersOK'
      BY <1>5, GoingOn DEF AddExchange
    <2>. QED
      BY <1>1, <2>1, <2>2
  <1>6. CASE RestartUpdate(u)
    <2>1. RecordOK'
      BY <1>6 DEF RestartUpdate, Put, RecordOK, ExchangeRecord, StatusHasItsData
    <2>2. UpdatersOK'
      BY <1>6, GoingOn DEF RestartUpdate
    <2>. QED
      BY <1>1, <2>1, <2>2
  <1>7. ASSUME NEW step \in Steps, Ask(u, step)
        PROVE  UpdatesOK'
    <2>1. UNCHANGED exchange
      BY <1>7 DEF Ask
    <2>2. step \in {"keys", "wire"} /\ After[step] \in {"wire", "terms"}
      BY DEF Steps, After
    <2>3. UpdatersOK'
      <3>1. CASE exchange.status = Turn[step]
        <4>. DEFINE details == IF step = "wire" THEN exchange.key ELSE 0
        <4>1. details \in 0..MaxKeys
          BY ExchangeAssumption DEF RecordOK, ExchangeRecord
        <4>2. updater' = [updater EXCEPT ![u] = [updater[u] EXCEPT !.pc = "asked", !.details = details]]
          BY <1>2, <1>7, <3>1 DEF Ask
        <4>. QED
          BY <1>2, <4>1, <4>2, WithoutAnswer DEF UpdaterRecord
      <3>2. CASE exchange.status # Turn[step]
        BY <1>7, <2>2, <3>2, GoingOn DEF Ask
      <3>. QED
        BY <3>1, <3>2
    <2>. QED
      BY <1>1, <1>3, <2>1, <2>3
  <1>8. ASSUME NEW step \in Steps, Answers(u, step)
        PROVE  UpdatesOK'
    <2>1. UNCHANGED exchange
      BY <1>8 DEF Answers
    <2>2. step \in {"keys", "wire"}
      BY DEF Steps, After
    <2>3. PICK answer \in Answer :
            answer.key \in 1..MaxKeys /\ updater' = [updater EXCEPT ![u] = [updater[u] EXCEPT !.pc = "answered", !.answer = answer]]
      <3>1. world.key \in 1..MaxKeys /\ world.revoked \subseteq Denoms
        BY DEF WorldTyped
      <3>. DEFINE Answered(answer) ==
             answer.key \in 1..MaxKeys /\ updater' = [updater EXCEPT ![u] = [updater[u] EXCEPT !.pc = "answered", !.answer = answer]]
      <3>2. CASE step = "keys"
        <4>. DEFINE answer == [key |-> world.key, recoup |-> world.revoked, offered |-> Denoms \ world.revoked]
        <4>1. answer \in Answer
          BY <3>1 DEF Answer
        <4>2. Answered(answer)
          BY <1>2, <1>8, <3>1, <3>2 DEF Answers
        <4>. QED
          BY <4>1, <4>2
      <3>3. CASE step = "wire"
        <4>. DEFINE answer == [NoAnswer EXCEPT !.key = world.key]
        <4>1. answer \in Answer
          BY <3>1 DEF NoAnswer, Answer
        <4>2. Answered(answer)
          BY <1>2, <1>8, <3>1, <3>3 DEF Answers, NoAnswer
        <4>. QED
          BY <4>1, <4>2
      <3>. QED
        BY <2>2, <3>2, <3>3
    <2>4. PICK t \in UpdaterRecord : updater' = [updater EXCEPT ![u] = t] /\ t.answer = answer
      BY <1>2, <2>3, UpdaterWithAnswer
    <2>5. /\ updater' \in [Updaters -> UpdaterRecord]
          /\ updater'[u] = t /\ \A v \in Updaters \ {u} : updater'[v] = updater[v]
      BY <2>4 DEF UpdatersOK
    <2>6. UpdatersOK'
      BY <2>3, <2>4, <2>5 DEF UpdatersOK, AnswersOK, At
    <2>. QED
      BY <1>1, <1>3, <2>1, <2>6
  <1>9. CASE UpdateFails(u)
    <2>1. UNCHANGED exchange
      BY <1>9 DEF UpdateFails
    <2>. QED
      BY <1>1, <1>3, <1>9, <2>1, GoingOn DEF UpdateFails
  <1>10. CASE StoreKeys(u)
    <2>1. updater[u].answer.key \in 1..MaxKeys
      BY <1>10 DEF StoreKeys, UpdatersOK, AnswersOK
    <2>2. updater[u].answer.key \in 0..MaxKeys /\ updater[u].answer.key > 0
      BY <2>1, ExchangeAssumption
    <2>3. RecordOK'
      BY <1>10, <2>2, RecordWithKeys DEF StoreKeys, Put, RecordOK, StatusHasItsData
    <2>4. UpdatersOK'
      BY <1>10, GoingOn DEF StoreKeys
    <2>. QED
      BY <1>1, <2>3, <2>4
  <1>11. CASE StoreWire(u)
    <2>1. updater[u].answer.key \in 1..MaxKeys
      BY <1>11 DEF StoreWire, UpdatersOK, AnswersOK
    <2>2. RecordOK'
      <3>1. CASE updater[u].answer.key # updater[u].details
        BY <1>3, <1>11, <3>1 DEF StoreWire
      <3>2. CASE updater[u].answer.key = updater[u].details
        <4>1. updater[u].details \in 0..MaxKeys /\ updater[u].details > 0
          BY <2>1, <3>2, ExchangeAssumption
        <4>2. CASE exchange.status = "FetchWire"
          <5>1. exchange' = [exchange EXCEPT !.status = "FetchTerms", !.wire = updater[u].details]
            BY <1>11, <3>2, <4>2 DEF StoreWire, Put, StillTurn, Turn
          <5>2. exchange \in ExchangeRecord /\ exchange.key > 0
            BY <4>2 DEF RecordOK, StatusHasItsData
          <5>3. exchange' \in ExchangeRecord /\ exchange'.status = "FetchTerms"
                /\ exchange'.wire = updater[u].details /\ exchange'.key = exchange.key
            BY <4>1, <5>1, <5>2, RecordWithWire
          <5>. QED
            BY <4>1, <5>2, <5>3 DEF RecordOK, StatusHasItsData
        <4>3. CASE exchange.status # "FetchWire"
          <5>1. UNCHANGED exchange
            BY <1>11, <3>2, <4>3 DEF StoreWire, Put, StillTurn, Turn
          <5>. QED
            BY <1>3, <5>1
        <4>. QED
          BY <4>2, <4>3
      <3>. QED
        BY <3>1, <3>2
    <2>3. UpdatersOK'
      BY <1>11, GoingOn DEF StoreWire
    <2>. QED
      BY <1>1, <2>2, <2>3
  <1>12. CASE FetchTerms(u)
    <2>1. RecordOK'
      BY <1>12 DEF FetchTerms, Put, StillTurn, Turn, RecordOK, ExchangeRecord, StatusHasItsData
    <2>. QED
      BY <1>1, <1>12, <2>1, GoingOn DEF FetchTerms
  <1>13. CASE FinalizeUpdate(u)
    <2>1. RecordOK'
      BY <1>13 DEF FinalizeUpdate, Put, RecordOK, ExchangeRecord, StatusHasItsData
    <2>. QED
      BY <1>1, <1>13, <2>1, GoingOn DEF FinalizeUpdate
  <1>. QED
    BY <1>4, <1>5, <1>6, <1>7, <1>8, <1>9, <1>10, <1>11, <1>12, <1>13 DEF Update

LEMMA UpdatesStep ==
  ASSUME UpdatesOK, [Next]_vars
  PROVE  UpdatesOK'
  <1>. USE DEF UpdatesOK
  <1>1. ASSUME UNCHANGED <<exchange, updater, world>>
        PROVE  UpdatesOK'
    BY <1>1 DEF RecordOK, StatusHasItsData, WorldTyped, UpdatersOK, AnswersOK, At
  <1>2. CASE \E u \in Updaters : Update(u)
    BY <1>2, UpdateStep
  <1>3. ASSUME NEW s \in Selectors,
               PossibleDenoms(s) \/ ReturnDenoms(s) \/ \E d \in Denoms : VerifyDenom(s, d)
        PROVE  UpdatesOK'
    BY <1>1, <1>3 DEF PossibleDenoms, ReturnDenoms, VerifyDenom
  <1>4. CASE AcceptTerms
    <2>1. RecordOK'
      BY <1>4 DEF AcceptTerms, Put, RecordOK, ExchangeRecord, StatusHasItsData
    <2>2. UNCHANGED <<updater, world>>
      BY <1>4 DEF AcceptTerms
    <2>. QED
      BY <2>1, <2>2 DEF WorldTyped, UpdatersOK, AnswersOK, At
  <1>5. CASE ExchangeChanges
    <2>1. WorldTyped'
      BY <1>5, ExchangeAssumption DEF ExchangeChanges, WorldTyped
    <2>2. UNCHANGED <<exchange, updater>>
      BY <1>5 DEF ExchangeChanges
    <2>. QED
      BY <2>1, <2>2 DEF RecordOK, StatusHasItsData, UpdatersOK, AnswersOK, At
  <1>6. CASE Restart
    <2>1. updater' = [u \in Updaters |-> IdleUpdater] /\ UNCHANGED <<exchange, world>>
      BY <1>6 DEF Restart
    <2>2. UpdatersOK'
      BY <2>1, NoAnswerTyped DEF UpdatersOK, AnswersOK, At, IdleUpdater
    <2>. QED
      BY <2>1, <2>2 DEF RecordOK, StatusHasItsData, WorldTyped
  <1>7. CASE RecoupStep /\ UNCHANGED exchangeVars
    BY <1>1, <1>7 DEF exchangeVars
  <1>8. CASE UNCHANGED vars
    BY <1>1, <1>8 DEF vars, exchangeVars
  <1>. QED
    BY <1>2, <1>3, <1>4, <1>5, <1>6, <1>7, <1>8 DEF Next

\* A record whose status says that a step of the update is done has what the step
\* fetches, however many updates are at it.
THEOREM StatusIsTrue == Spec => []StatusHasItsData
  BY UpdatesInit, UpdatesStep, PTL DEF Spec, UpdatesOK, RecordOK

-----------------------------------------------------------------------------
(* What revocations take.  A coin's value is in the wallet or in one group;  *)
(* recoups only move it to the coin that is paid back to.                    *)

Olds == UNION {[cs -> Nat] : cs \in SUBSET Coins}
GroupRecord ==
  [coins: SUBSET Coins, finished: SUBSET Coins, done: BOOLEAN, old: Olds,
   schedule: Seq(Coins)]
\* A group has an amount for each of its coins, and is finished with those that had none.
GroupOK(g) == /\ g.old \in [g.coins -> Nat]
              /\ \A c \in g.coins : g.old[c] > 0 \/ c \in g.finished
GroupsOK == group \in Seq(GroupRecord) /\ \A n \in DOMAIN group : GroupOK(group[n])
CoinsOK == coin \in [Coins -> CoinRecord]
\* A coin is recouped for the group that took its value.
RunsOK == \A c \in Coins : \A i \in Attempts :
            run[c][i] # "idle" => \E n \in DOMAIN group : TakenBy(n, c)
RunTyped == run \in [Coins -> [Attempts -> {"idle", "called", "answered"}]]
\* What was taken is not there any more.
TakenIsGone ==
  \A c \in Coins : GetsNothingBack(c) =>
    \A n \in DOMAIN group : TakenBy(n, c) => Present(c) /\ coin[c].amount = 0
RecoupsOK == GroupsOK /\ CoinsOK /\ RunsOK /\ TakenIsGone /\ TakenOnce

LEMMA RecoupsInit ==
  ASSUME InitRecoup
  PROVE  RecoupsOK /\ RunTyped
  <1>1. CoinsOK
    BY RecoupAssumption DEF InitRecoup, CoinsOK, CoinRecord
  <1>2. group = <<>> /\ run = [c \in Coins |-> [i \in Attempts |-> "idle"]]
    BY DEF InitRecoup
  <1>. QED
    BY <1>1, <1>2 DEF RecoupsOK, GroupsOK, RunsOK, TakenIsGone, TakenOnce, RunTyped

\* Groups that keep their coins and what was taken off them.
SameGroups == /\ DOMAIN group' = DOMAIN group
              /\ \A n \in DOMAIN group : /\ group'[n].coins = group[n].coins
                                        /\ group'[n].old = group[n].old
\* Nothing but a coin that others are paid back to becomes worth more.
NoGains == /\ coin' \in [Coins -> CoinRecord]
           /\ \A c \in Coins : Present(c) => coin'[c].status # "absent"
           /\ \A c \in Coins : GetsNothingBack(c) /\ Present(c) =>
                coin'[c].amount \in {coin[c].amount, 0}
LEMMA KeepsTaken ==
  ASSUME RecoupsOK, SameGroups, NoGains
  PROVE  CoinsOK' /\ TakenIsGone' /\ TakenOnce'
  BY DEF RecoupsOK, SameGroups, NoGains, CoinsOK, TakenIsGone, TakenOnce, TakenBy, Present

\* Recoups that are begun or end, for groups that stay as they are.
LEMMA KeepsRuns ==
  ASSUME RecoupsOK, SameGroups,
         \A c \in Coins : \A i \in Attempts : run'[c][i] # "idle" =>
           run[c][i] # "idle" \/ \E n \in DOMAIN group : TakenBy(n, c)
  PROVE  RunsOK'
  BY DEF RecoupsOK, SameGroups, RunsOK, TakenBy

\* A group may be marked as finished with one of its coins.
LEMMA MarkedGroup ==
  ASSUME NEW g \in GroupRecord, GroupOK(g), NEW c \in Coins, NEW schedule \in Seq(Coins)
  PROVE  LET h == PutGroupAsFinished([g EXCEPT !.schedule = schedule], c)
         IN h \in GroupRecord /\ GroupOK(h) /\ h.coins = g.coins /\ h.old = g.old
  <1>. DEFINE f == [g EXCEPT !.schedule = schedule]
              finished == f.finished \cup {c}
              done == (finished = f.coins)
  <1>1. f \in GroupRecord /\ GroupOK(f) /\ f.coins = g.coins /\ f.old = g.old
    BY DEF GroupRecord, GroupOK
  <1>2. finished \in SUBSET Coins /\ done \in BOOLEAN
    BY <1>1 DEF GroupRecord
  <1>3. PutGroupAsFinished(f, c) =
          IF f.done THEN f ELSE [f EXCEPT !.finished = finished, !.done = done]
    BY DEF PutGroupAsFinished
  <1>4. f.finished \subseteq finished
    OBVIOUS
  <1>. HIDE DEF f, finished, done
  <1>5. [f EXCEPT !.finished = finished, !.done = done] \in GroupRecord
    BY <1>1, <1>2 DEF GroupRecord
  <1>6. LET h == [f EXCEPT !.finished = finished, !.done = done]
        IN h.coins = f.coins /\ h.old = f.old /\ h.finished = finished
    BY <1>1, <1>2 DEF GroupRecord
  <1>7. GroupOK([f EXCEPT !.finished = finished, !.done = done])
    BY <1>1, <1>4, <1>6 DEF GroupOK
  <1>8. LET h == PutGroupAsFinished(f, c)
        IN h \in GroupRecord /\ GroupOK(h) /\ h.coins = g.coins /\ h.old = g.old
    BY <1>1, <1>3, <1>5, <1>6, <1>7
  <1>. QED
    BY <1>8 DEF f

LEMMA FinishKeepsGroups ==
  ASSUME RecoupsOK, NEW c \in Coins, NEW schedule \in Seq(Coins), FinishCoin(c, schedule)
  PROVE  GroupsOK' /\ SameGroups
  <1>. DEFINE n == GroupOf(c)
              h == PutGroupAsFinished([group[n] EXCEPT !.schedule = schedule], c)
  <1>1. group' = [group EXCEPT ![n] = h]
    BY DEF FinishCoin
  <1>2. CASE n \notin DOMAIN group
    <2>1. group' = group
      BY <1>1, <1>2 DEF RecoupsOK, GroupsOK
    <2>. QED
      BY <2>1 DEF RecoupsOK, GroupsOK, SameGroups
  <1>3. CASE n \in DOMAIN group
    <2>1. group[n] \in GroupRecord /\ GroupOK(group[n])
      BY <1>3 DEF RecoupsOK, GroupsOK
    <2>2. h \in GroupRecord /\ GroupOK(h) /\ h.coins = group[n].coins /\ h.old = group[n].old
      BY <2>1, MarkedGroup
    <2>. HIDE DEF h, n
    <2>3. group' \in Seq(GroupRecord) /\ DOMAIN group' = DOMAIN group
          /\ \A m \in DOMAIN group : group'[m] = IF m = n THEN h ELSE group[m]
      BY <1>1, <1>3, <2>2 DEF RecoupsOK, GroupsOK
    <2>. QED
      BY <2>2, <2>3 DEF RecoupsOK, GroupsOK, SameGroups
  <1>. QED
    BY <1>2, <1>3

\* A coin that is being recouped has a group that took its value.
LEMMA RunHasGroup ==
  ASSUME RecoupsOK, NEW c \in Coins, NEW i \in Attempts, run[c][i] # "idle"
  PROVE  /\ GroupOf(c) \in DOMAIN group /\ TakenBy(GroupOf(c), c)
         /\ Schedule(c) \in Seq(Coins) /\ group[GroupOf(c)].old[c] \in Nat
  <1>1. \E n \in DOMAIN group : c \in group[n].coins /\ group[n].old[c] > 0
    BY DEF RecoupsOK, RunsOK, TakenBy
  <1>2. GroupOf(c) \in DOMAIN group /\ TakenBy(GroupOf(c), c)
    BY <1>1 DEF GroupOf, TakenBy
  <1>3. group[GroupOf(c)] \in GroupRecord /\ GroupOK(group[GroupOf(c)])
    BY <1>2 DEF RecoupsOK, GroupsOK
  <1>. QED
    BY <1>2, <1>3 DEF GroupRecord, GroupOK, Schedule, TakenBy

\* A step that leaves coins and groups alone, and begins no recoup without a group.
LEMMA KeepsRecoups ==
  ASSUME RecoupsOK, UNCHANGED <<coin, group>>,
         \A c \in Coins : \A i \in Attempts : run'[c][i] # "idle" =>
           run[c][i] # "idle" \/ \E n \in DOMAIN group : TakenBy(n, c)
  PROVE  RecoupsOK'
  <1>1. SameGroups /\ NoGains
    BY DEF SameGroups, NoGains, RecoupsOK, CoinsOK, Present
  <1>2. GroupsOK'
    BY DEF RecoupsOK, GroupsOK
  <1>. QED
    BY <1>1, <1>2, KeepsTaken, KeepsRuns DEF RecoupsOK

\* Runs that come to their end, one way or the other.
LEMMA Ending ==
  ASSUME NEW c \in Coins, NEW i \in Attempts, RunTyped, Return(c, i) \/ Reject(c, i)
  PROVE  /\ RunTyped'
         /\ \A d \in Coins : \A j \in Attempts : run'[d][j] # "idle" => run[d][j] # "idle"
  <1>1. run' = [run EXCEPT ![c][i] = "idle"]
    BY DEF Return, Reject
  <1>. QED
    BY <1>1 DEF RunTyped

LEMMA CoinKeepsRecoups ==
  ASSUME RecoupsOK, RunTyped, NEW c \in Coins, NEW i \in Attempts, RecoupCoin(c, i)
  PROVE  RecoupsOK' /\ RunTyped'
  <1>1. run[c][i] # "idle" /\ (Return(c, i) \/ Reject(c, i))
    BY DEF RecoupCoin, RecoupTipCoin, RecoupWithdrawCoin, RecoupRefreshCoin
  <1>2. /\ RunTyped'
        /\ \A d \in Coins : \A j \in Attempts : run'[d][j] # "idle" => run[d][j] # "idle"
    BY <1>1, Ending
  <1>3. ASSUME UNCHANGED <<coin, group>>
        PROVE  RecoupsOK' /\ RunTyped'
    BY <1>2, <1>3, KeepsRecoups
  <1>4. ASSUME NEW schedule \in Seq(Coins), FinishCoin(c, schedule), NoGains
        PROVE  RecoupsOK' /\ RunTyped'
    <2>1. GroupsOK' /\ SameGroups
      BY <1>4, FinishKeepsGroups
    <2>2. CoinsOK' /\ TakenIsGone' /\ TakenOnce'
      BY <1>4, <2>1, KeepsTaken
    <2>3. RunsOK'
      BY <1>2, <2>1, KeepsRuns
    <2>. QED
      BY <1>2, <2>1, <2>2, <2>3 DEF RecoupsOK
  <1>5. Schedule(c) \in Seq(Coins) /\ group[GroupOf(c)].old[c] \in Nat
    BY <1>1, RunHasGroup
  <1>6. CASE RecoupTipCoin(c, i)
    <2>1. UNCHANGED coin
      BY <1>6 DEF RecoupTipCoin
    <2>2. NoGains
      BY <2>1 DEF NoGains, RecoupsOK, CoinsOK, Present
    <2>3. UNCHANGED group \/ FinishCoin(c, Schedule(c))
      BY <1>6 DEF RecoupTipCoin
    <2>. QED
      BY <1>3, <1>4, <1>5, <2>1, <2>2, <2>3
  <1>7. CASE RecoupWithdrawCoin(c, i)
    <2>1. \/ UNCHANGED <<coin, group>>
          \/ /\ FinishCoin(c, Schedule(c))
             /\ coin' = [coin EXCEPT ![c] = [status |-> "Dormant", amount |-> 0]]
      BY <1>7 DEF RecoupWithdrawCoin
    <2>2. ASSUME coin' = [coin EXCEPT ![c] = [status |-> "Dormant", amount |-> 0]]
          PROVE  NoGains
      BY <2>2 DEF NoGains, RecoupsOK, CoinsOK, CoinRecord, Present
    <2>. QED
      BY <1>3, <1>4, <1>5, <2>1, <2>2
  <1>8. CASE RecoupRefreshCoin(c, i)
    <2>. DEFINE old == group[GroupOf(c)].old[c]
    <2>1. \/ UNCHANGED <<coin, group>>
          \/ /\ FinishCoin(c, Append(Schedule(c), Old[c]))
             /\ coin' = [coin EXCEPT ![c].status = "Dormant", ![Old[c]].amount = @ + old]
      BY <1>8 DEF RecoupRefreshCoin
    <2>2. Source[c] = "Refresh" /\ Old[c] \in Coins
      BY <1>8, RecoupAssumption DEF RecoupRefreshCoin
    <2>3. Append(Schedule(c), Old[c]) \in Seq(Coins)
      BY <1>5, <2>2
    <2>4. ~GetsNothingBack(Old[c])
      BY <2>2 DEF GetsNothingBack, WasRefreshed
    <2>5. ASSUME coin' = [coin EXCEPT ![c].status = "Dormant", ![Old[c]].amount = @ + old]
          PROVE  NoGains
      <3>. HIDE DEF old
      <3>. DEFINE dormant == [coin EXCEPT ![c].status = "Dormant"]
      <3>1. old \in Nat
        BY <1>5 DEF old
      <3>2. dormant \in [Coins -> CoinRecord]
            /\ \A d \in Coins : /\ dormant[d].amount = coin[d].amount
                                /\ dormant[d].status \in {coin[d].status, "Dormant"}
        BY DEF RecoupsOK, CoinsOK, CoinRecord
      <3>3. coin' = [dormant EXCEPT ![Old[c]].amount = @ + old]
        BY <2>5
      <3>. HIDE DEF dormant
      <3>4. coin' \in [Coins -> CoinRecord]
            /\ \A d \in Coins : /\ d # Old[c] => coin'[d].amount = dormant[d].amount
                                /\ coin'[d].status = dormant[d].status
        BY <2>2, <3>1, <3>2, <3>3 DEF CoinRecord
      <3>. QED
        BY <2>4, <3>2, <3>4 DEF NoGains, Present
    <2>. QED
      BY <1>3, <1>4, <2>1, <2>3, <2>5
  <1>. QED
    BY <1>6, <1>7, <1>8 DEF RecoupCoin

LEMMA RecoupStepKeepsRecoups ==
  ASSUME RecoupsOK, RunTyped, RecoupStep
  PROVE  RecoupsOK' /\ RunTyped'
  <1>1. ASSUME NEW n \in DOMAIN group, NEW i \in Attempts, StartGroup(n, i)
        PROVE  RecoupsOK' /\ RunTyped'
    <2>. DEFINE todo == group[n].coins \ group[n].finished
    <2>1. UNCHANGED <<coin, group>>
      BY <1>1 DEF StartGroup, recoupDb
    <2>2. run' = [c \in Coins |-> IF c \in todo THEN [run[c] EXCEPT ![i] = "called"] ELSE run[c]]
      BY <1>1 DEF StartGroup
    <2>3. \A c \in todo : TakenBy(n, c)
      BY DEF RecoupsOK, GroupsOK, GroupOK, TakenBy
    <2>. HIDE DEF todo
    <2>4. RunTyped' /\ \A c \in Coins : \A j \in Attempts :
            run'[c][j] # "idle" => run[c][j] # "idle" \/ c \in todo
      BY <2>2 DEF RunTyped
    <2>. QED
      BY <2>1, <2>3, <2>4, KeepsRecoups
  <1>2. ASSUME NEW c \in Coins, NEW i \in Attempts, ExchangePaysBack(c, i)
        PROVE  RecoupsOK' /\ RunTyped'
    <2>1. /\ UNCHANGED <<coin, group>> /\ run[c][i] = "called"
          /\ run' = [run EXCEPT ![c][i] = "answered"]
      BY <1>2 DEF ExchangePaysBack, recoupDb
    <2>2. RunTyped' /\ \A d \in Coins : \A j \in Attempts :
            run'[d][j] # "idle" => run[d][j] # "idle"
      BY <2>1 DEF RunTyped
    <2>. QED
      BY <2>1, <2>2, KeepsRecoups
  <1>3. ASSUME NEW c \in Coins, NEW i \in Attempts, RecoupFails(c, i)
        PROVE  RecoupsOK' /\ RunTyped'
    <2>1. UNCHANGED <<coin, group>> /\ Reject(c, i)
      BY <1>3 DEF RecoupFails, recoupDb
    <2>. QED
      BY <2>1, Ending, KeepsRecoups
  <1>4. ASSUME QueryStep
        PROVE  RecoupsOK' /\ RunTyped'
    <2>1. UNCHANGED <<coin, group, run>>
      BY <1>4 DEF QueryStep, ForceQueryReserve, LoopProcessesReserve, ExchangeReports, QueryFails,
                  UpdateReserve, DepleteReserve, recoupDb
    <2>. QED
      BY <2>1, KeepsRecoups DEF RunTyped
  <1>5. ASSUME NEW c \in Coins, CoinArrives(c)
        PROVE  RecoupsOK' /\ RunTyped'
    <2>1. /\ ~Present(c) /\ UNCHANGED <<group, run>>
          /\ coin' = [coin EXCEPT ![c] = [status |-> "Fresh", amount |-> Amount[c]]]
      BY <1>5 DEF CoinArrives, activities
    <2>2. NoGains /\ SameGroups
      BY <2>1, RecoupAssumption
         DEF NoGains, SameGroups, RecoupsOK, CoinsOK, CoinRecord, Present
    <2>3. GroupsOK' /\ RunsOK' /\ RunTyped'
      BY <2>1 DEF RecoupsOK, GroupsOK, RunsOK, TakenBy, RunTyped
    <2>. QED
      BY <2>2, <2>3, KeepsTaken DEF RecoupsOK
  <1>. QED
    BY <1>1, <1>2, <1>3, <1>4, <1>5, CoinKeepsRecoups DEF RecoupStep

\* The group that new keys make takes from each coin what it has, and leaves nothing.
LEMMA CreationKeepsRecoups ==
  ASSUME RecoupsOK, RunTyped, UNCHANGED run, NEW cs \in SUBSET Coins,
         \A c \in cs : Present(c), CreateRecoupGroup(cs)
  PROVE  RecoupsOK' /\ RunTyped'
  <1>. DEFINE old == [c \in cs |-> coin[c].amount]
              g == [coins |-> cs, finished |-> Worthless(cs), done |-> (Worthless(cs) = cs),
                    old |-> old, schedule |-> <<>>]
              taken == [c \in Coins |-> IF c \in cs THEN [coin[c] EXCEPT !.amount = 0] ELSE coin[c]]
  <1>1. group' = Append(group, g) /\ coin' = taken
    BY DEF CreateRecoupGroup
  <1>2. old \in [cs -> Nat] /\ old \in Olds
    BY DEF RecoupsOK, CoinsOK, CoinRecord, Olds
  <1>3. Worthless(cs) \in SUBSET Coins /\ (Worthless(cs) = cs) \in BOOLEAN
    BY DEF Worthless
  <1>4. g \in GroupRecord
    BY <1>2, <1>3 DEF GroupRecord
  <1>5. GroupOK(g)
    BY <1>2 DEF GroupOK, Worthless
  <1>6. NoGains
    BY <1>1 DEF NoGains, RecoupsOK, CoinsOK, CoinRecord, Present
  <1>7. \A c \in cs : coin'[c].amount = 0
    BY <1>1 DEF RecoupsOK, CoinsOK, CoinRecord
  <1>8. g.coins = cs /\ g.old = old
    OBVIOUS
  <1>9. \A c \in cs : old[c] = coin[c].amount
    OBVIOUS
  <1>. HIDE DEF g, old, taken
  <1>10. /\ group' \in Seq(GroupRecord) /\ DOMAIN group' = DOMAIN group \cup {Len(group) + 1}
         /\ Len(group) + 1 \notin DOMAIN group /\ group'[Len(group) + 1] = g
         /\ \A n \in DOMAIN group : group'[n] = group[n]
    BY <1>1, <1>4 DEF RecoupsOK, GroupsOK
  <1>11. GroupsOK'
    BY <1>5, <1>10 DEF RecoupsOK, GroupsOK
  <1>12. RunsOK' /\ RunTyped'
    BY <1>10 DEF RecoupsOK, RunsOK, TakenBy, RunTyped
  <1>13. ASSUME NEW c \in Coins, GetsNothingBack(c)
         PROVE  /\ \A n \in DOMAIN group' : TakenBy(n, c)' => Present(c)' /\ coin'[c].amount = 0
                /\ \A m, n \in DOMAIN group' : TakenBy(m, c)' /\ TakenBy(n, c)' => m = n
    <2>1. \A n \in DOMAIN group : TakenBy(n, c)' <=> TakenBy(n, c)
      BY <1>10 DEF TakenBy
    <2>2. \A n \in DOMAIN group' : TakenBy(n, c)' =>
            n \in DOMAIN group \/ (n = Len(group) + 1 /\ c \in cs /\ coin[c].amount > 0)
      BY <1>8, <1>9, <1>10 DEF TakenBy
    <2>3. \A n \in DOMAIN group : TakenBy(n, c) => Present(c) /\ coin[c].amount = 0
      BY <1>13 DEF RecoupsOK, TakenIsGone
    <2>4. Present(c) => Present(c)'
      BY <1>6 DEF NoGains, Present
    <2>5. Present(c) => coin'[c].amount \in {coin[c].amount, 0}
      BY <1>6, <1>13 DEF NoGains
    <2>6. TakenOnce
      BY DEF RecoupsOK
    <2>7. \A m, n \in DOMAIN group : TakenBy(m, c) /\ TakenBy(n, c) => m = n
      BY <1>13, <2>6, Zenon DEF TakenOnce
    <2>8. \A n \in DOMAIN group' : TakenBy(n, c)' => Present(c)' /\ coin'[c].amount = 0
      BY <1>7, <2>1, <2>2, <2>3, <2>4, <2>5
    <2>9. \A m, n \in DOMAIN group' : TakenBy(m, c)' /\ TakenBy(n, c)' => m = n
      BY <2>1, <2>2, <2>3, <2>7
    <2>. QED
      BY <2>8, <2>9
  <1>14. TakenIsGone' /\ TakenOnce'
    BY <1>13 DEF TakenIsGone, TakenOnce, GetsNothingBack
  <1>15. CoinsOK'
    BY <1>6 DEF NoGains, CoinsOK
  <1>. QED
    BY <1>11, <1>12, <1>14, <1>15 DEF RecoupsOK

\* What a step does to the coins and their recoups, in Recoup by itself and with an
\* exchange whose keys bring the revocations.
Creates(cs) == (\A c \in cs : Present(c)) /\ CreateRecoupGroup(cs)
RecoupMove ==
  \/ RecoupStep
  \/ UNCHANGED <<run, balance>> /\ \E cs \in SUBSET Coins : Creates(cs)
  \/ UNCHANGED <<coin, group, balance>> /\ run' = [c \in Coins |-> [i \in Attempts |-> "idle"]]
  \/ UNCHANGED <<coin, group, run, balance>>

LEMMA KeysMove ==
  ASSUME NEW list, NEW known, HandleRecoupList(list, known)
  PROVE  UNCHANGED <<coin, group>> \/ \E cs \in SUBSET Coins : Creates(cs)
  BY DEF HandleRecoupList, Creates

LEMMA RecoupNextMoves ==
  ASSUME [RecoupNext]_recoupVars
  PROVE  RecoupMove
  <1>1. CASE KeysArrive
    <2>1. UNCHANGED <<run, balance>>
      BY <1>1 DEF KeysArrive, activities
    <2>. QED
      BY <1>1, <2>1, KeysMove DEF KeysArrive, RecoupMove
  <1>2. CASE Crash
    BY <1>2 DEF Crash, Forget, recoupDb, RecoupMove
  <1>3. CASE UNCHANGED recoupVars
    BY <1>3 DEF recoupVars, recoupDb, activities, RecoupMove
  <1>. QED
    BY <1>1, <1>2, <1>3 DEF RecoupNext, RecoupMove

LEMMA NextMoves ==
  ASSUME [Next]_vars
  PROVE  RecoupMove
  <1>1. ASSUME NEW u \in Updaters, Update(u)
        PROVE  RecoupMove
    <2>1. CASE StoreKeys(u)
      <3>1. UNCHANGED <<run, balance>>
        BY <2>1 DEF StoreKeys, activities
      <3>2. \E list, known : HandleRecoupList(list, known)
        BY <2>1 DEF StoreKeys
      <3>. QED
        BY <3>1, <3>2, KeysMove DEF RecoupMove
    <2>2. CASE ~StoreKeys(u)
      <3>1. UNCHANGED <<coin, group, run, balance>>
        BY <1>1, <2>2 DEF Update, UpdateExchange, AddExchange, RestartUpdate, Ask, Answers,
              UpdateFails, StoreWire, FetchTerms, FinalizeUpdate, recoupVars, recoupDb, activities
      <3>. QED
        BY <3>1 DEF RecoupMove
    <2>. QED
      BY <2>1, <2>2
  <1>2. ASSUME NEW s \in Selectors,
               PossibleDenoms(s) \/ ReturnDenoms(s) \/ \E d \in Denoms : VerifyDenom(s, d)
        PROVE  UNCHANGED <<coin, group, run, balance>>
    BY <1>2 DEF PossibleDenoms, ReturnDenoms, VerifyDenom, recoupVars, recoupDb, activities
  <1>3. ASSUME AcceptTerms \/ ExchangeChanges \/ UNCHANGED vars
        PROVE  UNCHANGED <<coin, group, run, balance>>
    BY <1>3 DEF AcceptTerms, ExchangeChanges, vars, recoupVars, recoupDb, activities
  <1>4. CASE Restart
    BY <1>4 DEF Restart, Forget, recoupDb, RecoupMove
  <1>. QED
    BY <1>1, <1>2, <1>3, <1>4 DEF Next, RecoupMove

LEMMA RecoupsStep ==
  ASSUME RecoupsOK, RunTyped, RecoupMove
  PROVE  RecoupsOK' /\ RunTyped'
  <1>1. CASE UNCHANGED <<run, balance>> /\ \E cs \in SUBSET Coins : Creates(cs)
    BY <1>1, CreationKeepsRecoups DEF Creates
  <1>2. CASE UNCHANGED <<coin, group>> /\ run' = [c \in Coins |-> [i \in Attempts |-> "idle"]]
    <2>1. RunTyped' /\ \A c \in Coins : \A i \in Attempts : run'[c][i] = "idle"
      BY <1>2 DEF RunTyped
    <2>. QED
      BY <1>2, <2>1, KeepsRecoups
  <1>3. CASE UNCHANGED <<coin, group, run>>
    BY <1>3, KeepsRecoups DEF RunTyped
  <1>. QED
    BY <1>1, <1>2, <1>3, RecoupStepKeepsRecoups DEF RecoupMove

LEMMA RecoupsAlways == Spec => [](RecoupsOK /\ RunTyped)
  <1>1. Init => RecoupsOK /\ RunTyped
    BY RecoupsInit DEF Init
  <1>2. RecoupsOK /\ RunTyped /\ [Next]_vars => (RecoupsOK /\ RunTyped)'
    BY NextMoves, RecoupsStep
  <1>. QED
    BY <1>1, <1>2, PTL DEF Spec

\* A coin's value is taken for recoup once, whatever is revoked again.
THEOREM NothingTakenTwice == Spec => []TakenOnce
  BY RecoupsAlways, PTL DEF RecoupsOK

-----------------------------------------------------------------------------
(* Where the value is while it is paid back, as long as nothing is to be     *)
(* paid back to a coin that was recouped itself (RecoupedGetNothing).        *)

\* A group that is done is finished with each of its coins.
DoneOK == \A n \in DOMAIN group : group[n].done => group[n].coins \subseteq group[n].finished
\* What a group has taken off a coin is there no more, and in no other group.
HeldOnce ==
  \A c \in Coins : \A n \in DOMAIN group : TakenBy(n, c) =>
    coin[c].amount = 0 /\ \A m \in DOMAIN group : TakenBy(m, c) => m = n
AbsentOK ==
  \A c \in Coins : ~Present(c) =>
    /\ coin[c].amount = 0 /\ balance[c] = 0 /\ c \notin Initial
    /\ \A n \in DOMAIN group : c \notin group[n].coins
\* The exchange answers when it has paid back, and keeps nothing.
AnsweredOK == \A c \in Coins : \A i \in Attempts : run[c][i] = "answered" => balance[c] = 0
DonePaid ==
  \A n \in DOMAIN group : \A c \in group[n].finished :
    TakenBy(n, c) /\ Source[c] # "Tip" => balance[c] = 0
RefreshedOK == \A c \in Coins : WasRefreshed(c) => coin[c].status = "Dormant"
LeftOK ==
  \A n \in DOMAIN group : \A c \in group[n].coins : ~WasRefreshed(c) => coin[c].amount = 0
BalanceTyped == balance \in [Coins -> Nat]
PlacesOK == /\ BalanceTyped /\ DoneOK /\ HeldOnce /\ AbsentOK /\ AnsweredOK /\ DonePaid
            /\ RefreshedOK /\ LeftOK
Tracked == PlacesOK /\ ValueIsTracked

\* What a group still has to get back for a coin.
InOpenGroup(c) == \E n \in DOMAIN group : Open(n, c)
Owed(c) == IF InOpenGroup(c) THEN group[GroupOf(c)].old[c] ELSE 0

OwedOK ==
  \A c \in Coins :
    /\ \A n \in DOMAIN group : TakenBy(n, c) =>
         GroupOf(c) = n /\ (InOpenGroup(c) <=> c \notin group[n].finished)
    /\ InOpenGroup(c) => GroupOf(c) \in DOMAIN group /\ TakenBy(GroupOf(c), c)
    /\ Owed(c) \in Nat /\ (InOpenGroup(c) <=> Owed(c) > 0)

LEMMA OwedIs == RecoupsOK /\ HeldOnce => OwedOK
  <1>. SUFFICES ASSUME RecoupsOK, HeldOnce, NEW c \in Coins
                PROVE  /\ \A n \in DOMAIN group : TakenBy(n, c) =>
                            GroupOf(c) = n /\ (InOpenGroup(c) <=> c \notin group[n].finished)
                       /\ InOpenGroup(c) => GroupOf(c) \in DOMAIN group /\ TakenBy(GroupOf(c), c)
                       /\ Owed(c) \in Nat /\ (InOpenGroup(c) <=> Owed(c) > 0)
    BY DEF OwedOK
  <1>1. \A n \in DOMAIN group : Open(n, c) => TakenBy(n, c)
    BY DEF RecoupsOK, GroupsOK, GroupOK, Open, TakenBy
  <1>2. ASSUME NEW n \in DOMAIN group, TakenBy(n, c)
        PROVE  GroupOf(c) = n
    <2>1. \A m \in DOMAIN group : c \in group[m].coins /\ group[m].old[c] > 0 <=> m = n
      BY <1>2 DEF HeldOnce, TakenBy
    <2>. QED
      BY <2>1 DEF GroupOf
  <1>3. ASSUME NEW n \in DOMAIN group, TakenBy(n, c)
        PROVE  InOpenGroup(c) <=> c \notin group[n].finished
    BY <1>1, <1>3 DEF InOpenGroup, Open, TakenBy, HeldOnce
  <1>4. InOpenGroup(c) => GroupOf(c) \in DOMAIN group /\ TakenBy(GroupOf(c), c)
    BY <1>1, <1>2 DEF InOpenGroup
  <1>5. ASSUME NEW n \in DOMAIN group, TakenBy(n, c)
        PROVE  group[n].old[c] \in Nat
    BY <1>5 DEF RecoupsOK, GroupsOK, GroupOK, TakenBy
  <1>6. Owed(c) \in Nat /\ (InOpenGroup(c) <=> Owed(c) > 0)
    <2>1. CASE InOpenGroup(c)
      BY <1>4, <1>5, <2>1 DEF Owed, TakenBy
    <2>2. CASE ~InOpenGroup(c)
      BY <2>2 DEF Owed
    <2>. QED
      BY <2>1, <2>2
  <1>. QED
    BY <1>2, <1>3, <1>4, <1>6

\* What each coin has paid back to c without the wallet's knowing it.
PaidTo(c) == [b \in Coins |->
  IF Source[b] = "Refresh" /\ Old[b] = c /\ balance[b] = 0 THEN Owed(b) ELSE 0]

SumsOK ==
  \A c \in Coins :
    /\ NaturalOn(PaidTo(c), Coins) /\ Sum(PaidTo(c), Coins) \in Nat
    /\ Unrecorded(c) = Sum(PaidTo(c), Coins)
    /\ Outstanding(c) = IF balance[c] > 0 THEN Owed(c) ELSE 0

LEMMA SumsAre == RecoupsOK /\ HeldOnce => SumsOK
  <1>. SUFFICES ASSUME RecoupsOK, HeldOnce, NEW c \in Coins
                PROVE  /\ NaturalOn(PaidTo(c), Coins) /\ Sum(PaidTo(c), Coins) \in Nat
                       /\ Unrecorded(c) = Sum(PaidTo(c), Coins)
                       /\ Outstanding(c) = IF balance[c] > 0 THEN Owed(c) ELSE 0
    BY DEF SumsOK
  <1>. DEFINE paid == {b \in Coins : /\ Source[b] = "Refresh" /\ Old[b] = c /\ balance[b] = 0
                                     /\ \E n \in DOMAIN group : Open(n, b)}
              f == [b \in Coins |-> Owed(b)]
              g == [b \in paid |-> group[GroupOf(b)].old[b]]
  <1>1. NaturalOn(PaidTo(c), Coins) /\ NaturalOn(f, Coins)
    BY OwedIs DEF OwedOK, NaturalOn, PaidTo
  <1>2. paid \subseteq Coins /\ IsFiniteSet(paid) /\ IsFiniteSet(Coins)
    <2>1. paid \subseteq Coins
      OBVIOUS
    <2>. HIDE DEF paid
    <2>. QED
      BY <2>1, RecoupAssumption, FS_Subset
  <1>3. \A b \in paid : g[b] = f[b]
    BY DEF Owed, InOpenGroup
  <1>4. PaidTo(c) = [b \in Coins |-> IF b \in paid THEN f[b] ELSE 0]
    <2>1. ASSUME NEW b \in Coins, Source[b] = "Refresh", Old[b] = c, balance[b] = 0
          PROVE  Owed(b) = IF b \in paid THEN f[b] ELSE 0
      BY <2>1 DEF Owed, InOpenGroup
    <2>2. ASSUME NEW b \in Coins
          PROVE  PaidTo(c)[b] = IF b \in paid THEN f[b] ELSE 0
      <3>1. CASE Source[b] = "Refresh" /\ Old[b] = c /\ balance[b] = 0
        BY <2>1, <3>1 DEF PaidTo
      <3>2. CASE ~(Source[b] = "Refresh" /\ Old[b] = c /\ balance[b] = 0)
        BY <3>2 DEF PaidTo
      <3>. QED
        BY <3>1, <3>2
    <2>. HIDE DEF paid, f
    <2>. QED
      BY <2>2 DEF PaidTo
  <1>5. Unrecorded(c) = Sum(g, paid)
    BY DEF Unrecorded
  <1>. HIDE DEF paid, f, g
  <1>6. NaturalOn(f, paid)
    BY <1>1, <1>2 DEF NaturalOn
  <1>7. Sum(g, paid) = Sum(f, paid)
    BY <1>2, <1>3, <1>6, SumsAgree
  <1>8. Sum(f, paid) = Sum(PaidTo(c), Coins)
    BY <1>1, <1>2, <1>4, SumOfPart
  <1>9. Sum(PaidTo(c), Coins) \in Nat
    BY <1>1, <1>2, SumIsNatural
  <1>10. Outstanding(c) = IF balance[c] > 0 THEN Owed(c) ELSE 0
    BY DEF Outstanding, Owed, InOpenGroup
  <1>. QED
    BY <1>1, <1>5, <1>7, <1>8, <1>9, <1>10

\* The value of a coin in these terms.
ValueOf(c) == coin[c].amount + (IF balance[c] > 0 THEN Owed(c) ELSE 0) + Sum(PaidTo(c), Coins)
ValuesOK == \A c \in Coins : Source[c] # "Tip" => balance[c] = ValueOf(c)
LEMMA ValueIs == RecoupsOK /\ HeldOnce => (ValueIsTracked <=> ValuesOK)
  BY SumsAre DEF SumsOK, ValueIsTracked, ValueOf, ValuesOK

\* A coin to which nobody's payment changes has what it had paid to it.
LEMMA PaymentsStay ==
  ASSUME NEW c \in Coins,
         \A b \in Coins : Source[b] = "Refresh" /\ Old[b] = c => PaidTo(c)'[b] = PaidTo(c)[b]
  PROVE  Sum(PaidTo(c), Coins)' = Sum(PaidTo(c), Coins)
  <1>1. PaidTo(c)' = PaidTo(c)
    BY DEF PaidTo
  <1>. QED
    BY <1>1

LEMMA TrackedInit ==
  ASSUME InitRecoup
  PROVE  Tracked
  <1>1. /\ group = <<>> /\ run = [c \in Coins |-> [i \in Attempts |-> "idle"]]
        /\ balance = [c \in Coins |-> IF c \in Initial THEN Amount[c] ELSE 0]
    BY DEF InitRecoup
  <1>2. \A c \in Coins :
          /\ coin[c].amount = IF c \in Initial THEN Amount[c] ELSE 0
          /\ coin[c].status = IF c \notin Initial THEN "absent"
                              ELSE IF Amount[c] = 0 \/ WasRefreshed(c) THEN "Dormant" ELSE "Fresh"
    BY DEF InitRecoup
  <1>3. \A c \in Coins : WasRefreshed(c) => c \in Initial
    BY RecoupAssumption DEF WasRefreshed
  <1>4. PlacesOK
    BY <1>1, <1>2, <1>3, RecoupAssumption DEF PlacesOK, BalanceTyped, DoneOK, HeldOnce, AbsentOK,
       AnsweredOK, DonePaid, RefreshedOK, LeftOK, Present
  <1>5. RecoupsOK
    BY RecoupsInit
  <1>6. ASSUME NEW c \in Coins
        PROVE  balance[c] = ValueOf(c)
    <2>1. \A b \in Coins : Owed(b) = 0
      BY <1>1 DEF Owed, InOpenGroup
    <2>2. \A b \in Coins : PaidTo(c)[b] = 0
      BY <2>1 DEF PaidTo
    <2>3. Sum(PaidTo(c), Coins) = 0
      BY <2>2, RecoupAssumption, SumOfZeros
    <2>. QED
      BY <1>1, <1>2, <2>1, <2>3, RecoupAssumption DEF ValueOf
  <1>. QED
    BY <1>4, <1>5, <1>6, ValueIs DEF Tracked, PlacesOK, ValuesOK

\* A step of which coins, groups and the exchange know nothing.
LEMMA KeepsTracked ==
  ASSUME RecoupsOK, RecoupsOK', Tracked, UNCHANGED <<coin, group>>,
         \A c \in Coins : balance'[c] = balance[c], balance' \in [Coins -> Nat],
         \A c \in Coins : \A i \in Attempts :
           run'[c][i] = "answered" => run[c][i] = "answered" \/ balance[c] = 0
  PROVE  Tracked'
  <1>1. balance' = balance
    BY DEF Tracked, PlacesOK, BalanceTyped
  <1>2. PlacesOK'
    BY <1>1 DEF Tracked, PlacesOK, BalanceTyped, DoneOK, HeldOnce, AbsentOK,
       AnsweredOK, DonePaid, RefreshedOK, LeftOK, Present, TakenBy
  <1>3. \A b \in Coins : Owed(b)' = Owed(b)
    BY DEF Owed, InOpenGroup, Open, GroupOf
  <1>4. ASSUME NEW c \in Coins
        PROVE  ValueOf(c)' = ValueOf(c)
    <2>1. Sum(PaidTo(c), Coins)' = Sum(PaidTo(c), Coins)
      BY <1>1, <1>3, PaymentsStay DEF PaidTo
    <2>. QED
      BY <1>1, <1>3, <2>1 DEF ValueOf
  <1>5. HeldOnce /\ HeldOnce'
    BY <1>2 DEF Tracked, PlacesOK
  <1>6. ValuesOK /\ (ValueIsTracked <=> ValuesOK)'
    BY <1>5, ValueIs, PTL DEF Tracked
  <1>7. ValuesOK'
    BY <1>1, <1>4, <1>6 DEF ValuesOK
  <1>. QED
    BY <1>2, <1>6, <1>7 DEF Tracked

\* Nothing was paid to a coin that a group has taken, and nothing will be.
LEMMA TakenGetNothing ==
  ASSUME RecoupsOK, Tracked, RecoupedGetNothing, NEW n \in DOMAIN group,
         NEW c \in Coins, TakenBy(n, c)
  PROVE  /\ \A b \in Coins : Source[b] = "Refresh" /\ Old[b] = c => ~InOpenGroup(b)
         /\ Sum(PaidTo(c), Coins) = 0 /\ coin[c].amount = 0
         /\ Source[c] # "Tip" => balance[c] = IF balance[c] > 0 THEN Owed(c) ELSE 0
  <1>1. c \in Valuable(n)
    BY DEF Valuable, TakenBy
  <1>2. \A b \in Coins : Source[b] = "Refresh" /\ Old[b] = c => ~InOpenGroup(b)
    BY <1>1 DEF RecoupedGetNothing, InOpenGroup
  <1>3. \A b \in Coins : PaidTo(c)[b] = 0
    BY <1>2 DEF PaidTo, Owed
  <1>4. Sum(PaidTo(c), Coins) = 0
    BY <1>3, RecoupAssumption, SumOfZeros
  <1>5. coin[c].amount = 0 /\ HeldOnce
    BY DEF Tracked, PlacesOK, HeldOnce
  <1>6. Source[c] # "Tip" => balance[c] = ValueOf(c)
    BY <1>5, ValueIs DEF Tracked, ValuesOK
  <1>7. Owed(c) \in Nat
    BY <1>5, OwedIs DEF OwedOK
  <1>. QED
    BY <1>2, <1>4, <1>5, <1>6, <1>7 DEF ValueOf

\* The exchange pays back: what is on record stays what it is worth.
LEMMA PaysBackTracked ==
  ASSUME RecoupsOK, RecoupsOK', RunTyped, Tracked, RecoupedGetNothing,
         NEW c \in Coins, NEW i \in Attempts, ExchangePaysBack(c, i)
  PROVE  Tracked'
  <1>1. /\ UNCHANGED <<coin, group>> /\ run[c][i] = "called" /\ Source[c] # "Tip"
        /\ run' = [run EXCEPT ![c][i] = "answered"]
        /\ balance' = [d \in Coins |->
             CASE d = c -> 0
               [] d # c /\ Source[c] = "Refresh" /\ d = Old[c] -> balance[d] + balance[c]
               [] OTHER -> balance[d]]
    BY DEF ExchangePaysBack, recoupDb
  <1>2. balance \in [Coins -> Nat] /\ HeldOnce
    BY DEF Tracked, PlacesOK, BalanceTyped
  <1>3. \A d \in Coins : balance'[d] =
          IF d = c THEN 0
          ELSE IF Source[c] = "Refresh" /\ d = Old[c] THEN balance[d] + balance[c] ELSE balance[d]
    BY <1>1
  <1>4. balance' \in [Coins -> Nat]
    BY <1>1, <1>2, <1>3
  <1>5. \A d \in Coins : \A j \in Attempts :
          run'[d][j] = "answered" => run[d][j] = "answered" \/ d = c
    BY <1>1 DEF RunTyped
  <1>6. CASE balance[c] = 0
    <2>1. \A d \in Coins : balance'[d] = balance[d]
      BY <1>2, <1>3, <1>6
    <2>. QED
      BY <1>1, <1>4, <1>5, <1>6, <2>1, KeepsTracked
  <1>7. CASE balance[c] # 0
    <2>. DEFINE n == GroupOf(c)
                GetsBack(d) == Source[c] = "Refresh" /\ d = Old[c]
    <2>1. n \in DOMAIN group /\ TakenBy(n, c)
      BY <1>1, RunHasGroup
    <2>2. balance[c] > 0 /\ balance[c] = Owed(c) /\ InOpenGroup(c)
      <3>1. balance[c] > 0
        BY <1>2, <1>7
      <3>2. balance[c] = Owed(c)
        BY <1>1, <2>1, <3>1, TakenGetNothing
      <3>. QED
        BY <1>2, <3>1, <3>2, OwedIs DEF OwedOK
    <2>. HIDE DEF n
    <2>3. \A d \in Coins : GetsBack(d) => d # c /\ \A m \in DOMAIN group : ~TakenBy(m, d)
      BY <2>1, <2>2 DEF RecoupedGetNothing, InOpenGroup, Valuable, TakenBy
    <2>4. \A d \in Coins : GetsBack(d) => ~InOpenGroup(d) /\ Owed(d) = 0
      BY <1>2, <2>3, OwedIs DEF Owed, OwedOK
    <2>5. \A b \in Coins : Owed(b)' = Owed(b)
      BY <1>1 DEF Owed, InOpenGroup, Open, GroupOf
    <2>6. PlacesOK'
      <3>1. BalanceTyped' /\ DoneOK' /\ HeldOnce' /\ RefreshedOK' /\ LeftOK'
        BY <1>1, <1>4 DEF Tracked, PlacesOK, BalanceTyped, DoneOK, HeldOnce, RefreshedOK, LeftOK,
           TakenBy
      <3>2. AbsentOK'
        <4>1. ASSUME NEW d \in Coins, GetsBack(d)
              PROVE  d \in Initial
          BY <4>1, RecoupAssumption
        <4>. QED
          BY <1>1, <1>3, <4>1 DEF Tracked, PlacesOK, AbsentOK, Present
      <3>3. AnsweredOK'
        <4>1. \A d \in Coins : \A j \in Attempts :
                run[d][j] = "answered" => \E m \in DOMAIN group : TakenBy(m, d)
          BY DEF RecoupsOK, RunsOK
        <4>. QED
          BY <1>3, <1>5, <2>3, <4>1 DEF Tracked, PlacesOK, AnsweredOK
      <3>4. DonePaid'
        <4>1. \A m \in DOMAIN group : group[m] \in GroupRecord
          BY DEF RecoupsOK, GroupsOK
        <4>2. \A m \in DOMAIN group : group[m].finished \subseteq Coins
          BY <4>1 DEF GroupRecord
        <4>. QED
          BY <1>1, <1>3, <2>3, <4>2 DEF Tracked, PlacesOK, DonePaid, TakenBy
      <3>. QED
        BY <3>1, <3>2, <3>3, <3>4 DEF PlacesOK
    <2>7. ASSUME NEW d \in Coins, NEW b \in Coins, Source[b] = "Refresh" /\ Old[b] = d
          PROVE  PaidTo(d)'[b] = PaidTo(d)[b] + IF b = c THEN Owed(c) ELSE 0
      <3>1. PaidTo(d)[b] = IF balance[b] = 0 THEN Owed(b) ELSE 0
        BY <2>7 DEF PaidTo
      <3>2. PaidTo(d)'[b] = IF balance'[b] = 0 THEN Owed(b) ELSE 0
        BY <2>5, <2>7 DEF PaidTo
      <3>3. Owed(b) \in Nat
        BY <1>2, OwedIs DEF OwedOK
      <3>4. CASE b = c
        BY <1>3, <2>2, <3>1, <3>2, <3>3, <3>4
      <3>5. CASE b # c /\ GetsBack(b)
        BY <2>4, <3>1, <3>2, <3>5
      <3>6. CASE b # c /\ ~GetsBack(b)
        BY <1>3, <3>1, <3>2, <3>3, <3>6
      <3>. QED
        BY <3>4, <3>5, <3>6
    <2>8. \A d \in Coins : NaturalOn(PaidTo(d), Coins) /\ Sum(PaidTo(d), Coins) \in Nat
      BY <1>2, SumsAre DEF SumsOK
    <2>9. \A d \in Coins : NaturalOn(PaidTo(d), Coins)' /\ Sum(PaidTo(d), Coins)' \in Nat
      <3>1. (RecoupsOK /\ HeldOnce)'
        BY <2>6 DEF PlacesOK
      <3>2. SumsOK'
        BY <3>1, SumsAre, PTL
      <3>. QED
        BY <3>2 DEF SumsOK
    <2>10. ASSUME NEW d \in Coins
           PROVE  Sum(PaidTo(d), Coins)' = Sum(PaidTo(d), Coins) + IF GetsBack(d) THEN Owed(c) ELSE 0
      <3>1. CASE GetsBack(d)
        <4>. DEFINE f == PaidTo(d)
                    g == PaidTo(d)'
        <4>1. g[c] = f[c] + Owed(c)
          BY <2>7, <3>1
        <4>2. \A b \in Coins \ {c} : g[b] = f[b]
          <5>1. ASSUME NEW b \in Coins \ {c}
                PROVE  g[b] = f[b]
            <6>1. CASE Source[b] = "Refresh" /\ Old[b] = d
              BY <2>7, <2>8, <6>1 DEF NaturalOn
            <6>2. CASE ~(Source[b] = "Refresh" /\ Old[b] = d)
              BY <6>2 DEF PaidTo
            <6>. QED
              BY <6>1, <6>2
          <5>. QED
            BY <5>1
        <4>3. NaturalOn(f, Coins) /\ NaturalOn(g, Coins) /\ Sum(f, Coins) \in Nat /\ Sum(g, Coins) \in Nat
          BY <2>8, <2>9 DEF NaturalOn
        <4>. HIDE DEF f, g
        <4>4. Sum(g, Coins) + f[c] = Sum(f, Coins) + g[c]
          BY <4>2, <4>3, RecoupAssumption, SumChanges
        <4>5. f[c] \in Nat /\ Owed(c) \in Nat
          BY <1>2, <4>3, OwedIs DEF NaturalOn, OwedOK
        <4>6. Sum(g, Coins) = Sum(f, Coins) + Owed(c)
          BY <4>1, <4>3, <4>4, <4>5
        <4>. QED
          BY <3>1, <4>6 DEF f, g
      <3>2. CASE ~GetsBack(d)
        <4>1. \A b \in Coins : Source[b] = "Refresh" /\ Old[b] = d => PaidTo(d)'[b] = PaidTo(d)[b]
          BY <2>7, <2>8, <3>2 DEF NaturalOn
        <4>2. Sum(PaidTo(d), Coins)' = Sum(PaidTo(d), Coins)
          BY <4>1, PaymentsStay
        <4>. QED
          BY <2>8, <3>2, <4>2
      <3>. QED
        BY <3>1, <3>2
    <2>11. ASSUME NEW d \in Coins, Source[d] # "Tip"
           PROVE  balance'[d] = ValueOf(d)'
      <3>1. balance[d] = ValueOf(d)
        BY <1>2, <2>11, ValueIs DEF Tracked, ValuesOK
      <3>2. ValueOf(d)' = coin[d].amount + (IF balance'[d] > 0 THEN Owed(d) ELSE 0)
                          + Sum(PaidTo(d), Coins)'
        BY <1>1, <2>5 DEF ValueOf
      <3>3. coin[d].amount \in Nat /\ Owed(d) \in Nat /\ balance[d] \in Nat /\ balance'[d] \in Nat
        BY <1>2, <1>4, OwedIs DEF RecoupsOK, CoinsOK, CoinRecord, OwedOK
      <3>4. CASE d = c
        <4>1. Sum(PaidTo(c), Coins) = 0 /\ coin[c].amount = 0 /\ ~GetsBack(c)
          BY <2>1, <2>3, TakenGetNothing
        <4>. QED
          BY <1>3, <2>10, <3>2, <3>4, <4>1
      <3>5. CASE GetsBack(d)
        <4>1. d # c /\ Owed(d) = 0
          BY <2>3, <2>4, <3>5
        <4>2. balance'[d] = balance[d] + Owed(c)
          BY <1>3, <2>2, <3>5, <4>1
        <4>3. Sum(PaidTo(d), Coins)' = Sum(PaidTo(d), Coins) + Owed(c)
          BY <2>10, <3>5
        <4>4. balance[d] = coin[d].amount + Sum(PaidTo(d), Coins)
          BY <2>8, <3>1, <3>3, <4>1 DEF ValueOf
        <4>5. Owed(c) \in Nat
          BY <1>2, OwedIs DEF OwedOK
        <4>. QED
          BY <2>8, <3>2, <3>3, <4>1, <4>2, <4>3, <4>4, <4>5
      <3>6. CASE d # c /\ ~GetsBack(d)
        <4>1. balance'[d] = balance[d]
          BY <1>3, <3>6
        <4>. QED
          BY <2>8, <2>10, <3>1, <3>2, <3>6, <4>1 DEF ValueOf
      <3>. QED
        BY <3>4, <3>5, <3>6
    <2>12. (RecoupsOK /\ HeldOnce)'
      BY <2>6 DEF PlacesOK
    <2>13. (ValueIsTracked <=> ValuesOK)'
      BY <2>12, ValueIs, PTL
    <2>. QED
      BY <2>6, <2>11, <2>13 DEF Tracked, ValuesOK
  <1>. QED
    BY <1>6, <1>7

\* It marks the one coin.
LEMMA FinishMarks ==
  ASSUME RecoupsOK, DoneOK, NEW c \in Coins, NEW schedule \in Seq(Coins),
         TakenBy(GroupOf(c), c), GroupOf(c) \in DOMAIN group, ~AlreadyDone(c),
         FinishCoin(c, schedule)
  PROVE  /\ SameGroups
         /\ \A m \in DOMAIN group : \A d \in Coins :
              d \in group'[m].finished <=> d \in group[m].finished \/ (m = GroupOf(c) /\ d = c)
         /\ \A m \in DOMAIN group : group'[m].done => group'[m].coins \subseteq group'[m].finished
  <1>. DEFINE n == GroupOf(c)
              f == [group[n] EXCEPT !.schedule = schedule]
              h == PutGroupAsFinished(f, c)
  <1>1. SameGroups
    BY FinishKeepsGroups
  <1>2. group[n] \in GroupRecord
    BY DEF RecoupsOK, GroupsOK
  <1>3. ~group[n].done
    BY DEF DoneOK, TakenBy, AlreadyDone
  <1>4. f.done = group[n].done /\ f.finished = group[n].finished /\ f.coins = group[n].coins
        /\ f \in GroupRecord
    BY <1>2 DEF GroupRecord
  <1>5. group' = [group EXCEPT ![n] = h]
    BY DEF FinishCoin
  <1>. HIDE DEF f
  <1>6. h = [f EXCEPT !.finished = f.finished \cup {c}, !.done = (f.finished \cup {c} = f.coins)]
    BY <1>3, <1>4 DEF PutGroupAsFinished
  <1>7. h.finished = group[n].finished \cup {c} /\ h.coins = group[n].coins
        /\ h.done = (group[n].finished \cup {c} = group[n].coins)
    BY <1>4, <1>6 DEF GroupRecord
  <1>. HIDE DEF h
  <1>8. \A m \in DOMAIN group : group'[m] = IF m = n THEN h ELSE group[m]
    BY <1>5 DEF RecoupsOK, GroupsOK
  <1>. HIDE DEF n
  <1>. QED
    BY <1>1, <1>7, <1>8 DEF DoneOK, n

\* Groups are of coins.
OfCoins == \A n \in DOMAIN group : group[n].coins \subseteq Coins /\ group[n].finished \subseteq Coins
LEMMA GroupsOfCoins == RecoupsOK => OfCoins
  <1>1. RecoupsOK => \A n \in DOMAIN group : group[n] \in GroupRecord
    BY DEF RecoupsOK, GroupsOK
  <1>2. \A g \in GroupRecord : g.coins \subseteq Coins /\ g.finished \subseteq Coins
    BY DEF GroupRecord
  <1>. QED
    BY <1>1, <1>2 DEF OfCoins

\* Recording a recoup takes its coin out of its group, and no other.
LEMMA FinishCloses ==
  ASSUME RecoupsOK, RecoupsOK', PlacesOK, HeldOnce', NEW c \in Coins, NEW schedule \in Seq(Coins),
         TakenBy(GroupOf(c), c), GroupOf(c) \in DOMAIN group, ~AlreadyDone(c),
         FinishCoin(c, schedule)
  PROVE  \A d \in Coins : Owed(d)' = IF d = c THEN 0 ELSE Owed(d)
  <1>. DEFINE n == GroupOf(c)
  <1>1. SameGroups /\ \A m \in DOMAIN group : \A d \in Coins :
          d \in group'[m].finished <=> d \in group[m].finished \/ (m = n /\ d = c)
    BY FinishMarks DEF PlacesOK
  <1>2. OwedOK /\ OwedOK'
    <2>1. OwedOK
      BY OwedIs DEF PlacesOK
    <2>. QED
      BY <2>1, OwedIs, PTL
  <1>3. HeldOnce
    BY DEF PlacesOK
  <1>. HIDE DEF n
  <1>4. \A m \in DOMAIN group : \A d \in Coins : TakenBy(m, d)' <=> TakenBy(m, d)
    BY <1>1 DEF SameGroups, TakenBy
  <1>5. ASSUME NEW d \in Coins
        PROVE  Owed(d)' = IF d = c THEN 0 ELSE Owed(d)
    <2>1. CASE \E m \in DOMAIN group : TakenBy(m, d)
      <3>1. PICK m \in DOMAIN group : TakenBy(m, d)
        BY <2>1
      <3>2. m \in DOMAIN group' /\ TakenBy(m, d)'
        BY <1>1, <1>4, <3>1 DEF SameGroups
      <3>3. GroupOf(d) = m /\ (InOpenGroup(d) <=> d \notin group[m].finished)
        BY <1>2, <3>1 DEF OwedOK
      <3>4. GroupOf(d)' = m /\ (InOpenGroup(d)' <=> d \notin group'[m].finished)
        BY <1>2, <3>2 DEF OwedOK
      <3>5. group'[m].old = group[m].old
        BY <1>1 DEF SameGroups
      <3>6. d = c => m = n
        BY <3>3 DEF n
      <3>. QED
        BY <1>1, <3>3, <3>4, <3>5, <3>6 DEF Owed
    <2>2. CASE ~\E m \in DOMAIN group : TakenBy(m, d)
      <3>1. ~InOpenGroup(d)
        BY <1>2, <2>2 DEF OwedOK
      <3>2. ~InOpenGroup(d)'
        <4>1. InOpenGroup(d)' => \E m \in DOMAIN group' : TakenBy(m, d)'
          BY <1>2 DEF OwedOK
        <4>. QED
          BY <1>1, <1>4, <2>2, <4>1 DEF SameGroups
      <3>. QED
        BY <3>1, <3>2 DEF Owed
    <2>. QED
      BY <2>1, <2>2
  <1>. QED
    BY <1>5

\* A sum of which one term is dropped lacks that term.
LEMMA OneTermGoes ==
  ASSUME NEW c \in Coins, NEW f, NaturalOn(f, Coins), Sum(f, Coins) \in Nat,
         NEW g, NaturalOn(g, Coins), Sum(g, Coins) \in Nat,
         g[c] = 0, \A b \in Coins \ {c} : g[b] = f[b]
  PROVE  Sum(g, Coins) + f[c] = Sum(f, Coins)
  <1>1. Sum(g, Coins) + f[c] = Sum(f, Coins) + g[c]
    BY RecoupAssumption, SumChanges
  <1>2. f[c] \in Nat
    BY DEF NaturalOn
  <1>. QED
    BY <1>1, <1>2

\* A recoup that is recorded: what the exchange paid back is what its coin had.
LEMMA RecordingTracked ==
  ASSUME RecoupsOK, RecoupsOK', Tracked, RecoupedGetNothing,
         NEW c \in Coins, NEW i \in Attempts, run[c][i] # "idle",
         NEW schedule \in Seq(Coins), ~AlreadyDone(c), FinishCoin(c, schedule), UNCHANGED balance,
         \A d \in Coins : \A j \in Attempts : run'[d][j] = "answered" => run[d][j] = "answered",
         Source[c] # "Tip" => balance[c] = 0,
         \A d \in Coins :
           /\ coin'[d].amount = coin[d].amount
                                + IF Source[c] = "Refresh" /\ d = Old[c] THEN Owed(c) ELSE 0
           /\ coin'[d].status = coin[d].status \/ (d = c /\ coin'[d].status = "Dormant")
  PROVE  Tracked'
  <1>. DEFINE n == GroupOf(c)
              GetsBack(d) == Source[c] = "Refresh" /\ d = Old[c]
  <1>1. n \in DOMAIN group /\ TakenBy(n, c)
    BY RunHasGroup
  <1>2. /\ SameGroups
        /\ \A m \in DOMAIN group : \A d \in Coins :
             d \in group'[m].finished <=> d \in group[m].finished \/ (m = n /\ d = c)
        /\ \A m \in DOMAIN group : group'[m].done => group'[m].coins \subseteq group'[m].finished
    BY <1>1, FinishMarks DEF Tracked, PlacesOK
  <1>3. PlacesOK /\ OwedOK /\ SumsOK /\ ValuesOK
    BY OwedIs, SumsAre, ValueIs DEF Tracked, PlacesOK
  <1>4. InOpenGroup(c) /\ c \in group[n].coins
    BY <1>1, <1>3 DEF OwedOK, AlreadyDone, TakenBy
  <1>. HIDE DEF n
  <1>5. \A m \in DOMAIN group : \A d \in Coins : TakenBy(m, d)' <=> TakenBy(m, d)
    BY <1>2 DEF SameGroups, TakenBy
  <1>6. \A d \in Coins : GetsBack(d) => d \in Initial /\ d # c
                                        /\ WasRefreshed(d) /\ \A m \in DOMAIN group : ~TakenBy(m, d)
    BY <1>1, <1>4, RecoupAssumption DEF RecoupedGetNothing, InOpenGroup, Valuable, TakenBy, WasRefreshed
  <1>7. \A d \in Coins : coin[d].amount \in Nat /\ Owed(d) \in Nat
    BY <1>3 DEF RecoupsOK, CoinsOK, CoinRecord, OwedOK
  <1>8. HeldOnce'
    <2>1. ASSUME NEW d \in Coins, NEW m \in DOMAIN group, TakenBy(m, d)
          PROVE  coin'[d].amount = 0
      <3>1. coin[d].amount = 0
        BY <1>3, <2>1 DEF HeldOnce, PlacesOK
      <3>2. ~GetsBack(d)
        BY <1>6, <2>1
      <3>. QED
        BY <3>1, <3>2
    <2>2. DOMAIN group' = DOMAIN group
      BY <1>2 DEF SameGroups
    <2>. QED
      BY <1>3, <1>5, <2>1, <2>2 DEF HeldOnce, PlacesOK
  <1>9. PlacesOK'
    <2>1. BalanceTyped' /\ DoneOK' /\ AnsweredOK'
      BY <1>2, <1>3 DEF PlacesOK, BalanceTyped, DoneOK, AnsweredOK, SameGroups
    <2>2. AbsentOK'
      <3>1. Present(c)
        BY <1>1, <1>3, <1>4 DEF PlacesOK, AbsentOK
      <3>2. \A d \in Coins : ~Present(d)' => ~Present(d) /\ ~GetsBack(d)
        <4>1. \A d \in Coins : GetsBack(d) => Present(d)
          BY <1>3, <1>6 DEF PlacesOK, AbsentOK
        <4>. QED
          BY <3>1, <4>1 DEF Present
      <3>3. \A d \in Coins : ~GetsBack(d) => coin'[d].amount = coin[d].amount
        BY <1>7
      <3>. HIDE DEF GetsBack
      <3>. QED
        BY <1>2, <1>3, <3>2, <3>3 DEF PlacesOK, AbsentOK, SameGroups
    <2>3. DonePaid'
      <3>1. OfCoins'
        BY GroupsOfCoins, PTL
      <3>. QED
        BY <1>2, <1>3, <1>5, <3>1 DEF PlacesOK, DonePaid, SameGroups, OfCoins
    <2>4. RefreshedOK'
      BY <1>3 DEF PlacesOK, RefreshedOK
    <2>5. LeftOK'
      <3>1. OfCoins'
        BY GroupsOfCoins, PTL
      <3>2. \A d \in Coins : ~WasRefreshed(d) => coin'[d].amount = coin[d].amount
        BY <1>6, <1>7
      <3>. QED
        BY <1>2, <1>3, <3>1, <3>2 DEF PlacesOK, LeftOK, SameGroups, OfCoins
    <2>. QED
      BY <1>8, <2>1, <2>2, <2>3, <2>4, <2>5 DEF PlacesOK
  <1>10. \A d \in Coins : Owed(d)' = IF d = c THEN 0 ELSE Owed(d)
    BY <1>1, <1>3, <1>8, FinishCloses DEF n
  <1>11. SumsOK' /\ (ValueIsTracked <=> ValuesOK)'
    BY <1>8, SumsAre, ValueIs, PTL
  <1>12. ASSUME NEW d \in Coins, NEW b \in Coins
         PROVE  PaidTo(d)'[b] = IF b = c THEN 0 ELSE PaidTo(d)[b]
    BY <1>10 DEF PaidTo
  <1>13. \A d \in Coins : PaidTo(d)[c] = IF GetsBack(d) THEN Owed(c) ELSE 0
    BY DEF PaidTo
  <1>14. ASSUME NEW d \in Coins
         PROVE  Sum(PaidTo(d), Coins)' + (IF GetsBack(d) THEN Owed(c) ELSE 0) = Sum(PaidTo(d), Coins)
    <2>. DEFINE f == PaidTo(d)
                g == PaidTo(d)'
    <2>1. g[c] = 0 /\ \A b \in Coins \ {c} : g[b] = f[b]
      BY <1>12
    <2>2. NaturalOn(f, Coins) /\ Sum(f, Coins) \in Nat
      BY <1>3 DEF SumsOK
    <2>3. NaturalOn(g, Coins) /\ Sum(g, Coins) \in Nat
      BY <1>11 DEF SumsOK, NaturalOn
    <2>4. f[c] = IF GetsBack(d) THEN Owed(c) ELSE 0
      BY <1>13
    <2>. HIDE DEF f, g
    <2>5. Sum(g, Coins) + f[c] = Sum(f, Coins)
      BY <2>1, <2>2, <2>3, OneTermGoes
    <2>. QED
      BY <2>4, <2>5 DEF f, g
  <1>15. ASSUME NEW d \in Coins, Source[d] # "Tip"
         PROVE  balance'[d] = ValueOf(d)'
    <2>1. balance[d] = coin[d].amount + (IF balance[d] > 0 THEN Owed(d) ELSE 0) + Sum(PaidTo(d), Coins)
      BY <1>3, <1>15 DEF ValuesOK, ValueOf
    <2>2. (IF balance'[d] > 0 THEN Owed(d)' ELSE 0) = IF balance[d] > 0 THEN Owed(d) ELSE 0
      BY <1>10, <1>15
    <2>3. ValueOf(d)' = coin'[d].amount + (IF balance[d] > 0 THEN Owed(d) ELSE 0)
                        + Sum(PaidTo(d), Coins)'
      BY <2>2 DEF ValueOf
    <2>4. Sum(PaidTo(d), Coins) \in Nat /\ Sum(PaidTo(d), Coins)' \in Nat
      BY <1>3, <1>11 DEF SumsOK
    <2>5. coin'[d].amount = coin[d].amount + IF GetsBack(d) THEN Owed(c) ELSE 0
      OBVIOUS
    <2>. HIDE DEF GetsBack
    <2>. QED
      BY <1>7, <1>14, <2>1, <2>3, <2>4, <2>5
  <1>. QED
    BY <1>9, <1>11, <1>15 DEF Tracked, ValuesOK

\* What the processing of a coin leaves on record, done, refused or recorded.
LEMMA RecoupCoinTracked ==
  ASSUME RecoupsOK, RecoupsOK', RunTyped, Tracked, RecoupedGetNothing,
         NEW c \in Coins, NEW i \in Attempts, RecoupCoin(c, i)
  PROVE  Tracked'
  <1>1. /\ run[c][i] # "idle" /\ UNCHANGED balance
        /\ run' = [run EXCEPT ![c][i] = "idle"]
    BY DEF RecoupCoin, RecoupTipCoin, RecoupWithdrawCoin, RecoupRefreshCoin, Return, Reject
  <1>2. \A d \in Coins : \A j \in Attempts : run'[d][j] = "answered" => run[d][j] = "answered"
    BY <1>1 DEF RunTyped
  <1>3. balance \in [Coins -> Nat] /\ HeldOnce
    BY DEF Tracked, PlacesOK, BalanceTyped
  <1>4. CASE UNCHANGED <<coin, group>>
    BY <1>1, <1>2, <1>3, <1>4, KeepsTracked
  <1>5. /\ GroupOf(c) \in DOMAIN group /\ TakenBy(GroupOf(c), c)
        /\ Schedule(c) \in Seq(Coins) /\ coin[c].amount = 0
        /\ group[GroupOf(c)].old[c] \in Nat
    BY <1>1, <1>3, RunHasGroup DEF HeldOnce
  <1>6. coin \in [Coins -> CoinRecord] /\ \A d \in Coins : coin[d].amount \in Nat
    BY DEF RecoupsOK, CoinsOK, CoinRecord
  <1>7. run[c][i] = "answered" => balance[c] = 0
    BY DEF Tracked, PlacesOK, AnsweredOK
  <1>8. CASE RecoupTipCoin(c, i)
    <2>1. Source[c] = "Tip" /\ UNCHANGED coin
      BY <1>8 DEF RecoupTipCoin
    <2>2. UNCHANGED group \/ (~AlreadyDone(c) /\ FinishCoin(c, Schedule(c)))
      BY <1>8 DEF RecoupTipCoin
    <2>3. CASE ~AlreadyDone(c) /\ FinishCoin(c, Schedule(c))
      BY <1>1, <1>2, <1>5, <1>6, <2>1, <2>3, RecordingTracked
    <2>. QED
      BY <1>4, <2>1, <2>2, <2>3
  <1>9. CASE RecoupWithdrawCoin(c, i)
    <2>1. Source[c] = "Withdraw" /\ run[c][i] = "answered"
      BY <1>9 DEF RecoupWithdrawCoin
    <2>2. \/ UNCHANGED <<coin, group>>
          \/ /\ ~AlreadyDone(c) /\ FinishCoin(c, Schedule(c))
             /\ coin' = [coin EXCEPT ![c] = [status |-> "Dormant", amount |-> 0]]
      BY <1>9 DEF RecoupWithdrawCoin
    <2>3. CASE /\ ~AlreadyDone(c) /\ FinishCoin(c, Schedule(c))
               /\ coin' = [coin EXCEPT ![c] = [status |-> "Dormant", amount |-> 0]]
      <3>1. \A d \in Coins : /\ coin'[d].amount = coin[d].amount
                             /\ coin'[d].status = coin[d].status \/ (d = c /\ coin'[d].status = "Dormant")
        BY <1>5, <1>6, <2>3
      <3>. QED
        BY <1>1, <1>2, <1>5, <1>6, <1>7, <2>1, <2>3, <3>1, RecordingTracked
    <2>. QED
      BY <1>4, <2>2, <2>3
  <1>10. CASE RecoupRefreshCoin(c, i)
    <2>. DEFINE old == group[GroupOf(c)].old[c]
    <2>1. Source[c] = "Refresh" /\ run[c][i] = "answered"
      BY <1>10 DEF RecoupRefreshCoin
    <2>2. \/ UNCHANGED <<coin, group>>
          \/ /\ ~AlreadyDone(c) /\ FinishCoin(c, Append(Schedule(c), Old[c]))
             /\ coin' = [coin EXCEPT ![c].status = "Dormant", ![Old[c]].amount = @ + old]
      BY <1>10 DEF RecoupRefreshCoin
    <2>3. CASE /\ ~AlreadyDone(c) /\ FinishCoin(c, Append(Schedule(c), Old[c]))
               /\ coin' = [coin EXCEPT ![c].status = "Dormant", ![Old[c]].amount = @ + old]
      <3>1. Old[c] \in Coins /\ Append(Schedule(c), Old[c]) \in Seq(Coins)
        BY <1>5, <2>1, RecoupAssumption
      <3>2. old = Owed(c)
        <4>1. InOpenGroup(c)
          BY <1>3, <1>5, <2>3, OwedIs DEF OwedOK, AlreadyDone
        <4>. QED
          BY <4>1 DEF Owed
      <3>3. old \in Nat
        BY <1>5
      <3>. HIDE DEF old
      <3>. DEFINE dormant == [coin EXCEPT ![c].status = "Dormant"]
      <3>4. dormant \in [Coins -> CoinRecord]
            /\ \A d \in Coins : /\ dormant[d].amount = coin[d].amount
                                /\ dormant[d].status = IF d = c THEN "Dormant" ELSE coin[d].status
        BY <1>6 DEF CoinRecord
      <3>5. coin' = [dormant EXCEPT ![Old[c]].amount = @ + old]
        BY <2>3
      <3>. HIDE DEF dormant
      <3>6. \A d \in Coins : /\ coin'[d].amount = dormant[d].amount + IF d = Old[c] THEN old ELSE 0
                             /\ coin'[d].status = dormant[d].status
        BY <1>6, <3>1, <3>3, <3>4, <3>5 DEF CoinRecord
      <3>7. \A d \in Coins :
              /\ coin'[d].amount = coin[d].amount
                                   + IF Source[c] = "Refresh" /\ d = Old[c] THEN Owed(c) ELSE 0
              /\ coin'[d].status = coin[d].status \/ (d = c /\ coin'[d].status = "Dormant")
        BY <2>1, <3>2, <3>4, <3>6
      <3>. QED
        BY <1>1, <1>2, <1>7, <2>1, <2>3, <3>1, <3>7, RecordingTracked
    <2>. QED
      BY <1>4, <2>2, <2>3
  <1>. QED
    BY <1>8, <1>9, <1>10 DEF RecoupCoin

\* New keys: the group takes what the coins have, and has it from then on.
LEMMA CreationTracked ==
  ASSUME RecoupsOK, RecoupsOK', Tracked, NEW cs \in SUBSET Coins, Creates(cs),
         UNCHANGED <<run, balance>>
  PROVE  Tracked'
  <1>0. PICK N : N = Len(group) + 1
    OBVIOUS
  <1>. DEFINE New(c) == c \in cs /\ coin[c].amount > 0
  <1>1. /\ DOMAIN group' = DOMAIN group \cup {N} /\ N \notin DOMAIN group
        /\ \A m \in DOMAIN group : group'[m] = group[m]
        /\ group'[N].coins = cs /\ group'[N].finished = Worthless(cs)
        /\ group'[N].done = (Worthless(cs) = cs)
        /\ \A c \in cs : group'[N].old[c] = coin[c].amount
    <2>. DEFINE g == [coins |-> cs, finished |-> Worthless(cs), done |-> (Worthless(cs) = cs),
                      old |-> [c \in cs |-> coin[c].amount], schedule |-> <<>>]
    <2>1. group' = Append(group, g)
      BY DEF Creates, CreateRecoupGroup
    <2>2. /\ g.coins = cs /\ g.finished = Worthless(cs) /\ g.done = (Worthless(cs) = cs)
          /\ \A c \in cs : g.old[c] = coin[c].amount
      OBVIOUS
    <2>. HIDE DEF g
    <2>. QED
      BY <1>0, <2>1, <2>2 DEF RecoupsOK, GroupsOK
  <1>2. \A c \in Coins : /\ coin'[c].status = coin[c].status
                         /\ coin'[c].amount = IF c \in cs THEN 0 ELSE coin[c].amount
                         /\ coin[c].amount \in Nat
    BY DEF Creates, CreateRecoupGroup, RecoupsOK, CoinsOK, CoinRecord
  <1>3. PlacesOK /\ OwedOK /\ SumsOK /\ ValuesOK
    BY OwedIs, SumsAre, ValueIs DEF Tracked, PlacesOK
  <1>4. \A c \in cs : Present(c)
    BY DEF Creates
  <1>5. /\ \A c \in Coins : \A m \in DOMAIN group : TakenBy(m, c)' <=> TakenBy(m, c)
        /\ \A c \in Coins : TakenBy(N, c)' <=> New(c)
    BY <1>1 DEF TakenBy
  <1>6. \A c \in Coins : New(c) => \A m \in DOMAIN group : ~TakenBy(m, c)
    BY <1>3 DEF PlacesOK, HeldOnce
  <1>7. HeldOnce'
    BY <1>1, <1>2, <1>3, <1>5, <1>6 DEF PlacesOK, HeldOnce
  <1>8. PlacesOK'
    <2>1. BalanceTyped' /\ AnsweredOK' /\ RefreshedOK'
      BY <1>2, <1>3 DEF PlacesOK, BalanceTyped, AnsweredOK, RefreshedOK
    <2>2. DoneOK'
      BY <1>1, <1>3 DEF PlacesOK, DoneOK
    <2>3. AbsentOK'
      BY <1>1, <1>2, <1>3, <1>4 DEF PlacesOK, AbsentOK, Present
    <2>4. DonePaid'
      <3>1. \A m \in DOMAIN group : group[m].finished \subseteq Coins
        BY GroupsOfCoins DEF OfCoins
      <3>2. \A c \in Worthless(cs) : c \in Coins /\ ~New(c)
        BY DEF Worthless
      <3>. QED
        BY <1>1, <1>3, <1>5, <3>1, <3>2 DEF PlacesOK, DonePaid
    <2>5. LeftOK'
      <3>1. \A m \in DOMAIN group : group[m].coins \subseteq Coins
        BY GroupsOfCoins DEF OfCoins
      <3>. QED
        BY <1>1, <1>2, <1>3, <3>1 DEF PlacesOK, LeftOK
    <2>. QED
      BY <1>7, <2>1, <2>2, <2>3, <2>4, <2>5 DEF PlacesOK
  <1>9. OwedOK' /\ SumsOK' /\ (ValueIsTracked <=> ValuesOK)'
    BY <1>7, OwedIs, SumsAre, ValueIs, PTL
  <1>10. ASSUME NEW c \in Coins
         PROVE  Owed(c)' = IF New(c) THEN coin[c].amount ELSE Owed(c)
    <2>1. CASE New(c)
      <3>1. GroupOf(c)' = N /\ (InOpenGroup(c)' <=> c \notin group'[N].finished)
        BY <1>1, <1>5, <1>9, <2>1 DEF OwedOK
      <3>2. c \notin Worthless(cs)
        BY <2>1 DEF Worthless
      <3>. QED
        BY <1>1, <2>1, <3>1, <3>2 DEF Owed
    <2>2. CASE ~New(c) /\ \E m \in DOMAIN group : TakenBy(m, c)
      <3>1. PICK m \in DOMAIN group : TakenBy(m, c)
        BY <2>2
      <3>2. GroupOf(c) = m /\ (InOpenGroup(c) <=> c \notin group[m].finished)
        BY <1>3, <3>1 DEF OwedOK
      <3>3. GroupOf(c)' = m /\ (InOpenGroup(c)' <=> c \notin group'[m].finished)
        BY <1>1, <1>5, <1>9, <3>1 DEF OwedOK
      <3>. QED
        BY <1>1, <2>2, <3>2, <3>3 DEF Owed
    <2>3. CASE ~New(c) /\ ~\E m \in DOMAIN group : TakenBy(m, c)
      <3>1. ~InOpenGroup(c)
        BY <1>3, <2>3 DEF OwedOK
      <3>2. ~InOpenGroup(c)'
        <4>1. InOpenGroup(c)' => \E m \in DOMAIN group' : TakenBy(m, c)'
          BY <1>9 DEF OwedOK
        <4>. QED
          BY <1>1, <1>5, <2>3, <4>1
      <3>. QED
        BY <2>3, <3>1, <3>2 DEF Owed
    <2>. QED
      BY <2>1, <2>2, <2>3
  <1>11. \A c \in Coins : New(c) => Owed(c) = 0
    BY <1>3, <1>6 DEF OwedOK, Owed
  <1>12. ASSUME NEW c \in Coins, New(c), Source[c] # "Tip"
         PROVE  balance[c] > 0
    <2>1. balance[c] = ValueOf(c) /\ Sum(PaidTo(c), Coins) \in Nat /\ Owed(c) \in Nat
      BY <1>3, <1>12 DEF ValuesOK, SumsOK, OwedOK
    <2>. QED
      BY <1>2, <1>12, <2>1 DEF ValueOf
  <1>13. ASSUME NEW d \in Coins
         PROVE  Sum(PaidTo(d), Coins)' = Sum(PaidTo(d), Coins)
    <2>1. ASSUME NEW b \in Coins, Source[b] = "Refresh", Old[b] = d
          PROVE  PaidTo(d)'[b] = PaidTo(d)[b]
      <3>1. CASE New(b)
        BY <1>12, <2>1, <3>1 DEF PaidTo
      <3>2. CASE ~New(b)
        BY <1>10, <3>2 DEF PaidTo
      <3>. QED
        BY <3>1, <3>2
    <2>. QED
      BY <2>1, PaymentsStay
  <1>14. ASSUME NEW c \in Coins, Source[c] # "Tip"
         PROVE  balance'[c] = ValueOf(c)'
    <2>1. balance[c] = coin[c].amount + (IF balance[c] > 0 THEN Owed(c) ELSE 0) + Sum(PaidTo(c), Coins)
      BY <1>3, <1>14 DEF ValuesOK, ValueOf
    <2>2. ValueOf(c)' = coin'[c].amount + (IF balance[c] > 0 THEN Owed(c)' ELSE 0)
                        + Sum(PaidTo(c), Coins)
      BY <1>13 DEF ValueOf
    <2>3. Sum(PaidTo(c), Coins) \in Nat /\ coin[c].amount \in Nat /\ balance[c] \in Nat
      BY <1>2, <1>3 DEF SumsOK, PlacesOK, BalanceTyped
    <2>4. CASE New(c)
      <3>1. balance[c] > 0 /\ Owed(c) = 0 /\ Owed(c)' = coin[c].amount /\ coin'[c].amount = 0
        BY <1>2, <1>10, <1>11, <1>12, <1>14, <2>4
      <3>. HIDE DEF New
      <3>. QED
        BY <2>1, <2>2, <2>3, <3>1
    <2>5. CASE ~New(c)
      <3>1. Owed(c)' = Owed(c) /\ coin'[c].amount = coin[c].amount
        BY <1>2, <1>10, <2>5
      <3>. QED
        BY <2>1, <2>2, <3>1
    <2>. QED
      BY <2>4, <2>5
  <1>. QED
    BY <1>8, <1>9, <1>14 DEF Tracked, ValuesOK

\* A coin that arrives is nobody's, and nobody has anything for it.
LEMMA ArrivalTracked ==
  ASSUME RecoupsOK, RecoupsOK', Tracked, NEW c \in Coins, CoinArrives(c)
  PROVE  Tracked'
  <1>1. /\ ~Present(c) /\ UNCHANGED <<group, run>>
        /\ coin' = [coin EXCEPT ![c] = [status |-> "Fresh", amount |-> Amount[c]]]
        /\ balance' = [balance EXCEPT ![c] = Amount[c]]
    BY DEF CoinArrives, activities
  <1>2. PlacesOK /\ OwedOK /\ SumsOK /\ ValuesOK
    BY OwedIs, SumsAre, ValueIs DEF Tracked, PlacesOK
  <1>3. /\ c \notin Initial /\ coin[c].amount = 0 /\ balance[c] = 0
        /\ \A n \in DOMAIN group : c \notin group[n].coins
    BY <1>1, <1>2 DEF PlacesOK, AbsentOK
  <1>4. ~WasRefreshed(c) /\ \A n \in DOMAIN group : ~TakenBy(n, c)
    BY <1>3, RecoupAssumption DEF WasRefreshed, TakenBy
  <1>5. Amount[c] \in Nat
    BY RecoupAssumption
  <1>6. \A d \in Coins :
          /\ coin'[d].amount = IF d = c THEN Amount[c] ELSE coin[d].amount
          /\ coin'[d].status = IF d = c THEN "Fresh" ELSE coin[d].status
          /\ balance'[d] = IF d = c THEN Amount[c] ELSE balance[d]
    BY <1>1, <1>2 DEF PlacesOK, BalanceTyped, RecoupsOK, CoinsOK, CoinRecord
  <1>7. PlacesOK'
    <2>1. BalanceTyped'
      BY <1>1, <1>2, <1>5 DEF PlacesOK, BalanceTyped
    <2>2. \A m \in DOMAIN group : group[m].coins \subseteq Coins /\ group[m].finished \subseteq Coins
      BY GroupsOfCoins DEF OfCoins
    <2>3. DoneOK' /\ HeldOnce' /\ AbsentOK'
      BY <1>1, <1>2, <1>4, <1>6 DEF PlacesOK, DoneOK, HeldOnce, AbsentOK, Present, TakenBy
    <2>4. AnsweredOK'
      <3>1. \A j \in Attempts : run[c][j] = "idle"
        BY <1>4 DEF RecoupsOK, RunsOK
      <3>. QED
        BY <1>1, <1>2, <1>6, <3>1 DEF PlacesOK, AnsweredOK
    <2>5. DonePaid' /\ RefreshedOK' /\ LeftOK'
      BY <1>1, <1>2, <1>3, <1>4, <1>6, <2>2 DEF PlacesOK, DonePaid, RefreshedOK, LeftOK, TakenBy
    <2>. QED
      BY <2>1, <2>3, <2>4, <2>5 DEF PlacesOK
  <1>8. \A d \in Coins : Owed(d)' = Owed(d)
    BY <1>1 DEF Owed, InOpenGroup, Open, GroupOf
  <1>9. Owed(c) = 0
    BY <1>2, <1>4 DEF OwedOK, Owed
  <1>10. \A d \in Coins : Sum(PaidTo(d), Coins)' = Sum(PaidTo(d), Coins)
    <2>1. ASSUME NEW d \in Coins, NEW b \in Coins, Source[b] = "Refresh" /\ Old[b] = d
          PROVE  PaidTo(d)'[b] = PaidTo(d)[b]
      <3>1. CASE b = c
        BY <1>8, <1>9, <3>1 DEF PaidTo
      <3>2. CASE b # c
        BY <1>6, <1>8, <3>2 DEF PaidTo
      <3>. QED
        BY <3>1, <3>2
    <2>. QED
      BY <2>1, PaymentsStay
  <1>11. ASSUME NEW d \in Coins, Source[d] # "Tip"
         PROVE  balance'[d] = ValueOf(d)'
    <2>1. balance[d] = coin[d].amount + (IF balance[d] > 0 THEN Owed(d) ELSE 0) + Sum(PaidTo(d), Coins)
      BY <1>2, <1>11 DEF ValuesOK, ValueOf
    <2>2. ValueOf(d)' = coin'[d].amount + (IF balance'[d] > 0 THEN Owed(d) ELSE 0)
                        + Sum(PaidTo(d), Coins)
      BY <1>8, <1>10 DEF ValueOf
    <2>3. Sum(PaidTo(d), Coins) \in Nat
      BY <1>2 DEF SumsOK
    <2>. QED
      BY <1>3, <1>5, <1>6, <1>9, <2>1, <2>2, <2>3
  <1>12. HeldOnce'
    BY <1>7 DEF PlacesOK
  <1>13. (ValueIsTracked <=> ValuesOK)'
    BY <1>12, ValueIs, PTL
  <1>. QED
    BY <1>7, <1>11, <1>13 DEF Tracked, ValuesOK

LEMMA TrackedStep ==
  ASSUME RecoupsOK, RecoupsOK', RunTyped, Tracked, RecoupedGetNothing, RecoupMove
  PROVE  Tracked'
  <1>0. balance \in [Coins -> Nat]
    BY DEF Tracked, PlacesOK, BalanceTyped
  <1>1. ASSUME UNCHANGED <<coin, group, balance>>,
               \A c \in Coins : \A i \in Attempts :
                 run'[c][i] = "answered" => run[c][i] = "answered"
        PROVE  Tracked'
    BY <1>0, <1>1, KeepsTracked
  <1>2. CASE UNCHANGED <<run, balance>> /\ \E cs \in SUBSET Coins : Creates(cs)
    BY <1>2, CreationTracked
  <1>3. CASE UNCHANGED <<coin, group, balance>> /\ run' = [c \in Coins |-> [i \in Attempts |-> "idle"]]
    BY <1>1, <1>3
  <1>4. CASE UNCHANGED <<coin, group, run, balance>>
    BY <1>1, <1>4
  <1>5. CASE RecoupStep
    <2>1. ASSUME NEW n \in DOMAIN group, NEW i \in Attempts, StartGroup(n, i)
          PROVE  Tracked'
      <3>. DEFINE todo == group[n].coins \ group[n].finished
      <3>1. UNCHANGED <<coin, group, balance>>
            /\ run' = [c \in Coins |-> IF c \in todo THEN [run[c] EXCEPT ![i] = "called"] ELSE run[c]]
        BY <2>1 DEF StartGroup, recoupDb
      <3>. HIDE DEF todo
      <3>2. \A c \in Coins : \A j \in Attempts : run'[c][j] = "answered" => run[c][j] = "answered"
        BY <3>1 DEF RunTyped
      <3>. QED
        BY <1>1, <3>1, <3>2
    <2>2. ASSUME NEW c \in Coins, NEW i \in Attempts, ExchangePaysBack(c, i)
          PROVE  Tracked'
      BY <2>2, PaysBackTracked
    <2>3. ASSUME NEW c \in Coins, NEW i \in Attempts, RecoupFails(c, i)
          PROVE  Tracked'
      <3>1. UNCHANGED <<coin, group, balance>> /\ run' = [run EXCEPT ![c][i] = "idle"]
        BY <2>3 DEF RecoupFails, Reject, recoupDb
      <3>2. \A d \in Coins : \A j \in Attempts : run'[d][j] = "answered" => run[d][j] = "answered"
        BY <3>1 DEF RunTyped
      <3>. QED
        BY <1>1, <3>1, <3>2
    <2>4. ASSUME NEW c \in Coins, NEW i \in Attempts, RecoupCoin(c, i)
          PROVE  Tracked'
      BY <2>4, RecoupCoinTracked
    <2>5. CASE QueryStep
      <3>1. UNCHANGED <<coin, group, run, balance>>
        BY <2>5 DEF QueryStep, ForceQueryReserve, LoopProcessesReserve, ExchangeReports, QueryFails,
                    UpdateReserve, DepleteReserve, recoupDb
      <3>. QED
        BY <1>1, <3>1
    <2>6. ASSUME NEW c \in Coins, CoinArrives(c)
          PROVE  Tracked'
      BY <2>6, ArrivalTracked
    <2>. QED
      BY <1>5, <2>1, <2>2, <2>3, <2>4, <2>5, <2>6 DEF RecoupStep
  <1>. QED
    BY <1>2, <1>3, <1>4, <1>5 DEF RecoupMove

\* What a group has taken is not on coins that can be spent.
LEMMA TrackedIsPaidBack == RecoupsOK /\ Tracked => FinishedIsPaidBack
  <1>. SUFFICES ASSUME RecoupsOK, Tracked, NEW n \in DOMAIN group, NEW c \in group[n].coins
                PROVE  /\ c \in group[n].finished /\ group[n].old[c] > 0 /\ Source[c] # "Tip" =>
                            balance[c] = 0
                       /\ coin[c].status = "Fresh" => coin[c].amount = 0
    BY DEF FinishedIsPaidBack
  <1>1. c \in Coins
    BY GroupsOfCoins DEF OfCoins
  <1>. QED
    BY <1>1 DEF Tracked, PlacesOK, DonePaid, TakenBy, RefreshedOK, LeftOK

LEMMA TrackedMoves ==
  RecoupsOK /\ RunTyped /\ Tracked /\ RecoupedGetNothing /\ RecoupMove
    => (RecoupsOK /\ RunTyped /\ Tracked)'
  BY RecoupsStep, TrackedStep

LEMMA RecoupTrackedAlways == RecoupSpec /\ []RecoupedGetNothing => [](RecoupsOK /\ Tracked)
  <1>1. InitRecoup => RecoupsOK /\ RunTyped /\ Tracked
    BY RecoupsInit, TrackedInit
  <1>2. [RecoupNext]_recoupVars => RecoupMove
    BY RecoupNextMoves
  <1>. QED
    BY <1>1, <1>2, TrackedMoves, PTL DEF RecoupSpec

LEMMA UpdatesTrackedAlways == Spec /\ []RecoupedGetNothing => [](RecoupsOK /\ Tracked)
  <1>1. Init => RecoupsOK /\ RunTyped /\ Tracked
    BY RecoupsInit, TrackedInit DEF Init
  <1>2. [Next]_vars => RecoupMove
    BY NextMoves
  <1>. QED
    BY <1>1, <1>2, TrackedMoves, PTL DEF Spec

\* The exchange holds for each coin what the wallet has on record for it, whatever requests
\* are repeated, answers lost and calls begun beside each other, in any number of groups
\* and restarts (recoup.ts), where recoup lists come at any time.
THEOREM RecoupTracksValue == RecoupSpec /\ []RecoupedGetNothing => []ValueIsTracked
  BY RecoupTrackedAlways, PTL DEF Tracked

\* The same where the lists come with the updates of the exchange: what a revocation takes
\* off the coins is in a group, or paid back (exchanges.ts, recoup.ts).
THEOREM UpdatesTrackValue == Spec /\ []RecoupedGetNothing => []ValueIsTracked
  BY UpdatesTrackedAlways, PTL DEF Tracked

\* A coin is marked as recouped only when the exchange has paid back what it was worth, and
\* what is in a group is not on a coin that can be spent (recoupWithdrawCoin, recoupRefreshCoin).
THEOREM RecoupPaysBack == RecoupSpec /\ []RecoupedGetNothing => []FinishedIsPaidBack
  BY RecoupTrackedAlways, TrackedIsPaidBack, PTL

\* With the updates that bring the recoup lists as well.
THEOREM UpdatesPayBack == Spec /\ []RecoupedGetNothing => []FinishedIsPaidBack
  BY UpdatesTrackedAlways, TrackedIsPaidBack, PTL
=============================================================================
