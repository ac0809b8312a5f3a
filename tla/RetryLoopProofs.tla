-------------------------- MODULE RetryLoopProofs --------------------------
(***************************************************************************)
(* Theorems about tips and proposals, for any number of user interfaces,    *)
(* records and restarts: what is stored of them is not undone by an         *)
(* activity that is late, and a tip that is accepted once is picked up at   *)
(* most once, with the planchets that the merchant has signed.              *)
(***************************************************************************)
EXTENDS RetryLoop, FiniteSetTheorems, SequenceTheorems, TLAPS

-----------------------------------------------------------------------------
(* What an activity has in its local variables depends on where it is.       *)

IdleCalls == [pc: {"idle"}]
CreateCalls == [pc: {"create"}, order: Orders]
ProposalCalls == [pc: {"download", "contract", "returned", "record"}, proposal: Proposals]
AcceptCalls == [pc: {"accept"}, tip: Tips, record: TipRecord]
TipCalls == [pc: {"tip", "make", "reread", "failed"}, tip: Tips]
PostCalls == [pc: {"post", "store", "failed"}, tip: Tips, planchets: 1..MaxPlanchets]
WorkCalls == [pc: {"put", "work"}, work: Works]
Calls == UNION {IdleCalls, CreateCalls, ProposalCalls, AcceptCalls, TipCalls, PostCalls, WorkCalls}

CallsTyped == activity \in [Activities -> Calls]

ProposalPcs == {"download", "contract", "returned", "record"}
TipPcs == {"tip", "make", "reread", "post", "store", "failed"}

\* Where it is tells what it has.
LEMMA CallKinds ==
  ASSUME NEW r \in Calls
  PROVE  /\ r.pc \in ProposalPcs => r \in ProposalCalls
         /\ r.pc = "create" => r \in CreateCalls
         /\ r.pc = "accept" => r \in AcceptCalls
         /\ r.pc \in {"tip", "make", "reread"} => r \in TipCalls
         /\ r.pc \in {"post", "store"} => r \in PostCalls
         /\ r.pc = "failed" => r \in TipCalls \cup PostCalls
         /\ r.pc \in {"put", "work"} => r \in WorkCalls
  BY DEF Calls, IdleCalls, CreateCalls, ProposalCalls, AcceptCalls, TipCalls, PostCalls, WorkCalls,
         ProposalPcs

\* An activity that goes on with what it has.
LEMMA GoesOn ==
  ASSUME CallsTyped, NEW a \in Activities, NEW pc, GoOn(a, pc),
         \/ activity[a] \in ProposalCalls /\ pc \in ProposalPcs
         \/ activity[a] \in TipCalls /\ pc \in {"tip", "make", "reread", "failed"}
         \/ activity[a] \in PostCalls /\ pc \in {"post", "store", "failed"}
         \/ activity[a] \in WorkCalls /\ pc \in {"put", "work"}
  PROVE  /\ CallsTyped' /\ activity'[a].pc = pc
         /\ \A b \in Activities \ {a} : activity'[b] = activity[b]
         /\ activity[a] \in TipCalls => activity'[a].tip = activity[a].tip
         /\ activity[a] \in PostCalls => activity'[a].tip = activity[a].tip
                                         /\ activity'[a].planchets = activity[a].planchets
  <1>. DEFINE r == [activity[a] EXCEPT !.pc = pc]
  <1>1. activity' = [activity EXCEPT ![a] = r]
    BY DEF GoOn
  <1>2. CASE activity[a] \in ProposalCalls /\ pc \in ProposalPcs
    <2>1. r \in ProposalCalls /\ r.pc = pc
      BY <1>2 DEF ProposalCalls, ProposalPcs
    <2>2. activity[a] \notin TipCalls /\ activity[a] \notin PostCalls
      BY <1>2 DEF ProposalCalls, TipCalls, PostCalls
    <2>. HIDE DEF r
    <2>. QED
      BY <1>1, <2>1, <2>2 DEF CallsTyped, Calls
  <1>3. CASE activity[a] \in TipCalls /\ pc \in {"tip", "make", "reread", "failed"}
    <2>1. r \in TipCalls /\ r.pc = pc /\ r.tip = activity[a].tip
      BY <1>3 DEF TipCalls
    <2>2. activity[a] \notin PostCalls
      BY <1>3 DEF TipCalls, PostCalls
    <2>. HIDE DEF r
    <2>. QED
      BY <1>1, <2>1, <2>2 DEF CallsTyped, Calls
  <1>4. CASE activity[a] \in PostCalls /\ pc \in {"post", "store", "failed"}
    <2>1. r \in PostCalls /\ r.pc = pc /\ r.tip = activity[a].tip
          /\ r.planchets = activity[a].planchets
      BY <1>4 DEF PostCalls
    <2>. HIDE DEF r
    <2>. QED
      BY <1>1, <2>1 DEF CallsTyped, Calls
  <1>5. CASE activity[a] \in WorkCalls /\ pc \in {"put", "work"}
    <2>1. r \in WorkCalls /\ r.pc = pc
      BY <1>5 DEF WorkCalls
    <2>2. activity[a] \notin TipCalls /\ activity[a] \notin PostCalls
      BY <1>5 DEF WorkCalls, TipCalls, PostCalls
    <2>. HIDE DEF r
    <2>. QED
      BY <1>1, <2>1, <2>2 DEF CallsTyped, Calls
  <1>. QED
    BY <1>2, <1>3, <1>4, <1>5

\* An activity that begins something, or ends.
LEMMA Becomes ==
  ASSUME CallsTyped, NEW a \in Activities, NEW r \in Calls, activity' = [activity EXCEPT ![a] = r]
  PROVE  /\ CallsTyped' /\ activity'[a] = r
         /\ \A b \in Activities \ {a} : activity'[b] = activity[b]
  BY DEF CallsTyped

LEMMA IdleIsACall == Idle \in Calls /\ Idle.pc = "idle"
  BY DEF Idle, Calls, IdleCalls

-----------------------------------------------------------------------------
(* Records.                                                                  *)

RecordsTyped ==
  /\ proposals \in [Proposals -> ProposalRecord]
  /\ purchases \subseteq Proposals
  /\ tips \in [Tips -> TipRecord]
  /\ tipGroups \in Seq([tip: Tips, planchets: 1..MaxPlanchets])
  /\ planchetSets \in 0..MaxPlanchets
  /\ signed \in 0..MaxPlanchets
  /\ acceptsLeft \in 0..Accepts

LEMMA RetryInfos ==
  /\ InitRetryInfo \in RetryInfo /\ InactiveRetryInfo \in RetryInfo
  /\ \A r \in RetryInfo : UpdateRetryInfoTimeout(r) \in RetryInfo
  /\ \A r \in RetryInfo : [r EXCEPT !.nextRetry = Later(@)] \in RetryInfo
  <1>1. MaxBackoff \in Nat /\ MaxBackoff >= 1
    BY OffersAssumption
  <1>2. InitRetryInfo \in RetryInfo /\ InactiveRetryInfo \in RetryInfo
    BY <1>1 DEF InitRetryInfo, InactiveRetryInfo, RetryInfo, Never
  <1>3. ASSUME NEW r \in RetryInfo
        PROVE  UpdateRetryInfoTimeout(r) \in RetryInfo
    <2>. DEFINE n == IF r.retryCounter < MaxBackoff THEN r.retryCounter + 1 ELSE MaxBackoff
    <2>1. n \in 0..MaxBackoff /\ n \in 0..Never
      BY <1>1 DEF RetryInfo, Never
    <2>2. UpdateRetryInfoTimeout(r) = [r EXCEPT !.retryCounter = n, !.nextRetry = n]
      BY DEF UpdateRetryInfoTimeout
    <2>. HIDE DEF n
    <2>. QED
      BY <2>1, <2>2 DEF RetryInfo
  <1>4. ASSUME NEW r \in RetryInfo
        PROVE  [r EXCEPT !.nextRetry = Later(@)] \in RetryInfo
    <2>1. Later(r.nextRetry) \in 0..Never
      BY <1>1 DEF RetryInfo, Later, Never, NoTimer
    <2>. QED
      BY <2>1 DEF RetryInfo
  <1>. QED
    BY <1>2, <1>3, <1>4

\* Records with other retry information, or with one field changed.
LEMMA ProposalFields ==
  ASSUME NEW r \in ProposalRecord, NEW i \in RetryInfo, NEW s \in ProposalStatus
  PROVE  /\ [r EXCEPT !.retryInfo = i] \in ProposalRecord
         /\ [r EXCEPT !.retryInfo = i].stored = r.stored
         /\ [r EXCEPT !.retryInfo = i].status = r.status
         /\ [r EXCEPT !.status = s] \in ProposalRecord
         /\ [r EXCEPT !.status = s].stored = r.stored
         /\ [r EXCEPT !.status = s].status = s
         /\ [r EXCEPT !.status = s, !.retryInfo = i] \in ProposalRecord
         /\ [r EXCEPT !.status = s, !.retryInfo = i].stored = r.stored
         /\ [r EXCEPT !.status = s, !.retryInfo = i].status = s
  BY DEF ProposalRecord

LEMMA TipFields ==
  ASSUME NEW r \in TipRecord, NEW i \in RetryInfo
  PROVE  LET s == [r EXCEPT !.retryInfo = i]
         IN /\ s \in TipRecord /\ s.stored = r.stored /\ s.accepted = r.accepted
            /\ s.pickedUp = r.pickedUp /\ s.planchets = r.planchets
  BY DEF TipRecord

LEMMA NewRecords ==
  /\ NewTip \in TipRecord
  /\ \A o \in Orders : NewProposal(o) \in ProposalRecord
  <1>1. NewTip \in TipRecord
    BY RetryInfos, OffersAssumption DEF NewTip, TipRecord
  <1>2. ASSUME NEW o \in Orders
        PROVE  NewProposal(o) \in ProposalRecord
    BY RetryInfos DEF NewProposal, ProposalRecord, ProposalStatus
  <1>. QED
    BY <1>1, <1>2

-----------------------------------------------------------------------------
(* The operations that the loop has still to run.  Its list was read some    *)
(* time ago: what is on it holds of the records ever after.                  *)

\* A tip is on the list when it was accepted.
Operations ==
  {op \in PendingOperationInfo :
     /\ op.type = "TipPickup" => op.id \in Tips /\ tips[op.id].accepted
     /\ op.type = "ProposalDownload" => op.id \in Proposals
     /\ op.type \in {"exchange", "reserve", "group", "purchase"} => op.id \in Works}

LEMMA SequenceOfSet ==
  ASSUME NEW S, IsFiniteSet(S)
  PROVE  SetToSeq(S) \in Seq(S)
  <1>1. PICK f : f \in [1..Cardinality(S) -> S] /\ IsInjective(f)
    <2>1. ExistsBijection(1..Cardinality(S), S)
      BY FS_CardinalityType
    <2>. QED
      BY <2>1 DEF ExistsBijection, Bijection, Injection, IsInjective
  <1>2. SetToSeq(S) \in [1..Cardinality(S) -> S]
    BY <1>1 DEF SetToSeq
  <1>3. Cardinality(S) \in Nat
    BY FS_CardinalityType
  <1>. QED
    BY <1>2, <1>3

OpsOf(type, S, life) == {Op(type, x, life) : x \in S}
LEMMA OpsAreFinite ==
  ASSUME NEW type, NEW S, IsFiniteSet(S), NEW life
  PROVE  IsFiniteSet(OpsOf(type, S, life))
  <1>. DEFINE f == [x \in S |-> Op(type, x, life)]
  <1>1. f \in Surjection(S, OpsOf(type, S, life))
    BY DEF Surjection, OpsOf
  <1>. QED
    BY <1>1, FS_Surjection

LEMMA OpsAreOperations ==
  ASSUME NEW type \in {"exchange", "reserve", "group", "purchase"}, NEW S, S \subseteq Works,
         NEW life \in BOOLEAN
  PROVE  OpsOf(type, S, life) \subseteq Operations /\ IsFiniteSet(OpsOf(type, S, life))
  <1>1. OpsOf(type, S, life) \subseteq Operations
    BY DEF OpsOf, Operations, PendingOperationInfo, Op
  <1>2. IsFiniteSet(S)
    BY LoopAssumption, FS_Subset
  <1>. QED
    BY <1>1, <1>2, OpsAreFinite

LEMMA PendingAreOperations ==
  ASSUME NEW all \in BOOLEAN
  PROVE  PendingOperations(all) \in Seq(Operations)
  <1>. DEFINE Good(S) == S \subseteq Operations /\ IsFiniteSet(S)
  <1>1. Good(GatherExchangePending(all))
    <2>. DEFINE S == {v \in Works : all /\ KindOf[v] = "exchange" /\ work[v].status = "Waiting"}
    <2>1. GatherExchangePending(all) = OpsOf("exchange", S, FALSE)
      BY DEF GatherExchangePending, OpsOf
    <2>. QED
      BY <2>1, OpsAreOperations
  <1>2. Good(GatherReservePending(all))
    <2>. DEFINE active == {v \in Works : KindOf[v] = "reserve" /\ work[v].retryInfo.active}
                S == {v \in active : all /\ work[v].status = "Waiting"}
                T == {v \in active : work[v].status = "Working" /\ (all \/ IsDue(work[v]))}
    <2>1. GatherReservePending(all) = OpsOf("reserve", S, FALSE) \cup OpsOf("reserve", T, TRUE)
      BY DEF GatherReservePending, OpsOf
    <2>2. S \subseteq Works /\ T \subseteq Works
      OBVIOUS
    <2>. HIDE DEF S, T
    <2>3. Good(OpsOf("reserve", S, FALSE)) /\ Good(OpsOf("reserve", T, TRUE))
      BY <2>2, OpsAreOperations
    <2>. QED
      BY <2>1, <2>3, FS_Union
  <1>3. ASSUME NEW kind \in {"group", "purchase"}
        PROVE  Good(GatherWorkPending(all, kind))
    <2>. DEFINE S == {v \in Works : KindOf[v] = kind /\ work[v].status = "Working"
                                    /\ (all \/ IsDue(work[v]))}
    <2>1. GatherWorkPending(all, kind) = OpsOf(kind, S, TRUE)
      BY DEF GatherWorkPending, OpsOf
    <2>. QED
      BY <2>1, OpsAreOperations
  <1>4. Good(GatherProposalPending(all))
    <2>. DEFINE S == {q \in Proposals : all /\ proposals[q].stored /\ proposals[q].status = "PROPOSED"}
                T == {q \in Proposals : StillDownloading(q) /\ (all \/ IsDue(proposals[q]))}
    <2>1. GatherProposalPending(all)
            = OpsOf("ProposalChoice", S, FALSE) \cup OpsOf("ProposalDownload", T, TRUE)
      BY DEF GatherProposalPending, OpsOf
    <2>2. S \subseteq Proposals /\ T \subseteq Proposals
      OBVIOUS
    <2>. HIDE DEF S, T
    <2>3. IsFiniteSet(S) /\ IsFiniteSet(T)
      BY <2>2, OffersAssumption, FS_Subset
    <2>4. ASSUME NEW q \in Proposals, NEW type \in {"ProposalChoice", "ProposalDownload"},
                 NEW life \in BOOLEAN
          PROVE  Op(type, q, life) \in Operations
      <3>1. Op(type, q, life) \in PendingOperationInfo
        BY DEF PendingOperationInfo, Op
      <3>. QED
        BY <3>1 DEF Operations, Op
    <2>5. OpsOf("ProposalChoice", S, FALSE) \subseteq Operations
          /\ OpsOf("ProposalDownload", T, TRUE) \subseteq Operations
      BY <2>2, <2>4 DEF OpsOf
    <2>. QED
      BY <2>1, <2>3, <2>5, OpsAreFinite, FS_Union
  <1>5. Good(GatherTipPending(all))
    <2>. DEFINE S == {s \in OpenTips : tips[s].accepted /\ (all \/ IsDue(tips[s]))}
    <2>1. GatherTipPending(all) = OpsOf("TipPickup", S, TRUE)
      BY DEF GatherTipPending, OpsOf
    <2>2. S \subseteq Tips /\ \A s \in S : tips[s].accepted
      BY DEF OpenTips
    <2>. HIDE DEF S
    <2>3. IsFiniteSet(S)
      BY <2>2, OffersAssumption, FS_Subset
    <2>4. ASSUME NEW s \in S
          PROVE  Op("TipPickup", s, TRUE) \in Operations
      <3>1. Op("TipPickup", s, TRUE) \in PendingOperationInfo
        BY <2>2 DEF PendingOperationInfo, Op
      <3>. QED
        BY <2>2, <3>1 DEF Operations, Op
    <2>5. OpsOf("TipPickup", S, TRUE) \subseteq Operations
      BY <2>4 DEF OpsOf
    <2>. QED
      BY <2>1, <2>3, <2>5, OpsAreFinite
  <1>6. ASSUME NEW S, Good(S)
        PROVE  SetToSeq(S) \in Seq(Operations)
    BY <1>6, SequenceOfSet
  <1>. HIDE DEF Good
  <1>7. /\ SetToSeq(GatherExchangePending(all)) \in Seq(Operations)
        /\ SetToSeq(GatherReservePending(all)) \in Seq(Operations)
        /\ SetToSeq(GatherWorkPending(all, "group")) \in Seq(Operations)
        /\ SetToSeq(GatherProposalPending(all)) \in Seq(Operations)
        /\ SetToSeq(GatherTipPending(all)) \in Seq(Operations)
        /\ SetToSeq(GatherWorkPending(all, "purchase")) \in Seq(Operations)
    BY <1>1, <1>2, <1>3, <1>4, <1>5, <1>6
  <1>. QED
    BY <1>7 DEF PendingOperations

\* The loop's variable, whatever its timer.
LoopShaped == loop = [pc |-> loop.pc, list |-> loop.list, timer |-> loop.timer]
ListOK == LoopShaped /\ loop.list \in Seq(Operations)

\* What is begun for an operation on the list.
LEMMA BegunIsACall ==
  ASSUME NEW op \in Operations
  PROVE  /\ Begun(op) \in Calls
         /\ Begun(op).pc \in TipPcs => Begun(op).pc = "tip" /\ tips[Begun(op).tip].accepted
         /\ Begun(op).pc \notin {"accept", "post", "store"}
  <1>1. op \in PendingOperationInfo
    BY DEF Operations
  <1>2. CASE op.type = "ProposalDownload"
    BY <1>2 DEF Operations, Begun, Calls, ProposalCalls, TipPcs
  <1>3. CASE op.type = "TipPickup"
    BY <1>3 DEF Operations, Begun, Calls, TipCalls, TipPcs
  <1>4. CASE op.type = "ProposalChoice"
    BY <1>4, IdleIsACall DEF Begun, TipPcs
  <1>5. CASE op.type \in {"exchange", "reserve", "group", "purchase"}
    BY <1>5 DEF Operations, Begun, Calls, WorkCalls, TipPcs
  <1>. QED
    BY <1>1, <1>2, <1>3, <1>4, <1>5 DEF PendingOperationInfo

\* What is accepted is stored: a record that is put for a new tip replaces none.
AcceptedStored ==
  /\ \A t \in Tips : tips[t].accepted => tips[t].stored
  /\ \A a \in Activities : At(a, "accept") => activity[a].record.stored

Typed == CallsTyped /\ RecordsTyped /\ AcceptedStored /\ ListOK

-----------------------------------------------------------------------------
(* Tips that are accepted once.                                              *)

\* Before it is accepted, nothing is made of a tip; and one is accepted only.
NothingYet ==
  \A t \in Tips : ~tips[t].accepted => tips[t].planchets = 0 /\ ~tips[t].pickedUp
OneAccepted == \A s, t \in Tips : tips[s].accepted /\ tips[t].accepted => s = t
\* A call of acceptTip is the only one, and there was none before it.
AcceptOnce ==
  /\ acceptsLeft > 0 => \A t \in Tips : ~tips[t].accepted
  /\ \A a \in Activities : At(a, "accept") =>
       /\ acceptsLeft = 0
       /\ activity[a].record.planchets = 0 /\ ~activity[a].record.pickedUp
       /\ \A t \in Tips : ~tips[t].accepted
       /\ \A b \in Activities : At(b, "accept") => b = a
\* The merchant has signed what is stored.
SignedOK ==
  signed # 0 => /\ \E t \in Tips : tips[t].accepted
                /\ \A t \in Tips : tips[t].accepted => tips[t].planchets = signed
\* An activity processes a tip that was accepted, and sends what is stored with it.
CallOK(a) ==
  /\ activity[a].pc \in TipPcs => tips[activity[a].tip].accepted
  /\ activity[a].pc \in {"post", "store"} =>
       activity[a].planchets = tips[activity[a].tip].planchets
CallsOK == \A a \in Activities : CallOK(a)
\* A withdrawal group is there for a tip that is picked up.
GroupsOK ==
  \A i \in DOMAIN tipGroups : tips[tipGroups[i].tip].accepted /\ tips[tipGroups[i].tip].pickedUp

TipsOK == /\ NothingYet /\ OneAccepted /\ AcceptOnce /\ SignedOK /\ CallsOK /\ GroupsOK
          /\ TipOnce

\* What every step does.
StaysAccepted == \A t \in Tips : tips[t].accepted => tips'[t].accepted
GoesForward == \A p \in Proposals : Rank(p)' >= Rank(p)
TipsKept == Accepts <= 1 /\ TipsOK => TipsOK'
Kept == /\ CallsTyped' /\ RecordsTyped' /\ AcceptedStored'
        /\ StaysAccepted /\ GoesForward /\ TipsKept

\* Most steps change nothing of the tips that anybody looks at.
SameTip(t) ==
  /\ tips'[t].accepted = tips[t].accepted /\ tips'[t].pickedUp = tips[t].pickedUp
  /\ tips'[t].planchets = tips[t].planchets /\ (tips[t].stored => tips'[t].stored)
QuietCall(a) ==
  \/ activity'[a] = activity[a]
  \/ /\ activity'[a].pc # "accept"
     /\ TipsOK => CallOK(a)'
QuietTips ==
  /\ UNCHANGED <<tipGroups, signed, acceptsLeft>>
  /\ \A t \in Tips : tips[t].accepted => tips'[t].stored
  /\ TipsOK => \A t \in Tips : SameTip(t)
  /\ StaysAccepted
  /\ \A t \in Tips : tips'[t].accepted => tips[t].accepted
  /\ \A a \in Activities : QuietCall(a)

\* The tip of an activity, and of a group.
LEMMA TipsOfCalls ==
  ASSUME CallsTyped, NEW a \in Activities
  PROVE  activity[a].pc \in TipPcs \cup {"accept"} => activity[a].tip \in Tips
  <1>1. activity[a] \in Calls
    BY DEF CallsTyped
  <1>2. activity[a].pc \in TipPcs => activity[a] \in TipCalls \cup PostCalls
    BY <1>1, CallKinds DEF TipPcs
  <1>3. activity[a].pc = "accept" => activity[a] \in AcceptCalls
    BY <1>1, CallKinds
  <1>. QED
    BY <1>2, <1>3 DEF TipCalls, PostCalls, AcceptCalls

LEMMA TipsOfGroups ==
  ASSUME RecordsTyped, NEW i \in DOMAIN tipGroups
  PROVE  tipGroups[i].tip \in Tips
  <1>. DEFINE S == [tip: Tips, planchets: 1..MaxPlanchets]
  <1>1. tipGroups \in Seq(S)
    BY DEF RecordsTyped
  <1>2. \A g \in S : g.tip \in Tips
    OBVIOUS
  <1>. HIDE DEF S
  <1>3. tipGroups[i] \in S
    BY <1>1
  <1>. QED
    BY <1>2, <1>3

LEMMA QuietStep ==
  ASSUME Typed, CallsTyped', RecordsTyped', GoesForward, QuietTips
  PROVE  Kept
  <1>1. AcceptedStored'
    <2>1. \A t \in Tips : tips'[t].accepted => tips'[t].stored
      BY DEF QuietTips
    <2>2. \A a \in Activities : At(a, "accept")' => activity'[a].record.stored
      BY DEF QuietTips, QuietCall, Typed, AcceptedStored, At
    <2>. QED
      BY <2>1, <2>2 DEF AcceptedStored
  <1>2. ASSUME TipsOK
        PROVE  TipsOK'
    <2>1. \A t \in Tips : SameTip(t)
      BY <1>2 DEF QuietTips
    <2>2. NothingYet' /\ OneAccepted'
      BY <1>2, <2>1 DEF TipsOK, NothingYet, OneAccepted, SameTip
    <2>3. AcceptOnce'
      <3>1. \A a \in Activities : At(a, "accept")' => At(a, "accept") /\ activity'[a] = activity[a]
        BY DEF QuietTips, QuietCall, At
      <3>. QED
        BY <1>2, <2>1, <3>1 DEF TipsOK, AcceptOnce, SameTip, QuietTips
    <2>4. SignedOK'
      BY <1>2, <2>1 DEF TipsOK, SignedOK, SameTip, QuietTips
    <2>5. CallsOK'
      <3>1. ASSUME NEW a \in Activities, activity'[a] = activity[a]
            PROVE  CallOK(a)'
        BY <1>2, <2>1, <3>1, TipsOfCalls DEF TipsOK, CallsOK, CallOK, SameTip, Typed, TipPcs
      <3>. QED
        BY <1>2, <3>1 DEF QuietTips, QuietCall, CallsOK
    <2>6. GroupsOK' /\ TipOnce'
      BY <1>2, <2>1, TipsOfGroups DEF TipsOK, GroupsOK, TipOnce, SameTip, QuietTips, Typed
    <2>. QED
      BY <2>2, <2>3, <2>4, <2>5, <2>6 DEF TipsOK
  <1>. QED
    BY <1>1, <1>2 DEF Kept, TipsKept, QuietTips

\* A step that leaves the tips alone, and whose activity is at no tip afterwards.
LEMMA OtherStep ==
  ASSUME Typed, CallsTyped', RecordsTyped', GoesForward,
         UNCHANGED <<tips, tipGroups, signed, acceptsLeft>>,
         \A a \in Activities : QuietCall(a)
  PROVE  Kept
  BY QuietStep DEF QuietTips, SameTip, StaysAccepted, Typed, AcceptedStored

\* It is at no tip.
LEMMA AwayFromTips ==
  ASSUME NEW a \in Activities, activity'[a].pc \notin TipPcs, activity'[a].pc # "accept"
  PROVE  QuietCall(a)
  BY DEF QuietCall, CallOK, TipPcs

LEMMA NoWayBack ==
  ASSUME UNCHANGED proposals
  PROVE  GoesForward
  <1>1. \A p \in Proposals : Rank(p)' = Rank(p) /\ Rank(p) \in Int
    BY DEF Rank
  <1>. QED
    BY <1>1 DEF GoesForward

-----------------------------------------------------------------------------
(* Proposals.                                                                *)

\* A proposal whose record is replaced.
LEMMA OneGoesForward ==
  ASSUME RecordsTyped, NEW p \in Proposals, NEW r \in ProposalRecord,
         proposals' = [proposals EXCEPT ![p] = r], UNCHANGED purchases,
         \/ ~proposals[p].stored
         \/ /\ r.stored
            /\ \/ proposals[p].status = "DOWNLOADING"
               \/ proposals[p].status = "PROPOSED" /\ r.status # "DOWNLOADING"
               \/ r.status \notin {"DOWNLOADING", "PROPOSED"}
               \/ r.status = proposals[p].status
  PROVE  GoesForward /\ proposals' \in [Proposals -> ProposalRecord] /\ purchases' \subseteq Proposals
  <1>1. /\ proposals' \in [Proposals -> ProposalRecord] /\ purchases' \subseteq Proposals
        /\ proposals'[p] = r /\ \A q \in Proposals \ {p} : proposals'[q] = proposals[q]
    BY DEF RecordsTyped
  <1>2. \A q \in Proposals \ {p} : Rank(q)' = Rank(q) /\ Rank(q) \in Int
    BY <1>1 DEF Rank
  <1>3. Rank(p)' >= Rank(p)
    <2>1. /\ r.stored \in BOOLEAN /\ r.status \in ProposalStatus
          /\ proposals[p].stored \in BOOLEAN /\ proposals[p].status \in ProposalStatus
      BY DEF RecordsTyped, ProposalRecord
    <2>2. Rank(p)' \in {0, 1, 2, 3} /\ Rank(p) \in {0, 1, 2, 3}
      BY DEF Rank
    <2>3. CASE ~proposals[p].stored
      BY <2>2, <2>3 DEF Rank
    <2>4. CASE proposals[p].stored /\ proposals[p].status = "DOWNLOADING"
      BY <1>1, <2>1, <2>4 DEF Rank, ProposalStatus
    <2>5. CASE proposals[p].stored /\ proposals[p].status # "DOWNLOADING"
      BY <1>1, <2>1, <2>5 DEF Rank, ProposalStatus
    <2>. QED
      BY <2>1, <2>3, <2>4, <2>5
  <1>. QED
    BY <1>1, <1>2, <1>3 DEF GoesForward

\* A step of an activity that is at no tip before or after it.
LEMMA AwayStep ==
  ASSUME Typed, NEW a \in Activities, NEW r \in Calls,
         activity' = [activity EXCEPT ![a] = r], r.pc \notin TipPcs, r.pc # "accept",
         RecordsTyped', GoesForward, UNCHANGED <<tips, tipGroups, signed, acceptsLeft>>
  PROVE  Kept
  <1>1. /\ CallsTyped' /\ activity'[a] = r
        /\ \A b \in Activities \ {a} : activity'[b] = activity[b]
    BY Becomes DEF Typed
  <1>2. \A b \in Activities : QuietCall(b)
    BY <1>1, AwayFromTips DEF QuietCall
  <1>. QED
    BY <1>1, <1>2, OtherStep

LEMMA DownloadGoesOn ==
  ASSUME Typed, NEW a \in Activities, NEW pc \in ProposalPcs, activity[a] \in ProposalCalls,
         GoOn(a, pc), RecordsTyped', GoesForward, UNCHANGED <<tips, tipGroups, signed, acceptsLeft>>
  PROVE  Kept
  <1>1. /\ CallsTyped' /\ activity'[a].pc = pc
        /\ \A b \in Activities \ {a} : activity'[b] = activity[b]
    BY GoesOn DEF Typed
  <1>2. \A b \in Activities : QuietCall(b)
    BY <1>1, AwayFromTips DEF QuietCall, TipPcs, ProposalPcs
  <1>. QED
    BY <1>1, <1>2, OtherStep

LEMMA LeavingKeeps ==
  ASSUME Typed, NEW a \in Activities, Leave(a), RecordsTyped', GoesForward,
         UNCHANGED <<tips, tipGroups, signed, acceptsLeft>>
  PROVE  Kept
  BY IdleIsACall, AwayStep DEF Leave, TipPcs

\* What an activity that downloads or confirms a proposal works at.
LEMMA ProposalsOfCalls ==
  ASSUME CallsTyped, NEW a \in Activities, activity[a].pc \in ProposalPcs
  PROVE  activity[a] \in ProposalCalls /\ activity[a].proposal \in Proposals
  <1>1. activity[a] \in ProposalCalls
    BY CallKinds DEF CallsTyped
  <1>. QED
    BY <1>1 DEF ProposalCalls

LEMMA StartDownloadProposalKeeps ==
  ASSUME Typed, NEW u \in Users, NEW o \in Orders, StartDownloadProposal(u, o)
  PROVE  Kept
  <1>1. RecordsTyped' /\ GoesForward
    BY NoWayBack DEF StartDownloadProposal, Typed, RecordsTyped
  <1>2. PICK r \in Calls : /\ activity' = [activity EXCEPT ![u] = r]
                           /\ r.pc \notin TipPcs /\ r.pc # "accept"
    <2>1. ASSUME NEW p \in Existing(o)
          PROVE  [pc |-> "download", proposal |-> p] \in ProposalCalls
      BY <2>1 DEF Existing, ProposalCalls
    <2>2. [pc |-> "create", order |-> o] \in CreateCalls
      BY DEF CreateCalls
    <2>3. PICK r \in ProposalCalls \cup CreateCalls : activity' = [activity EXCEPT ![u] = r]
      BY <2>1, <2>2 DEF StartDownloadProposal
    <2>4. r \in Calls /\ r.pc \notin TipPcs /\ r.pc # "accept"
      BY <2>3 DEF Calls, ProposalCalls, CreateCalls, TipPcs
    <2>. QED
      BY <2>3, <2>4
  <1>. QED
    BY <1>1, <1>2, AwayStep DEF StartDownloadProposal, Activities

LEMMA CreateProposalKeeps ==
  ASSUME Typed, NEW u \in Users, CreateProposal(u)
  PROVE  Kept
  <1>. DEFINE o == activity[u].order
              p == CHOOSE q \in Proposals : ~proposals[q].stored /\ q \notin InUse
              r == [pc |-> "download", proposal |-> p]
  <1>1. p \in Proposals /\ ~proposals[p].stored
    BY DEF CreateProposal
  <1>2. o \in Orders
    <2>1. activity[u] \in CreateCalls
      BY CallKinds DEF CreateProposal, At, Typed, CallsTyped, Activities
    <2>. QED
      BY <2>1 DEF CreateCalls
  <1>3. /\ UNCHANGED proposals \/ proposals' = [proposals EXCEPT ![p] = NewProposal(o)]
        /\ activity' = [activity EXCEPT ![u] = r]
        /\ UNCHANGED <<purchases, tips, tipGroups, planchetSets, signed, acceptsLeft>>
    BY DEF CreateProposal
  <1>4. NewProposal(o) \in ProposalRecord
    BY <1>2, NewRecords
  <1>5. r \in Calls /\ r.pc \notin TipPcs /\ r.pc # "accept"
    BY <1>1 DEF Calls, ProposalCalls, TipPcs
  <1>. HIDE DEF p, r, o
  <1>6. RecordsTyped' /\ GoesForward
    BY <1>1, <1>3, <1>4, OneGoesForward, NoWayBack DEF RecordsTyped, Typed
  <1>. QED
    BY <1>3, <1>5, <1>6, AwayStep DEF Activities

LEMMA ReadProposalKeeps ==
  ASSUME Typed, NEW a \in Activities, ReadProposal(a)
  PROVE  Kept
  <1>1. RecordsTyped' /\ GoesForward
    BY NoWayBack DEF ReadProposal, Typed, RecordsTyped
  <1>2. activity[a] \in ProposalCalls
    BY ProposalsOfCalls DEF ReadProposal, At, ProposalPcs, Typed
  <1>3. PICK pc \in ProposalPcs : GoOn(a, pc)
    BY DEF ReadProposal, ProposalPcs
  <1>4. UNCHANGED <<tips, tipGroups, signed, acceptsLeft>>
    BY DEF ReadProposal
  <1>. QED
    BY <1>1, <1>2, <1>3, <1>4, DownloadGoesOn

LEMMA ContractArrivesKeeps ==
  ASSUME Typed, NEW a \in Activities, ContractArrives(a)
  PROVE  Kept
  <1>. DEFINE p == activity[a].proposal
  <1>1. activity[a] \in ProposalCalls /\ p \in Proposals
    BY ProposalsOfCalls DEF ContractArrives, At, ProposalPcs, Typed
  <1>2. \/ UNCHANGED proposals
        \/ /\ proposals[p].stored /\ proposals[p].status = "DOWNLOADING"
           /\ \E r \in Downloaded(p) : proposals' = [proposals EXCEPT ![p] = r]
    BY DEF ContractArrives, TakesContract, StillDownloading
  <1>3. GoOn(a, "returned") /\ "returned" \in ProposalPcs
    BY DEF ContractArrives, ProposalPcs
  <1>4. UNCHANGED <<purchases, tips, tipGroups, planchetSets, signed, acceptsLeft>>
    BY DEF ContractArrives
  <1>5. ASSUME NEW r \in Downloaded(p)
        PROVE  r \in ProposalRecord /\ r.stored = proposals[p].stored
    <2>1. proposals[p] \in ProposalRecord /\ purchases \subseteq Proposals
      BY <1>1 DEF Typed, RecordsTyped
    <2>2. \/ r = [proposals[p] EXCEPT !.status = "PROPOSED"]
          \/ \E q \in purchases : r = [proposals[p] EXCEPT !.status = "REPURCHASE", !.repurchase = q]
      BY <1>5 DEF Downloaded, DifferentPurchases
    <2>. QED
      BY <2>1, <2>2 DEF ProposalRecord, ProposalStatus
  <1>. HIDE DEF p
  <1>6. RecordsTyped' /\ GoesForward
    <2>1. CASE UNCHANGED proposals
      BY <1>4, <2>1, NoWayBack DEF RecordsTyped, Typed
    <2>2. CASE /\ proposals[p].stored /\ proposals[p].status = "DOWNLOADING"
               /\ \E r \in Downloaded(p) : proposals' = [proposals EXCEPT ![p] = r]
      <3>1. PICK r \in Downloaded(p) : proposals' = [proposals EXCEPT ![p] = r]
        BY <2>2
      <3>2. r \in ProposalRecord /\ r.stored
        BY <1>5, <2>2
      <3>. QED
        BY <1>1, <1>4, <2>2, <3>1, <3>2, OneGoesForward DEF RecordsTyped, Typed
    <2>. QED
      BY <1>2, <2>1, <2>2
  <1>7. UNCHANGED <<tips, tipGroups, signed, acceptsLeft>>
    BY <1>4
  <1>. QED
    BY <1>1, <1>3, <1>6, <1>7, DownloadGoesOn

\* Other retry information, another status.
LEMMA DownloadFailsKeeps ==
  ASSUME Typed, NEW a \in Activities, DownloadFails(a)
  PROVE  Kept
  <1>. DEFINE p == activity[a].proposal
              i == UpdateRetryInfoTimeout(proposals[p].retryInfo)
              r == [proposals[p] EXCEPT !.retryInfo = i]
  <1>1. p \in Proposals /\ proposals[p] \in ProposalRecord
    BY ProposalsOfCalls DEF DownloadFails, At, ProposalPcs, Typed, RecordsTyped
  <1>2. UNCHANGED proposals \/ proposals' = [proposals EXCEPT ![p] = r]
    BY DEF DownloadFails
  <1>3. UNCHANGED <<purchases, tips, tipGroups, planchetSets, signed, acceptsLeft>> /\ Leave(a)
    BY DEF DownloadFails
  <1>4. r \in ProposalRecord /\ r.stored = proposals[p].stored /\ r.status = proposals[p].status
    <2>1. i \in RetryInfo
      BY <1>1, RetryInfos DEF ProposalRecord
    <2>2. proposals[p].status \in ProposalStatus
      BY <1>1 DEF ProposalRecord
    <2>. HIDE DEF i
    <2>. QED
      BY <1>1, <2>1, <2>2, ProposalFields
  <1>. HIDE DEF p, r
  <1>5. RecordsTyped' /\ GoesForward
    <2>1. CASE UNCHANGED proposals
      BY <1>3, <2>1, NoWayBack DEF RecordsTyped, Typed
    <2>2. CASE proposals' = [proposals EXCEPT ![p] = r]
      BY <1>1, <1>3, <1>4, <2>2, OneGoesForward DEF RecordsTyped, Typed
    <2>. QED
      BY <1>2, <2>1, <2>2
  <1>. QED
    BY <1>3, <1>5, LeavingKeeps

LEMMA DownloadReturnsKeeps ==
  ASSUME Typed, NEW a \in Activities, DownloadReturns(a)
  PROVE  Kept
  <1>1. RecordsTyped' /\ GoesForward
    BY NoWayBack DEF DownloadReturns, Typed, RecordsTyped
  <1>. QED
    BY <1>1, LeavingKeeps DEF DownloadReturns

LEMMA ConfirmPayKeeps ==
  ASSUME Typed, NEW u \in Users, NEW p \in Proposals, ConfirmPay(u, p)
  PROVE  Kept
  <1>. DEFINE r == [pc |-> "record", proposal |-> p]
  <1>1. RecordsTyped' /\ GoesForward
    BY NoWayBack DEF ConfirmPay, Typed, RecordsTyped
  <1>2. r \in Calls /\ r.pc \notin TipPcs /\ r.pc # "accept"
    BY DEF Calls, ProposalCalls, TipPcs
  <1>3. activity' = [activity EXCEPT ![u] = r]
    BY DEF ConfirmPay
  <1>. HIDE DEF r
  <1>. QED
    BY <1>1, <1>2, <1>3, AwayStep DEF ConfirmPay, Activities

LEMMA RecordConfirmPayKeeps ==
  ASSUME Typed, NEW u \in Users, RecordConfirmPay(u)
  PROVE  Kept
  <1>0. PICK p \in Proposals : p = activity[u].proposal
    BY ProposalsOfCalls DEF RecordConfirmPay, At, ProposalPcs, Typed, Activities
  <1>. DEFINE r == [proposals[p] EXCEPT !.status = "ACCEPTED", !.retryInfo = InactiveRetryInfo]
  <1>1. proposals[p] \in ProposalRecord
    BY DEF Typed, RecordsTyped
  <1>2. /\ proposals' = [proposals EXCEPT ![p] = r]
        /\ purchases' = purchases \cup {p} /\ Leave(u)
        /\ UNCHANGED <<tips, tipGroups, planchetSets, signed, acceptsLeft>>
    BY <1>0, <1>1 DEF RecordConfirmPay, Typed, RecordsTyped
  <1>3. r \in ProposalRecord /\ r.stored = proposals[p].stored /\ r.status = "ACCEPTED"
    <2>1. InactiveRetryInfo \in RetryInfo /\ "ACCEPTED" \in ProposalStatus
      BY RetryInfos DEF ProposalStatus
    <2>. QED
      BY <1>1, <2>1 DEF ProposalRecord
  <1>. HIDE DEF r
  <1>4. /\ proposals' \in [Proposals -> ProposalRecord] /\ proposals'[p] = r
        /\ \A q \in Proposals \ {p} : proposals'[q] = proposals[q]
    BY <1>1, <1>2, <1>3 DEF Typed, RecordsTyped
  <1>5. \A q \in Proposals \ {p} : Rank(q)' = Rank(q) /\ Rank(q) \in Int
    BY <1>4 DEF Rank
  <1>6. Rank(p)' >= Rank(p)
    <2>1. proposals[p].stored \in BOOLEAN
      BY <1>1 DEF ProposalRecord
    <2>2. Rank(p)' = IF proposals[p].stored THEN 3 ELSE 0
      BY <1>3, <1>4, <2>1 DEF Rank
    <2>3. Rank(p) = IF proposals[p].stored THEN Rank(p) ELSE 0
      BY <2>1 DEF Rank
    <2>4. Rank(p) \in {0, 1, 2, 3}
      BY DEF Rank
    <2>. QED
      BY <2>1, <2>2, <2>3, <2>4
  <1>7. GoesForward
    BY <1>5, <1>6 DEF GoesForward
  <1>8. purchases' \subseteq Proposals
    BY <1>1, <1>2 DEF Typed, RecordsTyped
  <1>9. RecordsTyped'
    BY <1>2, <1>4, <1>8 DEF Typed, RecordsTyped
  <1>. QED
    BY <1>2, <1>7, <1>9, LeavingKeeps DEF Activities

LEMMA RefuseProposalKeeps ==
  ASSUME Typed, NEW u \in Users, NEW p \in Proposals, RefuseProposal(u, p)
  PROVE  Kept
  <1>. DEFINE r == [proposals[p] EXCEPT !.status = "REFUSED"]
  <1>1. proposals[p] \in ProposalRecord
    BY DEF Typed, RecordsTyped
  <1>2. /\ proposals' = [proposals EXCEPT ![p] = r]
        /\ proposals[p].stored /\ proposals[p].status = "PROPOSED"
        /\ UNCHANGED <<purchases, tips, tipGroups, activity, planchetSets, signed, acceptsLeft>>
    BY <1>1 DEF RefuseProposal, Typed, RecordsTyped
  <1>3. r \in ProposalRecord /\ r.stored = proposals[p].stored /\ r.status = "REFUSED"
    <2>1. "REFUSED" \in ProposalStatus
      BY DEF ProposalStatus
    <2>. QED
      BY <1>1, <2>1 DEF ProposalRecord
  <1>. HIDE DEF r
  <1>4. RecordsTyped' /\ GoesForward
    BY <1>2, <1>3, OneGoesForward DEF RecordsTyped, Typed
  <1>. QED
    BY <1>2, <1>4, OtherStep DEF QuietCall, Typed, CallsTyped

-----------------------------------------------------------------------------
(* Tips.                                                                     *)

\* An activity that goes on with a tip.
LEMMA TipGoesOn ==
  ASSUME Typed, NEW a \in Activities, NEW pc, GoOn(a, pc), activity[a].pc \in TipPcs,
         \/ activity[a] \in TipCalls /\ pc \in {"tip", "make", "reread", "failed"}
         \/ activity[a] \in PostCalls /\ pc \in {"post", "store", "failed"}
  PROVE  /\ CallsTyped' /\ activity'[a].pc = pc
         /\ activity'[a].tip = activity[a].tip /\ activity[a].tip \in Tips
         /\ activity[a] \in PostCalls => activity'[a].planchets = activity[a].planchets
         /\ \A b \in Activities \ {a} : activity'[b] = activity[b]
  BY GoesOn, TipsOfCalls DEF Typed

\* If it changes neither the tips nor what is signed.
LEMMA TipGoesOnQuietly ==
  ASSUME Typed, NEW a \in Activities, NEW pc, GoOn(a, pc), activity[a].pc \in TipPcs,
         activity[a] \in TipCalls, pc \in {"tip", "make", "reread", "failed"},
         RecordsTyped', UNCHANGED proposals, UNCHANGED <<tips, tipGroups, signed, acceptsLeft>>
  PROVE  Kept
  <1>1. /\ CallsTyped' /\ activity'[a].pc = pc /\ activity'[a].tip = activity[a].tip
        /\ \A b \in Activities \ {a} : activity'[b] = activity[b]
    BY TipGoesOn
  <1>2. TipsOK => CallOK(a)'
    BY <1>1 DEF TipsOK, CallsOK, CallOK
  <1>3. \A b \in Activities : QuietCall(b)
    BY <1>1, <1>2 DEF QuietCall
  <1>. QED
    BY <1>1, <1>3, NoWayBack, OtherStep

LEMMA GetTipStatusKeeps ==
  ASSUME Typed, NEW u \in Users, GetTipStatus(u)
  PROVE  Kept
  <1>1. PICK t \in Tips : ~tips[t].stored /\ tips' = [tips EXCEPT ![t] = NewTip]
    BY DEF GetTipStatus
  <1>2. UNCHANGED <<proposals, purchases, tipGroups, activity, planchetSets, signed, acceptsLeft>>
    BY DEF GetTipStatus
  <1>3. /\ tips' \in [Tips -> TipRecord] /\ tips'[t] = NewTip
        /\ \A s \in Tips \ {t} : tips'[s] = tips[s]
    BY <1>1, NewRecords DEF Typed, RecordsTyped
  <1>4. tips[t].accepted = FALSE
    <2>1. tips[t] \in TipRecord
      BY DEF Typed, RecordsTyped
    <2>. QED
      BY <1>1, <2>1 DEF Typed, AcceptedStored, TipRecord
  <1>5. /\ NewTip.accepted = FALSE /\ NewTip.pickedUp = FALSE /\ NewTip.planchets = 0
        /\ NewTip.stored
    BY DEF NewTip
  <1>6. TipsOK => \A s \in Tips : SameTip(s)
    <2>1. tips[t].pickedUp \in BOOLEAN
      BY DEF Typed, RecordsTyped, TipRecord
    <2>. QED
      BY <1>3, <1>4, <1>5, <2>1 DEF SameTip, TipsOK, NothingYet
  <1>7. QuietTips
    BY <1>2, <1>3, <1>4, <1>5, <1>6
       DEF QuietTips, QuietCall, StaysAccepted, Typed, AcceptedStored
  <1>8. CallsTyped' /\ RecordsTyped'
    BY <1>2, <1>3 DEF Typed, CallsTyped, RecordsTyped
  <1>. QED
    BY <1>2, <1>7, <1>8, NoWayBack, QuietStep

LEMMA ReadToAcceptKeeps ==
  ASSUME Typed, NEW u \in Users, NEW t \in Tips, ReadToAccept(u, t)
  PROVE  Kept
  <1>. DEFINE r == [pc |-> "accept", tip |-> t, record |-> tips[t]]
  <1>1. /\ acceptsLeft > 0 /\ tips[t].stored
        /\ activity' = [activity EXCEPT ![u] = r]
        /\ acceptsLeft' = acceptsLeft - 1
        /\ UNCHANGED <<proposals, purchases, tips, tipGroups, planchetSets, signed>>
    BY DEF ReadToAccept
  <1>2. tips[t] \in TipRecord /\ acceptsLeft \in 0..Accepts /\ Accepts \in Nat
    BY OffersAssumption DEF Typed, RecordsTyped
  <1>3. r \in Calls /\ r.pc = "accept" /\ r.tip = t /\ r.record = tips[t]
    BY <1>2 DEF Calls, AcceptCalls
  <1>. HIDE DEF r
  <1>4. /\ CallsTyped' /\ activity'[u] = r
        /\ \A b \in Activities \ {u} : activity'[b] = activity[b]
    BY <1>1, <1>3, Becomes DEF Typed, Activities
  <1>5. RecordsTyped'
    BY <1>1, <1>2 DEF Typed, RecordsTyped
  <1>6. AcceptedStored'
    BY <1>1, <1>3, <1>4 DEF Typed, AcceptedStored, At
  <1>7. ASSUME Accepts <= 1, TipsOK
        PROVE  TipsOK'
    <2>1. acceptsLeft' = 0
      BY <1>1, <1>2, <1>7
    <2>2. \A s \in Tips : ~tips[s].accepted /\ tips[s].planchets = 0 /\ ~tips[s].pickedUp
      BY <1>1, <1>7 DEF TipsOK, AcceptOnce, NothingYet
    <2>3. \A b \in Activities : ~At(b, "accept")
      BY <1>1, <1>2, <1>7 DEF TipsOK, AcceptOnce
    <2>4. \A b \in Activities : At(b, "accept")' => b = u
      BY <1>4, <2>3 DEF At
    <2>5. AcceptOnce'
      <3>1. activity'[u].record.planchets = 0 /\ ~activity'[u].record.pickedUp
        BY <1>3, <1>4, <2>2
      <3>2. \A s \in Tips : ~tips'[s].accepted
        BY <1>1, <2>2
      <3>. QED
        BY <2>1, <2>4, <3>1, <3>2 DEF AcceptOnce
    <2>6. CallsOK'
      BY <1>1, <1>3, <1>4, <1>7 DEF TipsOK, CallsOK, CallOK, TipPcs
    <2>7. NothingYet' /\ OneAccepted' /\ SignedOK' /\ GroupsOK' /\ TipOnce'
      BY <1>1, <1>7 DEF TipsOK, NothingYet, OneAccepted, SignedOK, GroupsOK, TipOnce
    <2>. QED
      BY <2>5, <2>6, <2>7 DEF TipsOK
  <1>. QED
    BY <1>1, <1>4, <1>5, <1>6, <1>7, NoWayBack DEF Kept, TipsKept, StaysAccepted

LEMMA AcceptTipKeeps ==
  ASSUME Typed, NEW u \in Users, AcceptTip(u)
  PROVE  Kept
  <1>1. activity[u] \in AcceptCalls /\ u \in Activities
    BY CallKinds DEF AcceptTip, At, Typed, CallsTyped, Activities
  <1>2. PICK t \in Tips : t = activity[u].tip
    BY <1>1 DEF AcceptCalls
  <1>3. PICK r \in TipRecord : r = [activity[u].record EXCEPT !.accepted = TRUE]
    BY <1>1 DEF AcceptCalls, TipRecord
  <1>4. /\ At(u, "accept") /\ tips' = [tips EXCEPT ![t] = r]
        /\ activity' = [activity EXCEPT ![u] = [pc |-> "tip", tip |-> t]]
        /\ UNCHANGED <<proposals, purchases, tipGroups, planchetSets, signed, acceptsLeft>>
    BY <1>2, <1>3 DEF AcceptTip
  <1>5. /\ r.accepted /\ r.stored = activity[u].record.stored
        /\ r.pickedUp = activity[u].record.pickedUp
        /\ r.planchets = activity[u].record.planchets
    BY <1>1, <1>3 DEF AcceptCalls, TipRecord
  <1>6. r.stored
    BY <1>1, <1>4, <1>5 DEF Typed, AcceptedStored
  <1>7. [pc |-> "tip", tip |-> t] \in Calls
    BY DEF Calls, TipCalls
  <1>8. /\ CallsTyped' /\ activity'[u] = [pc |-> "tip", tip |-> t]
        /\ \A b \in Activities \ {u} : activity'[b] = activity[b]
    BY <1>1, <1>4, <1>7, Becomes DEF Typed
  <1>9. /\ tips' \in [Tips -> TipRecord] /\ tips'[t] = r
        /\ \A s \in Tips \ {t} : tips'[s] = tips[s]
    BY <1>4 DEF Typed, RecordsTyped
  <1>10. RecordsTyped'
    BY <1>4, <1>9 DEF Typed, RecordsTyped
  <1>11. AcceptedStored'
    BY <1>6, <1>8, <1>9 DEF Typed, AcceptedStored, At
  <1>12. StaysAccepted
    BY <1>5, <1>9 DEF StaysAccepted
  <1>13. ASSUME TipsOK
         PROVE  TipsOK'
    <2>1. /\ acceptsLeft = 0 /\ \A s \in Tips : ~tips[s].accepted
          /\ r.planchets = 0 /\ ~r.pickedUp
          /\ \A b \in Activities \ {u} : ~At(b, "accept")
      BY <1>1, <1>4, <1>5, <1>13 DEF TipsOK, AcceptOnce
    <2>2. NothingYet' /\ OneAccepted'
      BY <1>5, <1>9, <1>13, <2>1 DEF TipsOK, NothingYet, OneAccepted
    <2>3. AcceptOnce'
      BY <1>4, <1>8, <2>1 DEF AcceptOnce, At
    <2>4. SignedOK'
      BY <1>4, <1>13, <2>1 DEF TipsOK, SignedOK
    <2>5. CallsOK'
      <3>1. CallOK(u)'
        BY <1>5, <1>8, <1>9 DEF CallOK
      <3>2. ASSUME NEW b \in Activities \ {u}
            PROVE  CallOK(b)'
        <4>1. activity[b].pc \notin TipPcs
          BY <1>13, <2>1, TipsOfCalls DEF TipsOK, CallsOK, CallOK, Typed
        <4>. QED
          BY <1>8, <4>1 DEF CallOK, TipPcs
      <3>. QED
        BY <3>1, <3>2 DEF CallsOK
    <2>6. GroupsOK' /\ TipOnce'
      <3>1. \A i \in DOMAIN tipGroups : FALSE
        BY <1>13, <2>1, TipsOfGroups DEF TipsOK, GroupsOK, Typed
      <3>. QED
        BY <1>4, <3>1 DEF GroupsOK, TipOnce
    <2>. QED
      BY <2>2, <2>3, <2>4, <2>5, <2>6 DEF TipsOK
  <1>. QED
    BY <1>4, <1>8, <1>10, <1>11, <1>12, <1>13, NoWayBack DEF Kept, TipsKept

LEMMA ReadTipKeeps ==
  ASSUME Typed, NEW a \in Activities, ReadTip(a)
  PROVE  Kept
  <1>1. UNCHANGED <<proposals, purchases, tips, tipGroups, planchetSets, signed, acceptsLeft>>
    BY DEF ReadTip
  <1>2. RecordsTyped' /\ GoesForward
    BY <1>1, NoWayBack DEF Typed, RecordsTyped
  <1>3. activity[a] \in TipCalls /\ activity[a].pc \in TipPcs
    BY CallKinds DEF ReadTip, At, Typed, CallsTyped, TipPcs
  <1>4. Leave(a) \/ \E pc \in {"make", "reread"} : GoOn(a, pc)
    BY DEF ReadTip
  <1>5. CASE Leave(a)
    BY <1>1, <1>2, <1>5, LeavingKeeps
  <1>6. CASE \E pc \in {"make", "reread"} : GoOn(a, pc)
    BY <1>1, <1>2, <1>3, <1>6, TipGoesOnQuietly
  <1>. QED
    BY <1>4, <1>5, <1>6

LEMMA PlanchetsFailKeeps ==
  ASSUME Typed, NEW a \in Activities, PlanchetsFail(a)
  PROVE  Kept
  <1>1. UNCHANGED <<proposals, purchases, tips, tipGroups, planchetSets, signed, acceptsLeft>>
    BY DEF PlanchetsFail
  <1>2. RecordsTyped'
    BY <1>1 DEF Typed, RecordsTyped
  <1>3. activity[a] \in TipCalls /\ activity[a].pc \in TipPcs /\ GoOn(a, "failed")
    BY CallKinds DEF PlanchetsFail, At, Typed, CallsTyped, TipPcs
  <1>. QED
    BY <1>1, <1>2, <1>3, TipGoesOnQuietly

LEMMA RereadTipKeeps ==
  ASSUME Typed, NEW a \in Activities, RereadTip(a)
  PROVE  Kept
  <1>1. UNCHANGED <<proposals, purchases, tips, tipGroups, planchetSets, signed, acceptsLeft>>
    BY DEF RereadTip
  <1>2. RecordsTyped' /\ GoesForward
    BY <1>1, NoWayBack DEF Typed, RecordsTyped
  <1>3. activity[a].tip \in Tips /\ activity[a].pc \in TipPcs
    BY TipsOfCalls DEF RereadTip, At, Typed, TipPcs
  <1>4. PICK t \in Tips : t = activity[a].tip
    BY <1>3
  <1>5. tips[t].planchets \in 0..MaxPlanchets /\ MaxPlanchets \in Nat
    BY OffersAssumption DEF Typed, RecordsTyped, TipRecord
  <1>6. PICK r \in Calls : /\ activity' = [activity EXCEPT ![a] = r] /\ r.tip = t
                           /\ r.pc \in {"failed", "post"}
                           /\ r.pc = "post" => r.planchets = tips[t].planchets
    <2>1. CASE tips[t].planchets = 0
      <3>. DEFINE r == [pc |-> "failed", tip |-> t]
      <3>1. r \in Calls /\ r.tip = t /\ r.pc = "failed"
        BY DEF Calls, TipCalls
      <3>2. activity' = [activity EXCEPT ![a] = r]
        BY <1>4, <2>1 DEF RereadTip
      <3>. QED
        BY <3>1, <3>2
    <2>2. CASE tips[t].planchets # 0
      <3>. DEFINE r == [pc |-> "post", tip |-> t, planchets |-> tips[t].planchets]
      <3>1. r \in PostCalls /\ r.tip = t /\ r.pc = "post" /\ r.planchets = tips[t].planchets
        BY <1>5, <2>2 DEF PostCalls
      <3>2. activity' = [activity EXCEPT ![a] = r]
        BY <1>4, <2>2 DEF RereadTip
      <3>3. r \in Calls
        BY <3>1 DEF Calls
      <3>. QED
        BY <3>1, <3>2, <3>3
    <2>. QED
      BY <2>1, <2>2
  <1>7. /\ CallsTyped' /\ activity'[a] = r
        /\ \A b \in Activities \ {a} : activity'[b] = activity[b]
    BY <1>6, Becomes DEF Typed
  <1>8. TipsOK => CallOK(a)'
    BY <1>1, <1>3, <1>4, <1>6, <1>7 DEF TipsOK, CallsOK, CallOK
  <1>9. \A b \in Activities : QuietCall(b)
    BY <1>6, <1>7, <1>8 DEF QuietCall
  <1>. QED
    BY <1>1, <1>2, <1>7, <1>9, OtherStep

\* Other retry information.
LEMMA RetryOfTip ==
  ASSUME Typed, NEW t \in Tips, NEW i \in RetryInfo,
         tips' = [tips EXCEPT ![t] = [@ EXCEPT !.retryInfo = i]],
         UNCHANGED <<tipGroups, signed, acceptsLeft>>
  PROVE  /\ tips' \in [Tips -> TipRecord] /\ StaysAccepted
         /\ \A s \in Tips : SameTip(s) /\ (tips[s].accepted => tips'[s].stored)
  <1>1. PICK r \in TipRecord : r = [tips[t] EXCEPT !.retryInfo = i]
    BY TipFields DEF Typed, RecordsTyped
  <1>2. /\ r.stored = tips[t].stored /\ r.accepted = tips[t].accepted
        /\ r.pickedUp = tips[t].pickedUp /\ r.planchets = tips[t].planchets
    BY <1>1, TipFields DEF Typed, RecordsTyped
  <1>3. tips' = [tips EXCEPT ![t] = r]
    BY <1>1
  <1>4. /\ tips' \in [Tips -> TipRecord] /\ tips'[t] = r
        /\ \A s \in Tips \ {t} : tips'[s] = tips[s]
    BY <1>3 DEF Typed, RecordsTyped
  <1>. QED
    BY <1>2, <1>4 DEF SameTip, StaysAccepted, Typed, AcceptedStored

LEMMA TipFailsKeeps ==
  ASSUME Typed, NEW a \in Activities, TipFails(a)
  PROVE  Kept
  <1>1. activity[a].tip \in Tips
    BY TipsOfCalls DEF TipFails, At, Typed, TipPcs
  <1>2. PICK t \in Tips : t = activity[a].tip
    BY <1>1
  <1>3. PICK i \in RetryInfo : i = UpdateRetryInfoTimeout(tips[t].retryInfo)
    BY RetryInfos DEF Typed, RecordsTyped, TipRecord
  <1>4. /\ tips' = [tips EXCEPT ![t] = [@ EXCEPT !.retryInfo = i]] /\ Leave(a)
        /\ UNCHANGED <<proposals, purchases, tipGroups, planchetSets, signed, acceptsLeft>>
    BY <1>2, <1>3 DEF TipFails, Typed, RecordsTyped
  <1>5. /\ tips' \in [Tips -> TipRecord] /\ StaysAccepted
        /\ \A s \in Tips : SameTip(s) /\ (tips[s].accepted => tips'[s].stored)
    BY <1>4, RetryOfTip
  <1>6. /\ CallsTyped' /\ activity'[a] = Idle
        /\ \A b \in Activities \ {a} : activity'[b] = activity[b]
    BY <1>4, IdleIsACall, Becomes DEF Typed, Leave
  <1>7. \A b \in Activities : QuietCall(b)
    BY <1>6, IdleIsACall, AwayFromTips DEF QuietCall, TipPcs
  <1>8. QuietTips
    BY <1>4, <1>5, <1>7 DEF QuietTips, SameTip
  <1>9. RecordsTyped'
    BY <1>4, <1>5 DEF Typed, RecordsTyped
  <1>. QED
    BY <1>4, <1>6, <1>8, <1>9, NoWayBack, QuietStep

\* Planchets are stored only when there are none; so they are none that were sent.
LEMMA MakePlanchetsKeeps ==
  ASSUME Typed, NEW a \in Activities, MakePlanchets(a)
  PROVE  Kept
  <1>1. /\ activity[a] \in TipCalls /\ activity[a].pc \in TipPcs /\ GoOn(a, "reread")
        /\ activity[a].tip \in Tips
    BY CallKinds, TipsOfCalls DEF MakePlanchets, At, Typed, CallsTyped, TipPcs
  <1>2. PICK t \in Tips : t = activity[a].tip
    BY <1>1
  <1>3. /\ planchetSets < MaxPlanchets /\ planchetSets' = planchetSets + 1
        /\ tips' = IF tips[t].planchets # 0 THEN tips
                   ELSE [tips EXCEPT ![t].planchets = planchetSets + 1]
        /\ UNCHANGED <<proposals, purchases, tipGroups, signed, acceptsLeft>>
    BY <1>2 DEF MakePlanchets, KeepsPlanchets
  <1>4. /\ CallsTyped' /\ activity'[a].pc = "reread" /\ activity'[a].tip = t
        /\ \A b \in Activities \ {a} : activity'[b] = activity[b]
    BY <1>1, <1>2, TipGoesOn
  <1>5. /\ planchetSets' \in 0..MaxPlanchets /\ planchetSets + 1 \in 0..MaxPlanchets
        /\ planchetSets + 1 # 0
    BY <1>3, OffersAssumption DEF Typed, RecordsTyped
  <1>6. CASE tips[t].planchets # 0
    <2>1. UNCHANGED tips
      BY <1>3, <1>6
    <2>2. RecordsTyped'
      BY <1>3, <1>5, <2>1 DEF Typed, RecordsTyped
    <2>3. TipsOK => CallOK(a)'
      BY <1>1, <1>2, <1>4, <2>1 DEF TipsOK, CallsOK, CallOK
    <2>4. \A b \in Activities : QuietCall(b)
      BY <1>4, <2>3 DEF QuietCall
    <2>. QED
      BY <1>3, <1>4, <2>1, <2>2, <2>4, NoWayBack, OtherStep
  <1>7. CASE tips[t].planchets = 0
    <2>1. PICK n \in 0..MaxPlanchets : n = planchetSets + 1 /\ n # 0
      BY <1>5
    <2>2. tips[t] \in TipRecord
      BY DEF Typed, RecordsTyped
    <2>3. PICK r \in TipRecord : r = [tips[t] EXCEPT !.planchets = n]
      BY <2>1, <2>2 DEF TipRecord
    <2>4. /\ r.stored = tips[t].stored /\ r.accepted = tips[t].accepted
          /\ r.pickedUp = tips[t].pickedUp /\ r.planchets = n
      BY <2>2, <2>3 DEF TipRecord
    <2>5. tips' = [tips EXCEPT ![t] = r]
      BY <1>3, <1>7, <2>1, <2>3
    <2>6. /\ tips' \in [Tips -> TipRecord] /\ tips'[t] = r
          /\ \A s \in Tips \ {t} : tips'[s] = tips[s]
      BY <2>5 DEF Typed, RecordsTyped
    <2>7. RecordsTyped'
      BY <1>3, <1>5, <2>6 DEF Typed, RecordsTyped
    <2>8. \A b \in Activities : At(b, "accept")' => At(b, "accept") /\ activity'[b] = activity[b]
      BY <1>4 DEF At
    <2>9. AcceptedStored' /\ StaysAccepted
      BY <2>4, <2>6, <2>8 DEF Typed, AcceptedStored, StaysAccepted
    <2>10. ASSUME TipsOK
           PROVE  TipsOK'
      <3>1. tips[t].accepted
        BY <1>1, <1>2, <2>10 DEF TipsOK, CallsOK, CallOK
      <3>2. signed = 0
        BY <1>7, <2>10, <3>1 DEF TipsOK, SignedOK
      <3>3. NothingYet' /\ OneAccepted' /\ SignedOK'
        BY <1>3, <2>4, <2>6, <2>10, <3>1, <3>2 DEF TipsOK, NothingYet, OneAccepted, SignedOK
      <3>4. AcceptOnce'
        BY <1>3, <2>8, <2>10, <3>1 DEF TipsOK, AcceptOnce
      <3>5. CallsOK'
        <4>1. CallOK(a)'
          BY <1>4, <2>4, <2>6, <3>1 DEF CallOK
        <4>2. ASSUME NEW b \in Activities \ {a}
              PROVE  CallOK(b)'
          <5>1. CASE activity[b].pc \in {"post", "store"}
            <6>1. activity[b] \in PostCalls
              BY <5>1, CallKinds DEF Typed, CallsTyped
            <6>2. activity[b].planchets # 0 /\ activity[b].tip \in Tips
              BY <6>1, OffersAssumption DEF PostCalls
            <6>3. activity[b].tip # t
              BY <1>7, <2>10, <5>1, <6>2 DEF TipsOK, CallsOK, CallOK
            <6>. QED
              BY <1>4, <2>6, <2>10, <6>2, <6>3 DEF TipsOK, CallsOK, CallOK
          <5>2. CASE activity[b].pc \notin {"post", "store"}
            BY <1>4, <2>4, <2>6, <2>10, <5>2, TipsOfCalls DEF TipsOK, CallsOK, CallOK, Typed
          <5>. QED
            BY <5>1, <5>2
        <4>. QED
          BY <4>1, <4>2 DEF CallsOK
      <3>6. GroupsOK' /\ TipOnce'
        BY <1>3, <2>4, <2>6, <2>10, TipsOfGroups DEF TipsOK, GroupsOK, TipOnce, Typed
      <3>. QED
        BY <3>3, <3>4, <3>5, <3>6 DEF TipsOK
    <2>. QED
      BY <1>3, <1>4, <2>7, <2>9, <2>10, NoWayBack DEF Kept, TipsKept
  <1>. QED
    BY <1>6, <1>7

\* What the merchant signs first is what is stored with the tip that was accepted.
LEMMA MerchantSignsKeeps ==
  ASSUME Typed, NEW a \in Activities, MerchantSigns(a)
  PROVE  Kept
  <1>1. /\ activity[a] \in PostCalls /\ activity[a].pc = "post" /\ activity[a].pc \in TipPcs
    BY CallKinds DEF MerchantSigns, At, Typed, CallsTyped, TipPcs
  <1>2. PICK pc \in {"store", "failed"} : GoOn(a, pc)
    BY DEF MerchantSigns
  <1>3. /\ signed' = IF signed = 0 THEN activity[a].planchets ELSE signed
        /\ UNCHANGED <<proposals, purchases, tips, tipGroups, planchetSets, acceptsLeft>>
    BY DEF MerchantSigns
  <1>4. /\ CallsTyped' /\ activity'[a].pc = pc /\ activity'[a].tip = activity[a].tip
        /\ activity[a].tip \in Tips /\ activity'[a].planchets = activity[a].planchets
        /\ \A b \in Activities \ {a} : activity'[b] = activity[b]
    BY <1>1, <1>2, TipGoesOn
  <1>5. activity[a].planchets \in 1..MaxPlanchets /\ MaxPlanchets \in Nat
    BY <1>1, OffersAssumption DEF PostCalls
  <1>6. RecordsTyped'
    BY <1>3, <1>5 DEF Typed, RecordsTyped
  <1>7. \A b \in Activities : At(b, "accept")' => At(b, "accept") /\ activity'[b] = activity[b]
    BY <1>2, <1>4 DEF At
  <1>8. AcceptedStored' /\ StaysAccepted
    BY <1>3, <1>7 DEF Typed, AcceptedStored, StaysAccepted
  <1>9. ASSUME TipsOK
        PROVE  TipsOK'
    <2>1. /\ tips[activity[a].tip].accepted
          /\ activity[a].planchets = tips[activity[a].tip].planchets
      BY <1>1, <1>9 DEF TipsOK, CallsOK, CallOK
    <2>2. SignedOK'
      BY <1>3, <1>4, <1>9, <2>1 DEF TipsOK, SignedOK, OneAccepted
    <2>3. AcceptOnce'
      BY <1>3, <1>7, <1>9 DEF TipsOK, AcceptOnce
    <2>4. CallsOK'
      BY <1>3, <1>4, <1>9, <2>1 DEF TipsOK, CallsOK, CallOK
    <2>5. NothingYet' /\ OneAccepted' /\ GroupsOK' /\ TipOnce'
      BY <1>3, <1>9 DEF TipsOK, NothingYet, OneAccepted, GroupsOK, TipOnce
    <2>. QED
      BY <2>2, <2>3, <2>4, <2>5 DEF TipsOK
  <1>. QED
    BY <1>3, <1>4, <1>6, <1>8, <1>9, NoWayBack DEF Kept, TipsKept

\* A group more for a tip that has none.
LEMMA PickUpKeeps ==
  ASSUME Typed, NEW a \in Activities, PickUp(a)
  PROVE  Kept
  <1>1. activity[a] \in PostCalls /\ activity[a].pc = "store"
    BY CallKinds DEF PickUp, At, Typed, CallsTyped
  <1>2. PICK t \in Tips, n \in 1..MaxPlanchets : t = activity[a].tip /\ n = activity[a].planchets
    BY <1>1 DEF PostCalls
  <1>3. /\ \/ /\ ~tips[t].pickedUp
              /\ tips' = [tips EXCEPT ![t] = TipPickedUp(t)]
              /\ tipGroups' = Append(tipGroups, [tip |-> t, planchets |-> n])
           \/ UNCHANGED <<tips, tipGroups>>
        /\ Leave(a)
        /\ UNCHANGED <<proposals, purchases, planchetSets, signed, acceptsLeft>>
    BY <1>2 DEF PickUp, PickedUp
  <1>4. CASE UNCHANGED <<tips, tipGroups>>
    <2>1. RecordsTyped'
      BY <1>3, <1>4 DEF Typed, RecordsTyped
    <2>. QED
      BY <1>3, <1>4, <2>1, NoWayBack, LeavingKeeps
  <1>5. CASE /\ ~tips[t].pickedUp
             /\ tips' = [tips EXCEPT ![t] = TipPickedUp(t)]
             /\ tipGroups' = Append(tipGroups, [tip |-> t, planchets |-> n])
    <2>1. tips[t] \in TipRecord
      BY DEF Typed, RecordsTyped
    <2>2. PICK r \in TipRecord : r = TipPickedUp(t)
      BY <2>1, RetryInfos DEF TipPickedUp, TipRecord
    <2>3. /\ r.stored = tips[t].stored /\ r.accepted = tips[t].accepted
          /\ r.pickedUp = TRUE /\ r.planchets = tips[t].planchets
      BY <2>1, <2>2 DEF TipPickedUp, TipRecord
    <2>4. /\ tips' \in [Tips -> TipRecord] /\ tips'[t] = r
          /\ \A s \in Tips \ {t} : tips'[s] = tips[s]
      BY <1>5, <2>2 DEF Typed, RecordsTyped
    <2>5. /\ CallsTyped' /\ activity'[a] = Idle
          /\ \A b \in Activities \ {a} : activity'[b] = activity[b]
      BY <1>3, IdleIsACall, Becomes DEF Typed, Leave
    <2>6. PICK g \in [tip: Tips, planchets: 1..MaxPlanchets] : g = [tip |-> t, planchets |-> n]
      OBVIOUS
    <2>7. /\ tipGroups' = Append(tipGroups, g) /\ g.tip = t
          /\ Len(tipGroups) \in Nat /\ DOMAIN tipGroups = 1..Len(tipGroups)
          /\ DOMAIN tipGroups' = 1..(Len(tipGroups) + 1)
          /\ \A i \in DOMAIN tipGroups : tipGroups'[i] = tipGroups[i]
          /\ tipGroups'[Len(tipGroups) + 1] = g
      <3>. DEFINE S == [tip: Tips, planchets: 1..MaxPlanchets]
      <3>1. tipGroups \in Seq(S) /\ g \in S
        BY DEF Typed, RecordsTyped
      <3>2. tipGroups' = Append(tipGroups, g) /\ g.tip = t
        BY <1>5, <2>6
      <3>. HIDE DEF S
      <3>. QED
        BY <3>1, <3>2
    <2>8. RecordsTyped'
      <3>. DEFINE S == [tip: Tips, planchets: 1..MaxPlanchets]
      <3>1. tipGroups \in Seq(S) /\ g \in S
        BY DEF Typed, RecordsTyped
      <3>. HIDE DEF S
      <3>2. tipGroups' \in Seq(S)
        BY <2>7, <3>1
      <3>. QED
        BY <1>3, <2>4, <3>2 DEF S, Typed, RecordsTyped
    <2>9. \A b \in Activities : At(b, "accept")' => At(b, "accept") /\ activity'[b] = activity[b]
      BY <2>5, IdleIsACall DEF At
    <2>10. AcceptedStored' /\ StaysAccepted
      BY <2>3, <2>4, <2>9 DEF Typed, AcceptedStored, StaysAccepted
    <2>11. ASSUME TipsOK
           PROVE  TipsOK'
      <3>1. tips[t].accepted
        BY <1>1, <1>2, <2>11 DEF TipsOK, CallsOK, CallOK, TipPcs
      <3>2. NothingYet' /\ OneAccepted' /\ SignedOK'
        BY <1>3, <2>3, <2>4, <2>11, <3>1 DEF TipsOK, NothingYet, OneAccepted, SignedOK
      <3>3. AcceptOnce'
        BY <1>3, <2>3, <2>4, <2>9, <2>11, <3>1 DEF TipsOK, AcceptOnce
      <3>4. CallsOK'
        <4>1. CallOK(a)'
          BY <2>5, IdleIsACall DEF CallOK, TipPcs
        <4>2. ASSUME NEW b \in Activities \ {a}
              PROVE  CallOK(b)'
          BY <2>3, <2>4, <2>5, <2>11, TipsOfCalls DEF TipsOK, CallsOK, CallOK, Typed, TipPcs
        <4>. QED
          BY <4>1, <4>2 DEF CallsOK
      <3>5. \A i \in DOMAIN tipGroups : /\ tipGroups[i].tip \in Tips \ {t}
                                        /\ tips'[tipGroups[i].tip] = tips[tipGroups[i].tip]
        BY <1>5, <2>4, <2>11, TipsOfGroups DEF TipsOK, GroupsOK, Typed
      <3>6. GroupsOK'
        <4>1. ASSUME NEW i \in DOMAIN tipGroups
              PROVE  tips'[tipGroups'[i].tip].accepted /\ tips'[tipGroups'[i].tip].pickedUp
          BY <2>7, <2>11, <3>5 DEF TipsOK, GroupsOK
        <4>2. tips'[t].accepted /\ tips'[t].pickedUp
          BY <2>3, <2>4, <3>1
        <4>. QED
          BY <2>7, <4>1, <4>2 DEF GroupsOK
      <3>7. TipOnce'
        BY <2>7, <2>11, <3>5 DEF TipsOK, TipOnce
      <3>. QED
        BY <3>2, <3>3, <3>4, <3>6, <3>7 DEF TipsOK
    <2>. QED
      BY <1>3, <2>5, <2>8, <2>10, <2>11, NoWayBack DEF Kept, TipsKept
  <1>. QED
    BY <1>3, <1>4, <1>5

-----------------------------------------------------------------------------
(* The loop, the host, and the clock.                                        *)

\* What is on the list stays right.
LEMMA ListStays ==
  ASSUME ListOK, StaysAccepted, NEW pc, NEW timer, NEW list \in Seq(Operations),
         loop' = [pc |-> pc, list |-> list, timer |-> timer]
  PROVE  ListOK'
  <1>1. Operations \subseteq Operations'
    BY DEF Operations, StaysAccepted
  <1>2. list \in Seq(Operations')
    <2>1. \A S, T : S \subseteq T => Seq(S) \subseteq Seq(T)
      OBVIOUS
    <2>. QED
      BY <1>1, <2>1
  <1>. QED
    BY <1>2 DEF ListOK, LoopShaped

\* The loop goes elsewhere or sets its timer.
LEMMA LoopStays ==
  ASSUME ListOK, StaysAccepted,
         \/ UNCHANGED loop
         \/ \E pc : loop' = [loop EXCEPT !.pc = pc]
         \/ \E timer : loop' = [loop EXCEPT !.timer = timer]
         \/ \E pc, timer : loop' = [loop EXCEPT !.pc = pc, !.timer = timer]
  PROVE  ListOK'
  <1>1. loop.list \in Seq(Operations) /\ loop = [pc |-> loop.pc, list |-> loop.list, timer |-> loop.timer]
    BY DEF ListOK, LoopShaped
  <1>2. PICK pc, timer : loop' = [pc |-> pc, list |-> loop.list, timer |-> timer]
    <2>1. CASE UNCHANGED loop
      BY <1>1, <2>1
    <2>2. CASE \E pc : loop' = [loop EXCEPT !.pc = pc]
      BY <1>1, <2>2
    <2>3. CASE \E timer : loop' = [loop EXCEPT !.timer = timer]
      BY <1>1, <2>3
    <2>4. CASE \E pc, timer : loop' = [loop EXCEPT !.pc = pc, !.timer = timer]
      BY <1>1, <2>4
    <2>. QED
      BY <2>1, <2>2, <2>3, <2>4
  <1>. QED
    BY <1>1, <1>2, ListStays

LEMMA NothingHappens ==
  ASSUME Typed, UNCHANGED offersVars
  PROVE  Kept
  <1>1. CallsTyped' /\ RecordsTyped' /\ GoesForward
    BY NoWayBack DEF Typed, CallsTyped, RecordsTyped, offersVars
  <1>2. \A a \in Activities : QuietCall(a)
    BY DEF QuietCall, offersVars
  <1>3. UNCHANGED <<tips, tipGroups, signed, acceptsLeft>>
    BY DEF offersVars
  <1>. QED
    BY <1>1, <1>2, <1>3, OtherStep

LEMMA LoopAsksKeeps ==
  ASSUME Typed, LoopAsks
  PROVE  Kept /\ ListOK'
  <1>1. Kept
    BY NothingHappens DEF LoopAsks
  <1>2. \E pc : loop' = [loop EXCEPT !.pc = pc]
    BY DEF LoopAsks
  <1>. QED
    BY <1>1, <1>2, LoopStays DEF Kept, Typed

LEMMA TimerFiresKeeps ==
  ASSUME Typed, TimerFires
  PROVE  Kept /\ ListOK'
  <1>1. Kept
    BY NothingHappens DEF TimerFires
  <1>2. UNCHANGED loop \/ \E pc, timer : loop' = [loop EXCEPT !.pc = pc, !.timer = timer]
    BY DEF TimerFires, Woken
  <1>. QED
    BY <1>1, <1>2, LoopStays DEF Kept, Typed

LEMMA OperationEndsKeeps ==
  ASSUME Typed, OperationEnds
  PROVE  Kept /\ ListOK'
  <1>1. Kept
    BY NothingHappens DEF OperationEnds
  <1>2. \E pc : loop' = [loop EXCEPT !.pc = pc]
    BY DEF OperationEnds
  <1>. QED
    BY <1>1, <1>2, LoopStays DEF Kept, Typed

LEMMA HostKeeps ==
  ASSUME Typed, HostAsks \/ RunUntilDone \/ Stop
  PROVE  Kept /\ ListOK'
  <1>1. Kept
    BY NothingHappens DEF HostAsks, RunUntilDone, Stop
  <1>2. UNCHANGED loop \/ \E timer : loop' = [loop EXCEPT !.timer = timer]
    BY DEF HostAsks, RunUntilDone, Stop
  <1>. QED
    BY <1>1, <1>2, LoopStays DEF Kept, Typed

\* What the gatherers found is put on the list.
LEMMA PendingArriveKeeps ==
  ASSUME Typed, PendingArrive
  PROVE  Kept /\ ListOK'
  <1>. DEFINE ops == PendingOperations(reading = "all")
  <1>1. Kept
    BY NothingHappens DEF PendingArrive
  <1>2. \/ loop' = [loop EXCEPT !.pc = "run", !.list = ops]
        \/ UNCHANGED loop
        \/ loop' = [loop EXCEPT !.pc = "all"]
        \/ loop' = [loop EXCEPT !.pc = "asleep", !.timer = IF stopped THEN NoTimer ELSE SleepingTime(ops)]
    BY DEF PendingArrive
  <1>3. CASE loop' = [loop EXCEPT !.pc = "run", !.list = ops]
    <2>1. ops \in Seq(Operations)
      BY PendingAreOperations
    <2>. HIDE DEF ops
    <2>2. loop = [pc |-> loop.pc, list |-> loop.list, timer |-> loop.timer]
      BY DEF Typed, ListOK, LoopShaped
    <2>3. loop' = [pc |-> "run", list |-> ops, timer |-> loop.timer]
      BY <1>3, <2>2
    <2>. QED
      BY <1>1, <2>1, <2>3, ListStays DEF Kept, Typed
  <1>4. CASE UNCHANGED loop
    BY <1>1, <1>4, LoopStays DEF Kept, Typed
  <1>5. CASE \E pc : loop' = [loop EXCEPT !.pc = pc]
    BY <1>1, <1>5, LoopStays DEF Kept, Typed
  <1>6. CASE \E pc, timer : loop' = [loop EXCEPT !.pc = pc, !.timer = timer]
    BY <1>1, <1>6, LoopStays DEF Kept, Typed
  <1>. HIDE DEF ops
  <1>. QED
    BY <1>2, <1>3, <1>4, <1>5, <1>6

LEMMA ProcessOneKeeps ==
  ASSUME Typed, ProcessOnePendingOperation
  PROVE  Kept /\ ListOK'
  <1>1. /\ loop.list # <<>> /\ loop.list \in Seq(Operations)
        /\ loop = [pc |-> loop.pc, list |-> loop.list, timer |-> loop.timer]
    BY DEF ProcessOnePendingOperation, Typed, ListOK, LoopShaped
  <1>2. PICK op \in Operations : op = Head(loop.list)
    BY <1>1
  <1>3. PICK list \in Seq(Operations) : list = Tail(loop.list)
    BY <1>1, HeadTailProperties
  <1>4. PICK r \in Calls : r = Begun(op)
    BY BegunIsACall
  <1>5. /\ activity' = [activity EXCEPT ![Loop] = r] /\ Loop \in Activities
        /\ UNCHANGED <<proposals, purchases, tips, tipGroups, planchetSets, signed, acceptsLeft>>
        /\ loop' = [loop EXCEPT !.pc = "running", !.list = list]
    BY <1>2, <1>3, <1>4 DEF ProcessOnePendingOperation, Activities
  <1>6. /\ CallsTyped' /\ activity'[Loop] = r
        /\ \A b \in Activities \ {Loop} : activity'[b] = activity[b]
    BY <1>5, Becomes DEF Typed
  <1>7. QuietCall(Loop)
    BY <1>4, <1>5, <1>6, BegunIsACall DEF QuietCall, CallOK
  <1>8. \A a \in Activities : QuietCall(a)
    BY <1>6, <1>7 DEF QuietCall
  <1>9. RecordsTyped' /\ GoesForward
    BY <1>5, NoWayBack DEF Typed, RecordsTyped
  <1>10. Kept
    BY <1>5, <1>6, <1>8, <1>9, OtherStep
  <1>11. loop' = [pc |-> "running", list |-> list, timer |-> loop.timer]
    BY <1>1, <1>5
  <1>. QED
    BY <1>10, <1>11, ListStays DEF Kept, Typed

LEMMA WorkOfCalls ==
  ASSUME CallsTyped, NEW a \in Activities, activity[a].pc \in {"put", "work"}
  PROVE  activity[a] \in WorkCalls
  BY CallKinds DEF CallsTyped

LEMMA WorkEndsKeeps ==
  ASSUME Typed, NEW a \in Activities, NEW w \in Works, NEW outcomes, WorkEnds(a, w, outcomes)
  PROVE  Kept /\ ListOK'
  <1>1. /\ Leave(a) /\ UNCHANGED loop
        /\ UNCHANGED <<proposals, purchases, tips, tipGroups, planchetSets, signed, acceptsLeft>>
    BY DEF WorkEnds
  <1>2. RecordsTyped' /\ GoesForward
    BY <1>1, NoWayBack DEF Typed, RecordsTyped
  <1>3. Kept
    BY <1>1, <1>2, LeavingKeeps
  <1>. QED
    BY <1>1, <1>3, LoopStays DEF Kept, Typed

LEMMA BeginWorkKeeps ==
  ASSUME Typed, NEW u \in Users, NEW w \in Works, BeginWork(u, w)
  PROVE  Kept /\ ListOK'
  <1>. DEFINE r == [pc |-> "put", work |-> w]
  <1>1. /\ activity' = [activity EXCEPT ![u] = r] /\ loop' = Woken(loop) /\ u \in Activities
        /\ UNCHANGED <<proposals, purchases, tips, tipGroups, planchetSets, signed, acceptsLeft>>
    BY DEF BeginWork, Activities
  <1>2. r \in Calls /\ r.pc \notin TipPcs /\ r.pc # "accept"
    BY DEF Calls, WorkCalls, TipPcs
  <1>. HIDE DEF r
  <1>3. RecordsTyped' /\ GoesForward
    BY <1>1, NoWayBack DEF Typed, RecordsTyped
  <1>4. Kept
    BY <1>1, <1>2, <1>3, AwayStep
  <1>5. UNCHANGED loop \/ \E pc, timer : loop' = [loop EXCEPT !.pc = pc, !.timer = timer]
    BY <1>1 DEF Woken
  <1>. QED
    BY <1>4, <1>5, LoopStays DEF Kept, Typed

LEMMA PutWorkKeeps ==
  ASSUME Typed, NEW u \in Users, PutWork(u)
  PROVE  Kept /\ ListOK'
  <1>1. /\ GoOn(u, "work") \/ Leave(u)
        /\ UNCHANGED loop /\ u \in Activities /\ activity[u].pc = "put"
        /\ UNCHANGED <<proposals, purchases, tips, tipGroups, planchetSets, signed, acceptsLeft>>
    BY DEF PutWork, Activities, At
  <1>2. RecordsTyped' /\ GoesForward
    BY <1>1, NoWayBack DEF Typed, RecordsTyped
  <1>3. CASE Leave(u)
    BY <1>1, <1>2, <1>3, LeavingKeeps, LoopStays DEF Kept, Typed
  <1>4. CASE GoOn(u, "work")
    <2>1. activity[u] \in WorkCalls
      BY <1>1, WorkOfCalls DEF Typed
    <2>2. /\ CallsTyped' /\ activity'[u].pc = "work"
          /\ \A b \in Activities \ {u} : activity'[b] = activity[b]
      BY <1>1, <1>4, <2>1, GoesOn DEF Typed
    <2>3. \A b \in Activities : QuietCall(b)
      BY <2>2, AwayFromTips DEF QuietCall, TipPcs
    <2>4. Kept
      BY <1>1, <1>2, <2>2, <2>3, OtherStep
    <2>. QED
      BY <1>1, <2>4, LoopStays DEF Kept, Typed
  <1>. QED
    BY <1>1, <1>3, <1>4

\* What was not stored is forgotten.
LEMMA RestartKeeps ==
  ASSUME Typed, Restart
  PROVE  Kept /\ ListOK'
  <1>1. /\ activity' = [a \in Activities |-> Idle]
        /\ loop' = [pc |-> "top", list |-> <<>>, timer |-> NoTimer]
        /\ UNCHANGED <<proposals, purchases, tips, tipGroups, planchetSets, signed, acceptsLeft>>
    BY DEF Restart
  <1>2. CallsTyped' /\ \A a \in Activities : activity'[a].pc = "idle"
    BY <1>1, IdleIsACall DEF CallsTyped
  <1>3. RecordsTyped' /\ GoesForward
    BY <1>1, NoWayBack DEF Typed, RecordsTyped
  <1>4. \A a \in Activities : QuietCall(a)
    BY <1>2, AwayFromTips DEF TipPcs
  <1>5. Kept
    BY <1>1, <1>2, <1>3, <1>4, OtherStep
  <1>6. <<>> \in Seq(Operations)
    OBVIOUS
  <1>. QED
    BY <1>1, <1>5, <1>6, ListStays DEF Kept, Typed

\* An operation is begun at once, with new retry information.
LEMMA ForceNowKeeps ==
  ASSUME Typed, NEW u \in Users, ForceNow(u)
  PROVE  Kept /\ ListOK'
  <1>1. /\ UNCHANGED loop /\ u \in Activities
        /\ UNCHANGED <<purchases, tipGroups, planchetSets, signed, acceptsLeft>>
    BY DEF ForceNow, Activities
  <1>2. \/ \E t \in Tips : /\ tips[t].accepted
                           /\ tips' = [tips EXCEPT ![t].retryInfo = InitRetryInfo]
                           /\ activity' = [activity EXCEPT ![u] = [pc |-> "tip", tip |-> t]]
                           /\ UNCHANGED proposals
        \/ \E p \in Proposals : /\ proposals' = [proposals EXCEPT ![p].retryInfo = InitRetryInfo]
                                /\ activity' = [activity EXCEPT ![u] = [pc |-> "download", proposal |-> p]]
                                /\ UNCHANGED tips
    BY DEF ForceNow, OpenTips
  <1>3. ASSUME NEW t \in Tips, tips[t].accepted,
               tips' = [tips EXCEPT ![t].retryInfo = InitRetryInfo],
               activity' = [activity EXCEPT ![u] = [pc |-> "tip", tip |-> t]], UNCHANGED proposals
        PROVE  Kept
    <2>1. PICK i \in RetryInfo : i = InitRetryInfo
      BY RetryInfos
    <2>2. tips' = [tips EXCEPT ![t] = [@ EXCEPT !.retryInfo = i]]
      BY <1>3, <2>1
    <2>3. /\ tips' \in [Tips -> TipRecord] /\ StaysAccepted
          /\ \A s \in Tips : SameTip(s) /\ (tips[s].accepted => tips'[s].stored)
      BY <1>1, <2>2, RetryOfTip
    <2>4. [pc |-> "tip", tip |-> t] \in Calls
      BY DEF Calls, TipCalls
    <2>5. /\ CallsTyped' /\ activity'[u] = [pc |-> "tip", tip |-> t]
          /\ \A b \in Activities \ {u} : activity'[b] = activity[b]
      BY <1>1, <1>3, <2>4, Becomes DEF Typed
    <2>6. CallOK(u)'
      BY <1>3, <2>3, <2>5 DEF CallOK, SameTip
    <2>7. \A b \in Activities : QuietCall(b)
      BY <2>5, <2>6 DEF QuietCall
    <2>8. QuietTips
      BY <1>1, <2>3, <2>7 DEF QuietTips, SameTip
    <2>9. RecordsTyped'
      BY <1>1, <1>3, <2>3 DEF Typed, RecordsTyped
    <2>. QED
      BY <1>3, <2>5, <2>8, <2>9, NoWayBack, QuietStep
  <1>4. ASSUME NEW p \in Proposals,
               proposals' = [proposals EXCEPT ![p].retryInfo = InitRetryInfo],
               activity' = [activity EXCEPT ![u] = [pc |-> "download", proposal |-> p]],
               UNCHANGED tips
        PROVE  Kept
    <2>1. PICK r \in ProposalRecord : /\ proposals' = [proposals EXCEPT ![p] = r]
                                      /\ r.stored = proposals[p].stored
                                      /\ r.status = proposals[p].status
      <3>. DEFINE r == [proposals[p] EXCEPT !.retryInfo = InitRetryInfo]
      <3>1. proposals[p] \in ProposalRecord /\ proposals' = [proposals EXCEPT ![p] = r]
        BY <1>4 DEF Typed, RecordsTyped
      <3>2. /\ r \in ProposalRecord /\ r.stored = proposals[p].stored
            /\ r.status = proposals[p].status
        BY <3>1, RetryInfos DEF ProposalRecord
      <3>. QED
        BY <3>1, <3>2
    <2>2. proposals[p].stored \in BOOLEAN
      BY DEF Typed, RecordsTyped, ProposalRecord
    <2>3. RecordsTyped' /\ GoesForward
      BY <1>1, <1>4, <2>1, <2>2, OneGoesForward DEF Typed, RecordsTyped
    <2>4. PICK c \in ProposalCalls : c = [pc |-> "download", proposal |-> p]
      BY DEF ProposalCalls
    <2>5. c \in Calls /\ c.pc \notin TipPcs /\ c.pc # "accept"
      BY <2>4 DEF Calls, TipPcs
    <2>. QED
      BY <1>1, <1>4, <2>3, <2>4, <2>5, AwayStep
  <1>5. Kept
    BY <1>2, <1>3, <1>4
  <1>. QED
    BY <1>1, <1>5, LoopStays DEF Kept, Typed

LEMMA TickKeeps ==
  ASSUME Typed, Tick
  PROVE  Kept /\ ListOK'
  <1>1. /\ proposals' = [p \in Proposals |-> IF StillDownloading(p) THEN LaterRecord(proposals[p])
                                             ELSE proposals[p]]
        /\ tips' = [t \in Tips |-> IF t \in OpenTips THEN LaterRecord(tips[t]) ELSE tips[t]]
        /\ \E timer : loop' = [loop EXCEPT !.timer = timer]
        /\ UNCHANGED <<purchases, tipGroups, activity, planchetSets, signed, acceptsLeft>>
    BY DEF Tick
  <1>2. ASSUME NEW p \in Proposals
        PROVE  /\ proposals'[p] \in ProposalRecord /\ proposals'[p].stored = proposals[p].stored
               /\ proposals'[p].status = proposals[p].status
    <2>1. proposals[p] \in ProposalRecord
      BY DEF Typed, RecordsTyped
    <2>2. PICK i \in RetryInfo : i = [proposals[p].retryInfo EXCEPT !.nextRetry = Later(@)]
      BY <2>1, RetryInfos DEF ProposalRecord
    <2>3. LaterRecord(proposals[p]) = [proposals[p] EXCEPT !.retryInfo = i]
      BY <2>2 DEF LaterRecord
    <2>. QED
      BY <1>1, <2>1, <2>3 DEF ProposalRecord
  <1>3. ASSUME NEW t \in Tips
        PROVE  /\ tips'[t] \in TipRecord /\ SameTip(t) /\ tips'[t].stored = tips[t].stored
    <2>1. tips[t] \in TipRecord
      BY DEF Typed, RecordsTyped
    <2>2. PICK i \in RetryInfo : i = [tips[t].retryInfo EXCEPT !.nextRetry = Later(@)]
      BY <2>1, RetryInfos DEF TipRecord
    <2>3. LaterRecord(tips[t]) = [tips[t] EXCEPT !.retryInfo = i]
      BY <2>2 DEF LaterRecord
    <2>. QED
      BY <1>1, <2>1, <2>3 DEF TipRecord, SameTip
  <1>4. /\ proposals' \in [Proposals -> ProposalRecord] /\ tips' \in [Tips -> TipRecord]
    BY <1>1, <1>2, <1>3
  <1>5. RecordsTyped' /\ CallsTyped'
    BY <1>1, <1>4 DEF Typed, RecordsTyped, CallsTyped
  <1>6. GoesForward
    <2>1. \A p \in Proposals : Rank(p)' = Rank(p) /\ Rank(p) \in Int
      BY <1>2 DEF Rank
    <2>. QED
      BY <2>1 DEF GoesForward
  <1>7. QuietTips
    BY <1>1, <1>3 DEF QuietTips, QuietCall, SameTip, StaysAccepted, Typed, AcceptedStored
  <1>8. Kept
    BY <1>5, <1>6, <1>7, QuietStep
  <1>. QED
    BY <1>1, <1>8, LoopStays DEF Kept, Typed

-----------------------------------------------------------------------------
(* The theorems.                                                             *)

LEMMA InitTyped ==
  ASSUME Init
  PROVE  Typed /\ TipsOK
  <1>1. /\ proposals = [p \in Proposals |->
                          [NewProposal(CHOOSE o \in Orders : TRUE) EXCEPT !.stored = FALSE]]
        /\ purchases = {} /\ tipGroups = <<>> /\ planchetSets = 0 /\ signed = 0
        /\ tips = [t \in Tips |-> [NewTip EXCEPT !.stored = FALSE]]
        /\ activity = [a \in Activities |-> Idle] /\ acceptsLeft = Accepts
        /\ loop = [pc |-> "top", list |-> <<>>, timer |-> NoTimer]
    BY DEF Init, InitOffers
  <1>2. [NewProposal(CHOOSE o \in Orders : TRUE) EXCEPT !.stored = FALSE] \in ProposalRecord
    <2>1. PICK r \in ProposalRecord : r = NewProposal(CHOOSE o \in Orders : TRUE)
      BY OffersAssumption, NewRecords
    <2>2. [r EXCEPT !.stored = FALSE] \in ProposalRecord
      BY DEF ProposalRecord
    <2>. QED
      BY <2>1, <2>2
  <1>3. PICK r \in TipRecord : /\ r = [NewTip EXCEPT !.stored = FALSE]
                               /\ r.accepted = FALSE /\ r.pickedUp = FALSE /\ r.planchets = 0
    <2>1. PICK n \in TipRecord :
            n = NewTip /\ ~n.accepted /\ ~n.pickedUp /\ n.planchets = 0
      BY NewRecords DEF NewTip
    <2>2. [n EXCEPT !.stored = FALSE] \in TipRecord
      BY DEF TipRecord
    <2>3. /\ [n EXCEPT !.stored = FALSE].accepted = n.accepted
          /\ [n EXCEPT !.stored = FALSE].pickedUp = n.pickedUp
          /\ [n EXCEPT !.stored = FALSE].planchets = n.planchets
      BY DEF TipRecord
    <2>4. n.accepted = FALSE /\ n.pickedUp = FALSE
      BY <2>1 DEF TipRecord
    <2>. QED
      BY <2>1, <2>2, <2>3, <2>4
  <1>4. RecordsTyped
    <2>1. proposals \in [Proposals -> ProposalRecord] /\ tips \in [Tips -> TipRecord]
      BY <1>1, <1>2, <1>3
    <2>2. tipGroups \in Seq([tip: Tips, planchets: 1..MaxPlanchets])
      BY <1>1
    <2>3. planchetSets \in 0..MaxPlanchets /\ signed \in 0..MaxPlanchets /\ acceptsLeft \in 0..Accepts
      BY <1>1, OffersAssumption
    <2>4. purchases \subseteq Proposals
      BY <1>1
    <2>. QED
      BY <2>1, <2>2, <2>3, <2>4, Zenon DEF RecordsTyped
  <1>5. CallsTyped /\ \A a \in Activities : activity[a].pc = "idle"
    BY <1>1, IdleIsACall DEF CallsTyped
  <1>6. \A t \in Tips : ~tips[t].accepted /\ ~tips[t].pickedUp /\ tips[t].planchets = 0
    BY <1>1, <1>3
  <1>7. AcceptedStored
    BY <1>5, <1>6 DEF AcceptedStored, At
  <1>8. ListOK
    BY <1>1 DEF ListOK, LoopShaped
  <1>9. NothingYet /\ OneAccepted /\ AcceptOnce /\ SignedOK
    BY <1>1, <1>5, <1>6 DEF NothingYet, OneAccepted, AcceptOnce, SignedOK, At
  <1>10. CallsOK
    BY <1>5 DEF CallsOK, CallOK, TipPcs
  <1>11. GroupsOK /\ TipOnce
    BY <1>1 DEF GroupsOK, TipOnce
  <1>. QED
    BY <1>4, <1>5, <1>7, <1>8, <1>9, <1>10, <1>11 DEF Typed, TipsOK

\* What goes on in an activity leaves the loop alone.
LEMMA CallStepKeeps ==
  ASSUME Typed, NEW a \in Activities, CallProceeds(a) \/ CallFails(a)
  PROVE  Kept /\ ListOK'
  <1>1. Kept
    <2>1. CASE Proceeds(a)
      BY <2>1, ReadProposalKeeps, ContractArrivesKeeps, DownloadReturnsKeeps, ReadTipKeeps,
         MakePlanchetsKeeps, RereadTipKeeps, MerchantSignsKeeps, PickUpKeeps, TipFailsKeeps
         DEF Proceeds
    <2>2. CASE a \in Users /\ CallStep(a)
      BY <2>2, CreateProposalKeeps, RecordConfirmPayKeeps, AcceptTipKeeps DEF CallStep
    <2>3. CASE Fails(a)
      BY <2>3, DownloadFailsKeeps, PlanchetsFailKeeps DEF Fails
    <2>. QED
      BY <2>1, <2>2, <2>3 DEF CallProceeds, CallFails
  <1>2. UNCHANGED loop
    BY DEF CallProceeds, CallFails, loopVars
  <1>. QED
    BY <1>1, <1>2, LoopStays DEF Kept, Typed

LEMMA UserBeginsKeeps ==
  ASSUME Typed, NEW u \in Users, UserBegins(u)
  PROVE  Kept /\ ListOK'
  <1>1. Kept
    BY StartDownloadProposalKeeps, ConfirmPayKeeps, RefuseProposalKeeps, GetTipStatusKeeps,
       ReadToAcceptKeeps DEF UserBegins, PayStep, TipStep
  <1>2. UNCHANGED loop
    BY DEF UserBegins, loopVars
  <1>. QED
    BY <1>1, <1>2, LoopStays DEF Kept, Typed

LEMMA StepKeeps ==
  ASSUME Typed, [Next]_vars
  PROVE  Typed' /\ GoesForward /\ TipsKept
  <1>1. CASE UNCHANGED vars
    <2>1. UNCHANGED offersVars /\ UNCHANGED loop
      BY <1>1 DEF vars, loopVars
    <2>2. Kept
      BY <2>1, NothingHappens
    <2>. QED
      BY <2>1, <2>2, LoopStays DEF Kept, Typed
  <1>2. CASE Next
    <2>1. Kept /\ ListOK'
      <3>1. CASE LoopStep \/ PendingArrive \/ Tick
        BY <3>1, LoopAsksKeeps, TimerFiresKeeps, ProcessOneKeeps, OperationEndsKeeps,
           PendingArriveKeeps, TickKeeps DEF LoopStep
      <3>2. ASSUME NEW a \in Activities,
                   \/ CallProceeds(a) \/ CallFails(a)
                   \/ \E w \in Works : WorkEnds(a, w, WorkOutcome(w) \cup WorkSetback(w))
            PROVE  Kept /\ ListOK'
        BY <3>2, CallStepKeeps, WorkEndsKeeps
      <3>3. ASSUME NEW u \in Users,
                   \/ UserBegins(u) \/ PutWork(u) \/ ForceNow(u)
                   \/ \E w \in Works : BeginWork(u, w)
            PROVE  Kept /\ ListOK'
        BY <3>3, UserBeginsKeeps, PutWorkKeeps, ForceNowKeeps, BeginWorkKeeps
      <3>4. CASE HostAsks \/ RunUntilDone \/ Stop \/ Restart
        BY <3>4, HostKeeps, RestartKeeps
      <3>. QED
        BY <1>2, <3>1, <3>2, <3>3, <3>4 DEF Next
    <2>. QED
      BY <2>1 DEF Kept, Typed
  <1>. QED
    BY <1>1, <1>2

\* What the loop and the calls hold in their local variables is what they need there, however
\* they interleave and whenever the wallet is stopped or restarted.
THEOREM AlwaysTyped == Spec => []Typed
  <1>1. Init => Typed
    BY InitTyped
  <1>2. Typed /\ [Next]_vars => Typed'
    BY StepKeeps
  <1>. QED
    BY <1>1, <1>2, PTL DEF Spec

\* A contract that comes late does not undo what the user chose, and no proposal goes back, for any
\* number of orders, user interfaces, downloads and restarts (processDownloadProposalImpl).
THEOREM ChoicesStand == Spec => ChoiceStands
  <1>1. Typed /\ [Next]_vars => [\A p \in Proposals : Rank(p)' >= Rank(p)]_vars
    BY StepKeeps DEF GoesForward
  <1>. QED
    BY <1>1, AlwaysTyped, PTL DEF Spec, ChoiceStands

\* If acceptTip is called once, what is known of its tip is kept by all runs of processTip.
THEOREM TipsInOrder ==
  ASSUME Accepts <= 1
  PROVE  Spec => []TipsOK
  <1>1. Init => TipsOK
    BY InitTyped
  <1>2. Typed /\ TipsOK /\ [Next]_vars => TipsOK'
    BY StepKeeps DEF TipsKept
  <1>. QED
    BY <1>1, <1>2, AlwaysTyped, PTL DEF Spec

\* Then one withdrawal group is made of it, however many runs of processTip overlap, by that call,
\* the loop and runPending, and whatever fails (tip.ts, the transaction that sets pickedUp).
THEOREM PickedUpOnce ==
  ASSUME Accepts <= 1
  PROVE  Spec => []TipOnce
  <1>1. TipsOK => TipOnce
    BY DEF TipsOK
  <1>. QED
    BY <1>1, TipsInOrder, PTL

\* And the planchets that the merchant has signed are the stored ones (tip.ts, the mutation that
\* stores planchets).
THEOREM StoredIsSigned ==
  ASSUME Accepts <= 1
  PROVE  Spec => []SignedIsStored
  <1>1. TipsOK => SignedIsStored
    BY DEF TipsOK, SignedOK, SignedIsStored, OpenTips
  <1>. QED
    BY <1>1, TipsInOrder, PTL
=============================================================================
