----------------------------- MODULE RetryLoop -----------------------------
(***************************************************************************)
(* The loop that keeps a wallet going: runRetryLoopImpl of wallet.ts, which *)
(* reads the operations that are due (operations/pending.ts), runs them one *)
(* after the other, and sleeps when there are none, until the next retry    *)
(* time, for five seconds at most, or until the latch wakes it.             *)
(*                                                                          *)
(* Offers has what the loop and the user do to proposals and tips; what the *)
(* other modules describe (reserves, refreshes, withdrawals, recoups,       *)
(* purchases) is here a record of work: it has a retry time, and processing *)
(* it ends it, fails, or is to be repeated.  Time is counted in ticks;      *)
(* retry times and timers count down.                                       *)
(***************************************************************************)
EXTENDS Offers, SequencesExt, FiniteSetsExt

CONSTANTS
  Works,     \* records of other stores
  KindOf,    \* the store of each: "exchange", "reserve", "group" or "purchase"
  Cap,       \* five seconds, in ticks
  Scenes,    \* the kinds of records that a wallet may have: sets of "tip", "order", "work"
  Callers,   \* the user interfaces that call operations on each kind of records
  CanStop,   \* the host may call stop()
  MaxEvents  \* bound on the calls of getPendingOperations() and runPending(true) by
             \* the host, and on restarts, together

ASSUME LoopAssumption ==
  /\ IsFiniteSet(Works)
  /\ KindOf \in [Works -> {"exchange", "reserve", "group", "purchase"}]
  /\ Cap \in Nat \ {0} /\ Cap <= MaxBackoff
  /\ Scenes \subseteq SUBSET {"tip", "order", "work"}
  /\ Callers \in [{"tip", "order", "work"} -> SUBSET Users]
  /\ CanStop \in BOOLEAN
  /\ MaxEvents \in Nat

VARIABLES
  work,     \* the records of the other stores
  loop,     \* where the loop is, what it has still to run, its timer
  reading,  \* memoGetPending: the argument of the call that is under way, if any
  stopped,  \* Wallet.stopped, with the timers and the crypto workers
  waiter,   \* the promise of runUntilDone: "none", "waiting" or "resolved"
  scene,    \* which records this wallet has
  events    \* how many of these there were

loopVars == <<work, loop, reading, stopped, waiter, scene, events>>
vars == <<offersVars, loopVars>>

\* "Waiting": a reserve that is UNCONFIRMED, an exchange that is not up to date.
WorkRecord == [status: {"absent", "Idle", "Waiting", "Working"}, retryInfo: RetryInfo]
PendingOperationInfo == [type: {"exchange", "reserve", "group", "purchase", "ProposalChoice",
                                "ProposalDownload", "TipPickup"},
                         id: Works \cup Proposals \cup Tips, givesLifeness: BOOLEAN]
NoTimer == -1

Init ==
  /\ InitOffers
  /\ scene \in Scenes
  /\ work = [w \in Works |-> [status |-> "absent", retryInfo |-> InactiveRetryInfo]]
  /\ loop = [pc |-> "top", list |-> <<>>, timer |-> NoTimer]
  /\ reading = None
  /\ stopped = FALSE
  /\ waiter = "none"
  /\ events = 0

-----------------------------------------------------------------------------
(* operations/pending.ts *)

IsDue(r) == r.retryInfo.nextRetry = 0
Op(type, id, life) == [type |-> type, id |-> id, givesLifeness |-> life]

\* Each gatherer's operations; "all" is for onlyDue = FALSE.
GatherExchangePending(all) ==
  {Op("exchange", w, FALSE) : w \in {v \in Works :
     all /\ KindOf[v] = "exchange" /\ work[v].status = "Waiting"}}

GatherReservePending(all) ==
  LET active == {v \in Works : KindOf[v] = "reserve" /\ work[v].retryInfo.active} IN
  {Op("reserve", w, FALSE) : w \in {v \in active : all /\ work[v].status = "Waiting"}}
  \cup {Op("reserve", w, TRUE) :
          w \in {v \in active : work[v].status = "Working" /\ (all \/ IsDue(work[v]))}}

\* Refresh, withdrawal and recoup groups; payments and refund queries.
GatherWorkPending(all, kind) ==
  {Op(kind, w, TRUE) : w \in {v \in Works :
     /\ KindOf[v] = kind
     /\ work[v].status = "Working" /\ (all \/ IsDue(work[v]))}}

GatherProposalPending(all) ==
  {Op("ProposalChoice", p, FALSE) : p \in {q \in Proposals :
     all /\ proposals[q].stored /\ proposals[q].status = "PROPOSED"}}
  \cup {Op("ProposalDownload", p, TRUE) : p \in {q \in Proposals :
          StillDownloading(q) /\ (all \/ IsDue(proposals[q]))}}

OpenTips == {t \in Tips : tips[t].stored /\ ~tips[t].pickedUp}
GatherTipPending(all) ==
  {Op("TipPickup", t, TRUE) : t \in {s \in OpenTips :
     tips[s].accepted /\ (all \/ IsDue(tips[s]))}}

PendingOperations(all) ==
  SetToSeq(GatherExchangePending(all)) \o SetToSeq(GatherReservePending(all))
  \o SetToSeq(GatherWorkPending(all, "group")) \o SetToSeq(GatherProposalPending(all))
  \o SetToSeq(GatherTipPending(all)) \o SetToSeq(GatherWorkPending(all, "purchase"))

\* The records whose retry time the gatherers look at: a tip's, too, while the
\* user has not accepted it.
RetryTimes ==
  {work[w].retryInfo.nextRetry : w \in {v \in Works :
     /\ KindOf[v] # "exchange" /\ work[v].status = "Working"
     /\ KindOf[v] = "reserve" => work[v].retryInfo.active}}
  \cup {proposals[p].retryInfo.nextRetry : p \in {q \in Proposals : StillDownloading(q)}}
  \cup {tips[t].retryInfo.nextRetry : t \in OpenTips}

NextRetryDelay == Min({Never} \cup RetryTimes)

Liveness(ops) == {i \in DOMAIN ops : ops[i].givesLifeness}

-----------------------------------------------------------------------------
(* wallet.ts: the loop *)

\* A mutant: with nothing to wait for, the loop relies on the latch.
ReliesOnLatch(ops) == IF NextRetryDelay = Never THEN NoTimer ELSE NextRetryDelay

SleepingTime(ops) ==
  IF ops = <<>> \/ NextRetryDelay = Never THEN Cap ELSE Min({Cap, NextRetryDelay})

\* while (!this.stopped): the operations that are due are read, by a call of
\* getPendingOperations that may already be under way with another argument.
LoopAsks ==
  /\ loop.pc = "top"
  /\ \/ /\ ~stopped
        /\ loop' = [loop EXCEPT !.pc = "due"]
        /\ reading' = IF reading = None THEN "due" ELSE reading
     \/ /\ stopped
        /\ loop' = [loop EXCEPT !.pc = "exited"]
        /\ UNCHANGED reading
  /\ UNCHANGED <<offersVars, work, stopped, waiter, scene, events>>

HostAsks ==
  /\ events < MaxEvents
  /\ events' = events + 1
  /\ reading = None
  /\ reading' = "all"
  /\ UNCHANGED <<offersVars, work, loop, stopped, waiter, scene>>

\* The transaction of getPendingOperations ends; everyone who awaits it gets
\* the result.  The loop goes on to run what it got, asks for all operations,
\* or goes to sleep and says so, which may resolve runUntilDone.
PendingArrive ==
  /\ reading # None
  /\ LET ops == PendingOperations(reading = "all") IN
     \/ /\ loop.pc = "due" /\ ops # <<>>
        /\ loop' = [loop EXCEPT !.pc = "run", !.list = ops]
        /\ reading' = None
        /\ UNCHANGED waiter
     \/ /\ loop.pc = "due" /\ ops = <<>>
        /\ loop' = [loop EXCEPT !.pc = "all"]
        /\ reading' = "all"
        /\ UNCHANGED waiter
     \/ /\ loop.pc = "all"
        /\ loop' = [loop EXCEPT !.pc = "asleep",
                                !.timer = IF stopped THEN NoTimer ELSE SleepingTime(ops)]
        /\ reading' = None
        /\ waiter' = IF waiter = "waiting" /\ Liveness(ops) = {} THEN "resolved" ELSE waiter
     \/ /\ loop.pc \notin {"due", "all"}
        /\ reading' = None
        /\ UNCHANGED <<loop, waiter>>
  /\ UNCHANGED <<offersVars, work, stopped, scene, events>>

Woken(l) == IF l.pc = "asleep" THEN [l EXCEPT !.pc = "top", !.timer = NoTimer] ELSE l

TimerFires ==
  /\ loop.pc = "asleep" /\ loop.timer = 0
  /\ loop' = Woken(loop)
  /\ UNCHANGED <<offersVars, work, reading, stopped, waiter, scene, events>>

\* processOnePendingOperation: what is a choice of the user's needs no processing.
Begun(op) ==
  CASE op.type = "ProposalDownload" -> [pc |-> "download", proposal |-> op.id]
    [] op.type = "TipPickup" -> [pc |-> "tip", tip |-> op.id]
    [] op.type = "ProposalChoice" -> Idle
    [] OTHER -> [pc |-> "work", work |-> op.id]

ProcessOnePendingOperation ==
  /\ loop.pc = "run" /\ loop.list # <<>>
  /\ loop' = [loop EXCEPT !.pc = "running", !.list = Tail(loop.list)]
  /\ activity' = [activity EXCEPT ![Loop] = Begun(Head(loop.list))]
  /\ UNCHANGED <<proposals, purchases, tips, tipGroups, planchetSets, signed,
                 acceptsLeft, work, reading, stopped, waiter, scene, events>>

\* The operation has returned or thrown: the exception is caught, the others
\* on the list are run all the same.
OperationEnds ==
  /\ loop.pc = "running" /\ IsIdle(Loop)
  /\ loop' = [loop EXCEPT !.pc = IF loop.list = <<>> THEN "top" ELSE "run"]
  /\ UNCHANGED <<offersVars, work, reading, stopped, waiter, scene, events>>

\* What becomes of a record of work: it is finished, goes on to another status
\* with new retry information, or fails.
WorkOutcome(w) ==
  {[status |-> "Idle", retryInfo |-> InactiveRetryInfo]}
WorkSetback(w) ==
  {[work[w] EXCEPT !.retryInfo = UpdateRetryInfoTimeout(@)],
   [work[w] EXCEPT !.retryInfo = InitRetryInfo]}

\* There is nothing to do for a reserve that the user has not confirmed.
ToProcess(w) == work[w].status = (IF KindOf[w] = "exchange" THEN "Waiting" ELSE "Working")

WorkEnds(a, w, outcomes) ==
  /\ At(a, "work") /\ activity[a].work = w
  /\ \/ /\ ToProcess(w)
        /\ \E r \in outcomes : work' = [work EXCEPT ![w] = r]
     \/ ~ToProcess(w) /\ UNCHANGED work
  /\ Leave(a)
  /\ UNCHANGED <<proposals, purchases, tips, tipGroups, planchetSets, signed,
                 acceptsLeft, loop, reading, stopped, waiter, scene, events>>

-----------------------------------------------------------------------------
(* What the host does. *)

\* createReserve, confirmReserve, updateExchangeFromUrl, acceptWithdrawal: the
\* latch is triggered when the call has begun, before it has put anything.
BeginWork(u, w) ==
  /\ "work" \in scene /\ u \in Callers["work"]
  /\ IsIdle(u)
  /\ \/ work[w].status = "absent"
     \/ KindOf[w] = "reserve" /\ work[w].status = "Waiting"
  /\ activity' = [activity EXCEPT ![u] = [pc |-> "put", work |-> w]]
  /\ loop' = Woken(loop)
  /\ UNCHANGED <<proposals, purchases, tips, tipGroups, planchetSets, signed,
                 acceptsLeft, work, reading, stopped, waiter, scene, events>>

\* A reserve is unconfirmed until the user confirms it; an exchange is
\* updated by the call itself, the loop never updates one.
NewStatus(w) ==
  CASE work[w].status = "Waiting" -> {"Working"}
    [] work[w].status # "absent" -> {work[w].status}
    [] KindOf[w] = "exchange" -> {"Waiting"}
    [] KindOf[w] = "reserve" -> {"Waiting", "Working"}
    [] OTHER -> {"Working"}

PutWork(u) ==
  /\ At(u, "put")
  /\ LET w == activity[u].work IN
     /\ \E s \in NewStatus(w) :
          work' = IF s = work[w].status THEN work
                  ELSE [work EXCEPT ![w] = [status |-> s, retryInfo |-> InitRetryInfo]]
     /\ IF KindOf[w] = "exchange" THEN GoOn(u, "work") ELSE Leave(u)
  /\ UNCHANGED <<proposals, purchases, tips, tipGroups, planchetSets, signed,
                 acceptsLeft, loop, reading, stopped, waiter, scene, events>>

\* runPending(true), one of the operations it runs: its retry time is reset.
ForceNow(u) ==
  /\ IsIdle(u)
  /\ events < MaxEvents
  /\ events' = events + 1
  /\ \/ \E t \in {s \in OpenTips : tips[s].accepted} :
          /\ tips' = [tips EXCEPT ![t].retryInfo = InitRetryInfo]
          /\ u \in Callers["tip"]
          /\ activity' = [activity EXCEPT ![u] = [pc |-> "tip", tip |-> t]]
          /\ UNCHANGED proposals
     \/ \E p \in {q \in Proposals : StillDownloading(q)} :
          /\ proposals' = [proposals EXCEPT ![p].retryInfo = InitRetryInfo]
          /\ u \in Callers["order"]
          /\ activity' = [activity EXCEPT ![u] = [pc |-> "download", proposal |-> p]]
          /\ UNCHANGED tips
  /\ UNCHANGED <<purchases, tipGroups, planchetSets, signed, acceptsLeft,
                 work, loop, reading, stopped, waiter, scene>>

RunUntilDone ==
  /\ waiter = "none"
  /\ waiter' = "waiting"
  /\ UNCHANGED <<offersVars, work, loop, reading, stopped, scene, events>>

\* stop(): the timers are cleared; the latch is not triggered.
Stop ==
  /\ CanStop /\ ~stopped
  /\ stopped' = TRUE
  /\ loop' = [loop EXCEPT !.timer = NoTimer]
  /\ UNCHANGED <<offersVars, work, reading, waiter, scene, events>>

\* The host application is restarted: what was not stored is forgotten.
Restart ==
  /\ events < MaxEvents
  /\ events' = events + 1
  /\ activity' = [a \in Activities |-> Idle]
  /\ loop' = [pc |-> "top", list |-> <<>>, timer |-> NoTimer]
  /\ reading' = None
  /\ stopped' = FALSE
  /\ waiter' = "none"
  /\ UNCHANGED <<proposals, purchases, tips, tipGroups, planchetSets, signed, acceptsLeft,
                 work, scene>>

\* A retry time or a timer one tick later.
Later(n) == IF n \in {Never, NoTimer, 0} THEN n ELSE n - 1
LaterRecord(r) == [r EXCEPT !.retryInfo.nextRetry = Later(@)]

\* Time passes; not while the database is read, nor past a timer that fires.
\* The retry times that the gatherers do not look at stand still.
Tick ==
  /\ loop.pc \notin {"top", "due", "all"}
  /\ ~(loop.pc = "asleep" /\ loop.timer = 0)
  /\ proposals' = [p \in Proposals |-> IF StillDownloading(p) THEN LaterRecord(proposals[p])
                                      ELSE proposals[p]]
  /\ tips' = [t \in Tips |-> IF t \in OpenTips THEN LaterRecord(tips[t]) ELSE tips[t]]
  /\ work' = [w \in Works |-> LaterRecord(work[w])]
  /\ loop' = [loop EXCEPT !.timer = Later(@)]
  /\ UNCHANGED <<purchases, tipGroups, activity, planchetSets, signed,
                 acceptsLeft, reading, stopped, waiter, scene, events>>

-----------------------------------------------------------------------------

\* The workers for cryptography are terminated by stop(): a call that awaits
\* one goes no further.
NeedsCrypto(a) == activity[a].pc \in {"make", "create", "record", "contract"}

CallProceeds(a) ==
  /\ stopped => ~NeedsCrypto(a)
  /\ Proceeds(a) \/ (a \in Users /\ CallStep(a))
  /\ UNCHANGED loopVars
CallFails(a) == Fails(a) /\ UNCHANGED loopVars
UserBegins(u) ==
  /\ \/ "order" \in scene /\ u \in Callers["order"] /\ PayStep(u)
     \/ "tip" \in scene /\ u \in Callers["tip"] /\ TipStep(u)
  /\ UNCHANGED loopVars

LoopStep == LoopAsks \/ TimerFires \/ ProcessOnePendingOperation \/ OperationEnds

Next ==
  \/ LoopStep \/ PendingArrive \/ Tick
  \/ \E a \in Activities :
       \/ CallProceeds(a) \/ CallFails(a)
       \/ \E w \in Works : WorkEnds(a, w, WorkOutcome(w) \cup WorkSetback(w))
  \/ \E u \in Users :
       \/ UserBegins(u) \/ PutWork(u) \/ ForceNow(u)
       \/ \E w \in Works : BeginWork(u, w)
  \/ HostAsks \/ RunUntilDone \/ Stop \/ Restart

Spec == Init /\ [][Next]_vars

\* An exchange or merchant answers the loop with success.
LoopSucceeds ==
  \/ /\ \/ ContractArrives(Loop) \/ MakePlanchets(Loop)
        \/ MerchantSigns(Loop) /\ activity'[Loop].pc = "store"
     /\ UNCHANGED loopVars
  \/ \E w \in Works : WorkEnds(Loop, w, WorkOutcome(w))

\* The event loop runs what can run, time passes, and an exchange or merchant
\* that the loop asks again and again answers some time.  Nothing is assumed of
\* the calls of user interfaces: they may wait for ever.
Fairness ==
  /\ WF_vars(LoopStep) /\ WF_vars(PendingArrive) /\ WF_vars(Tick)
  /\ WF_vars(CallProceeds(Loop))
  /\ SF_vars(LoopSucceeds)

FairSpec == Spec /\ Fairness

-----------------------------------------------------------------------------
(* Properties. *)

TypeOK ==
  /\ OffersTypeOK
  /\ work \in [Works -> WorkRecord]
  /\ loop.pc \in {"top", "due", "all", "run", "running", "asleep", "exited"}
  /\ loop.list \in Seq(PendingOperationInfo)
  /\ loop.timer \in NoTimer..Cap
  /\ reading \in {None, "due", "all"}
  /\ stopped \in BOOLEAN
  /\ waiter \in {"none", "waiting", "resolved"}
  /\ scene \in Scenes
  /\ events \in 0..MaxEvents

\* However many runs of processTip overlap, and whenever the wallet stops, one
\* withdrawal group is made of a tip (tip.ts, the transaction that sets pickedUp).
TipOnce == \A i, j \in DOMAIN tipGroups : tipGroups[i].tip = tipGroups[j].tip => i = j

\* The planchets that the merchant has had signed are the ones stored with the
\* tip, as long as it is not picked up: otherwise the tip is lost, since the
\* merchant gives it to no others (tip.ts, the mutation that stores planchets).
SignedIsStored ==
  \A t \in OpenTips : tips[t].accepted /\ signed # 0 => tips[t].planchets = signed

\* Two calls of preparePayForUri for one order make one proposal, and so one
\* nonce (pay.ts, the transaction of startDownloadProposal).
OneProposalPerOrder ==
  \A p, q \in Proposals : \A o \in Orders : IsOf(o, p) /\ IsOf(o, q) => p = q

\* How far a proposal has got.
Rank(p) == IF ~proposals[p].stored THEN 0
           ELSE CASE proposals[p].status = "DOWNLOADING" -> 1
                  [] proposals[p].status = "PROPOSED" -> 2
                  [] OTHER -> 3
\* A contract that arrives late, by a second download or after a restart, does
\* not undo what the user chose meanwhile (pay.ts, the test of proposalStatus
\* inside the transaction of processDownloadProposalImpl).
ChoiceStands == [][\A p \in Proposals : Rank(p)' >= Rank(p)]_vars

\* A tip that the user accepted is picked up in the end, by that call or by the
\* loop (tip.ts, pending.ts: gatherTipPending).
AcceptedIsPickedUp ==
  \A t \in Tips : tips[t].accepted ~> tips[t].pickedUp \/ stopped

\* What is to be done is done in the end, whatever fails meanwhile, though the
\* latch wakes the loop before there is anything for it to see (wallet.ts:
\* runRetryLoopImpl).
WorkIsDone ==
  \A w \in Works : work[w].status = "Working" ~> work[w].status = "Idle" \/ stopped

NothingGivesLiveness ==
  LET ops == PendingOperations(TRUE) IN \A i \in DOMAIN ops : ~ops[i].givesLifeness
\* runUntilDone returns when nothing is left but what waits for the user
\* (wallet.ts: givesLifeness).
QuietIsNoticed ==
  <>[](NothingGivesLiveness /\ ~stopped) => (waiter = "waiting" ~> waiter # "waiting")

(* What the code does not do: the configurations in the README show it. *)

\* A loop that was stopped ends.
StoppedEnds == stopped ~> loop.pc = "exited" \/ ~stopped

\* The loop runs an operation only when its retry time has come.
BackoffIsKept ==
  [][ProcessOnePendingOperation =>
       \A w \in Works : Head(loop.list).id = w => IsDue(work[w])]_vars

\* When there is nothing to run the loop sleeps for some time.
SleepsWhenIdle == [][loop.pc = "all" /\ loop'.pc = "asleep" => loop'.timer # 0]_vars

\* What the user refused is not paid.
RefusedIsNotPaid ==
  [][\A p \in Proposals : proposals[p].stored /\ proposals[p].status = "REFUSED"
        => p \notin purchases' \ purchases]_vars

\* A user interface that asked for a contract gets one when it has come.
PreparedIsStored ==
  \A u \in Users : At(u, "returned") => proposals[activity[u].proposal].stored

\* A resource is bought once.
BoughtOnce ==
  \A p, q \in purchases : Resource[proposals[p].order] = Resource[proposals[q].order]
                          => p = q
=============================================================================
