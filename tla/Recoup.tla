------------------------------- MODULE Recoup -------------------------------
(***************************************************************************)
(* What the wallet does when an exchange revokes denominations              *)
(* (operations/recoup.ts): the transaction that stores the exchange's keys  *)
(* puts the coins of the revoked denominations into a recoup group and      *)
(* takes their amounts off them; each coin's recoup then asks the exchange  *)
(* to pay back.  What a withdrawn coin was worth goes back to its reserve,  *)
(* which is queried again (operations/reserves.ts); what a refreshed coin   *)
(* was worth goes back to the coin it was refreshed from, which is          *)
(* refreshed again when the whole group is done.  A coin from a tip cannot  *)
(* be recouped.                                                             *)
(*                                                                          *)
(* This module has the state and the steps of recoup; the transaction that  *)
(* creates the groups is part of module Exchange, which uses it through     *)
(* HandleRecoupList.  There is one reserve.  The requests of one recoup are *)
(* handled by the exchange when it likes, and their answers may be lost.    *)
(***************************************************************************)
EXTENDS Integers, Sequences, SequencesExt, FiniteSets, Sums

CONSTANTS
  Coins,         \* every coin that can come into being
  Initial,       \* the coins that are in the wallet at the start
  Amount,        \* what each coin is worth when it comes into the wallet
  Denoms,        \* the exchange's denominations
  DenomOf,       \* the denomination of each coin
  Source,        \* coinSource.type: "Tip", "Withdraw" or "Refresh"
  Old,           \* the coin that each refreshed coin comes from
  Attempts,      \* the calls of processRecoupGroup that may overlap for one group
  ScopeChecked,  \* the host's IndexedDB refuses stores outside a transaction's scope
  MaxCrashes     \* bound on the number of restarts

ASSUME RecoupAssumption ==
  /\ IsFiniteSet(Coins) /\ Initial \subseteq Coins
  /\ Amount \in [Coins -> Nat]
  /\ DenomOf \in [Coins -> Denoms]
  /\ Source \in [Coins -> {"Tip", "Withdraw", "Refresh"}]
  /\ \A c \in Coins : Source[c] = "Refresh" => Old[c] \in Initial
  /\ Attempts \subseteq Nat \ {0}
  /\ ScopeChecked \in BOOLEAN
  /\ MaxCrashes \in Nat

VARIABLES
  coin,      \* Stores.coins: status and currentAmount
  denom,     \* Stores.denominations: known, isRevoked, status
  group,     \* Stores.recoupGroups, in the order of their creation
  memo,      \* memoProcessRecoup: the call that is under way for each coin's group
  run,       \* the activities in processRecoup, by coin and call
  reserve,   \* Stores.reserves: the status, retryInfo.active and what was seen of recoups
  query,     \* the query of the reserve that is under way, and its answer
  forcing,   \* calls of forceQueryReserve that have not got to the database
  refreshed, \* the refresh groups that finished recoups have made
  balance,   \* what each coin is worth at the exchange
  paidBack,  \* what the exchange has paid back to the reserve
  crashes    \* how often the wallet was restarted

CoinRecord == [status: {"absent", "Fresh", "Dormant"}, amount: Nat]
DenominationRecord == [known: BOOLEAN, isRevoked: BOOLEAN,
                       status: {"Unverified", "VerifiedGood", "VerifiedBad"}]
ReserveRecord == [status: {"QUERYING_STATUS", "WITHDRAWING", "DORMANT"},
                  active: BOOLEAN, seen: Nat]
RecoupGroupRecord(coins) ==
  [coins: {coins}, finished: SUBSET coins, done: BOOLEAN, old: [coins -> Nat],
   schedule: Seq(Coins)]

recoupDb == <<coin, group, reserve, refreshed>>
activities == <<memo, run, query, forcing>>
recoupVars == <<recoupDb, activities, denom, balance, paidBack, crashes>>

UnknownDenom == [known |-> FALSE, isRevoked |-> FALSE, status |-> "Unverified"]
Present(c) == coin[c].status # "absent"
\* The group that holds what the coin was worth; a coin may be in another one,
\* where it is finished from the start.
GroupOf(c) == CHOOSE n \in DOMAIN group :
                c \in group[n].coins /\ group[n].old[c] > 0
Valuable(n) == {c \in group[n].coins : group[n].old[c] > 0}
Asleep(r) == [r EXCEPT !.status = "DORMANT", !.active = FALSE]

\* A coin that was refreshed is never fresh, though a little may be left on it.
WasRefreshed(c) == \E b \in Coins : Source[b] = "Refresh" /\ Old[b] = c

InitRecoup ==
  /\ coin = [c \in Coins |->
       IF c \notin Initial THEN [status |-> "absent", amount |-> 0]
       ELSE [status |-> IF Amount[c] = 0 \/ WasRefreshed(c) THEN "Dormant" ELSE "Fresh",
             amount |-> Amount[c]]]
  /\ denom = [d \in Denoms |-> [UnknownDenom EXCEPT
                !.known = \E c \in Initial : DenomOf[c] = d]]
  /\ group = <<>>
  /\ memo = [c \in Coins |-> 0]
  /\ run = [c \in Coins |-> [i \in Attempts |-> "idle"]]
  /\ reserve = [status |-> "DORMANT", active |-> FALSE, seen |-> 0]
  /\ query = [pc |-> "idle", answer |-> 0]
  /\ forcing = 0
  /\ refreshed = <<>>
  /\ balance = [c \in Coins |-> IF c \in Initial THEN Amount[c] ELSE 0]
  /\ paidBack = 0
  /\ crashes = 0

-----------------------------------------------------------------------------
(* The transaction that stores new keys (exchanges.ts, 205-282) *)

\* Marks coin c as finished, and the group when it was the last one.
PutGroupAsFinished(g, c) ==
  IF g.done THEN g
  ELSE LET finished == g.finished \cup {c}
       IN [g EXCEPT !.finished = finished, !.done = (finished = g.coins)]

\* The same call makes a refresh group, if coins are scheduled for it.
MakesRefreshGroup(g, c) ==
  ~g.done /\ PutGroupAsFinished(g, c).done /\ g.schedule # <<>>

Worthless(cs) == {c \in cs : coin[c].amount = 0}
\* Mutant: the coins keep their amounts.
KeepsAmounts(cs) ==
  /\ group' = Append(group, [coins |-> cs, finished |-> Worthless(cs),
                             done |-> (Worthless(cs) = cs),
                             old |-> [c \in cs |-> coin[c].amount],
                             schedule |-> <<>>])
  /\ UNCHANGED coin
CreateRecoupGroup(cs) ==
  /\ group' = Append(group, [coins |-> cs, finished |-> Worthless(cs),
                             done |-> (Worthless(cs) = cs),
                             old |-> [c \in cs |-> coin[c].amount],
                             schedule |-> <<>>])
  /\ coin' = [c \in Coins |-> IF c \in cs THEN [coin[c] EXCEPT !.amount = 0]
                              ELSE coin[c]]

NewlyRevoked(list, known) ==
  {d \in list : known[d].known /\ ~known[d].isRevoked}

\* The recoup list of an answer, over the denominations that are known by now.
HandleRecoupList(list, known) ==
  LET revoked == NewlyRevoked(list, known)
      affected == {c \in Coins : Present(c) /\ DenomOf[c] \in revoked}
  IN /\ denom' = [d \in Denoms |-> IF d \in revoked
                                   THEN [known[d] EXCEPT !.isRevoked = TRUE]
                                   ELSE known[d]]
     /\ IF affected = {} THEN UNCHANGED <<coin, group>>
                         ELSE CreateRecoupGroup(affected)

-----------------------------------------------------------------------------
(* processRecoupGroup and processRecoup *)

\* The retry loop, or a caller of Wallet.processPending, starts a group: one
\* activity for each coin that is not finished.
StartGroup(n, i) ==
  LET todo == group[n].coins \ group[n].finished
  IN /\ ~group[n].done
     /\ \A c \in Valuable(n) : memo[c] = 0 /\ run[c][i] = "idle"
     /\ run' = [c \in Coins |-> IF c \in todo THEN [run[c] EXCEPT ![i] = "called"]
                                ELSE run[c]]
     /\ memo' = [c \in Coins |-> IF c \in todo THEN i ELSE memo[c]]
     /\ UNCHANGED <<recoupDb, denom, query, forcing, balance, paidBack, crashes>>

Fellows(c) == Valuable(GroupOf(c))
\* Promise.all waits for every coin's promise, but rejects with the first that
\* fails; the others go on, and the memo is free for another call.
Return(c, i) == /\ run' = [run EXCEPT ![c][i] = "idle"]
                /\ memo' = [d \in Coins |->
                     IF /\ d \in Fellows(c) /\ memo[d] = i
                        /\ \A e \in Fellows(c) \ {c} : run[e][i] = "idle"
                     THEN 0 ELSE memo[d]]
\* Mutant: the memo is kept when the call has failed.
KeepsMemo(c, i) == run' = [run EXCEPT ![c][i] = "idle"] /\ UNCHANGED memo
Reject(c, i) == /\ run' = [run EXCEPT ![c][i] = "idle"]
                /\ memo' = [d \in Coins |-> IF d \in Fellows(c) /\ memo[d] = i
                                            THEN 0 ELSE memo[d]]

\* The exchange pays back what the coin is worth, once.
ExchangePaysBack(c, i) ==
  /\ run[c][i] = "called" /\ Source[c] # "Tip"
  /\ run' = [run EXCEPT ![c][i] = "answered"]
  /\ balance' = [d \in Coins |->
       CASE d = c -> 0
         [] d # c /\ Source[c] = "Refresh" /\ d = Old[c] -> balance[d] + balance[c]
         [] OTHER -> balance[d]]
  /\ paidBack' = IF Source[c] = "Withdraw" THEN paidBack + balance[c] ELSE paidBack
  /\ UNCHANGED <<recoupDb, denom, memo, query, forcing, crashes>>

\* The request fails, or its answer is lost.
RecoupFails(c, i) ==
  /\ run[c][i] \in {"called", "answered"} /\ Source[c] # "Tip"
  /\ Reject(c, i)
  /\ UNCHANGED <<recoupDb, denom, query, forcing, balance, paidBack, crashes>>

\* The part of the transactions that marks the coin, with schedule scheduled.
\* It makes the refresh group in the same transaction; where the host checks
\* the scope, only recoupRefreshCoin's transaction may do that.
MayFinish(c) == LET g == group[GroupOf(c)]
                IN ~MakesRefreshGroup(g, c) \/ Source[c] = "Refresh" \/ ~ScopeChecked
FinishCoin(c, schedule) ==
  LET n == GroupOf(c)
      g == [group[n] EXCEPT !.schedule = schedule]
  IN /\ group' = [group EXCEPT ![n] = PutGroupAsFinished(g, c)]
     /\ refreshed' = IF MakesRefreshGroup(g, c)
                     THEN Append(refreshed, [by |-> n, coins |-> schedule])
                     ELSE refreshed
Schedule(c) == group[GroupOf(c)].schedule

\* Mutant: nobody looks whether the coin is finished.
NeverDone(c) == FALSE
AlreadyDone(c) == c \in group[GroupOf(c)].finished

\* recoupTipCoin: the coin is left as it is.
RecoupTipCoin(c, i) ==
  /\ run[c][i] = "called" /\ Source[c] = "Tip"
  /\ IF AlreadyDone(c)
     THEN Return(c, i) /\ UNCHANGED <<group, refreshed>>
     ELSE IF MayFinish(c)
          THEN Return(c, i) /\ FinishCoin(c, Schedule(c))
          ELSE Reject(c, i) /\ UNCHANGED <<group, refreshed>>
  /\ UNCHANGED <<coin, reserve, denom, query, forcing, balance, paidBack, crashes>>

\* recoupWithdrawCoin, after the answer; forceQueryReserve is not awaited.
RecoupWithdrawCoin(c, i) ==
  /\ run[c][i] = "answered" /\ Source[c] = "Withdraw"
  /\ IF AlreadyDone(c)
     THEN /\ Return(c, i) /\ forcing' = forcing + 1
          /\ UNCHANGED <<coin, reserve, group, refreshed>>
     ELSE IF MayFinish(c)
          THEN /\ Return(c, i) /\ forcing' = forcing + 1
               /\ coin' = [coin EXCEPT ![c] = [status |-> "Dormant", amount |-> 0]]
               /\ reserve' = [reserve EXCEPT !.status = "QUERYING_STATUS"]
               /\ FinishCoin(c, Schedule(c))
          ELSE Reject(c, i) /\ UNCHANGED <<coin, reserve, group, refreshed, forcing>>
  /\ UNCHANGED <<denom, query, balance, paidBack, crashes>>

\* recoupRefreshCoin, after the answer.
RecoupRefreshCoin(c, i) ==
  /\ run[c][i] = "answered" /\ Source[c] = "Refresh"
  /\ Return(c, i)
  /\ IF AlreadyDone(c)
     THEN UNCHANGED <<coin, group, refreshed>>
     ELSE /\ coin' = [coin EXCEPT ![c].status = "Dormant",
                                  ![Old[c]].amount = @ + group[GroupOf(c)].old[c]]
          /\ FinishCoin(c, Append(Schedule(c), Old[c]))
  /\ UNCHANGED <<reserve, denom, query, forcing, balance, paidBack, crashes>>

-----------------------------------------------------------------------------
(* The reserve that is paid back to (operations/reserves.ts) *)

\* forceQueryReserve: its transaction, and a call of processReserve, which is
\* memoised: a query that is under way is joined.
ForceQueryReserve ==
  /\ forcing > 0
  /\ forcing' = forcing - 1
  /\ reserve' = [reserve EXCEPT !.status = "QUERYING_STATUS", !.active = TRUE]
  /\ query' = IF query.pc = "idle" THEN [query EXCEPT !.pc = "asked"] ELSE query
  /\ UNCHANGED <<coin, group, refreshed, memo, run, denom, balance, paidBack, crashes>>

\* The retry loop takes a reserve whose retryInfo is active.
LoopProcessesReserve ==
  /\ reserve.active /\ query.pc = "idle"
  /\ query' = [query EXCEPT !.pc = CASE reserve.status = "QUERYING_STATUS" -> "asked"
                                     [] reserve.status = "WITHDRAWING" -> "deplete"]
  /\ UNCHANGED <<recoupDb, memo, run, forcing, denom, balance, paidBack, crashes>>

ExchangeReports ==
  /\ query.pc = "asked"
  /\ query' = [pc |-> "answered", answer |-> paidBack]
  /\ UNCHANGED <<recoupDb, memo, run, forcing, denom, balance, paidBack, crashes>>

QueryFails ==
  /\ query.pc \in {"asked", "answered"}
  /\ query' = [query EXCEPT !.pc = "idle"]
  /\ UNCHANGED <<recoupDb, memo, run, forcing, denom, balance, paidBack, crashes>>

\* updateReserve: news moves the reserve on, no news puts it to sleep.
UpdateReserve ==
  /\ query.pc = "answered" /\ reserve.status = "QUERYING_STATUS"
  /\ IF query.answer > reserve.seen
     THEN /\ reserve' = [status |-> "WITHDRAWING", active |-> TRUE,
                         seen |-> query.answer]
          /\ query' = [query EXCEPT !.pc = "deplete"]
     ELSE /\ reserve' = Asleep(reserve)
          /\ query' = [query EXCEPT !.pc = "idle"]
  /\ UNCHANGED <<coin, group, refreshed, memo, run, forcing, denom, balance,
                 paidBack, crashes>>

\* depleteReserve: what was seen is withdrawn, unless the reserve is queried again.
DepleteReserve ==
  /\ query.pc = "deplete"
  /\ query' = [query EXCEPT !.pc = "idle"]
  /\ reserve' = IF reserve.status = "WITHDRAWING" THEN Asleep(reserve) ELSE reserve
  /\ UNCHANGED <<coin, group, refreshed, memo, run, forcing, denom, balance,
                 paidBack, crashes>>

-----------------------------------------------------------------------------
\* A coin that was being withdrawn or refreshed comes into the wallet.
CoinArrives(c) ==
  /\ ~Present(c)
  /\ coin' = [coin EXCEPT ![c] = [status |-> "Fresh", amount |-> Amount[c]]]
  /\ balance' = [balance EXCEPT ![c] = Amount[c]]
  /\ UNCHANGED <<group, reserve, refreshed, activities, denom, paidBack, crashes>>

\* Every activity is forgotten.
Forget == /\ memo' = [c \in Coins |-> 0]
          /\ run' = [c \in Coins |-> [i \in Attempts |-> "idle"]]
          /\ query' = [query EXCEPT !.pc = "idle"]
          /\ forcing' = 0
          /\ crashes' = crashes + 1

RecoupCoin(c, i) == RecoupTipCoin(c, i) \/ RecoupWithdrawCoin(c, i) \/ RecoupRefreshCoin(c, i)
QueryStep == \/ ForceQueryReserve \/ LoopProcessesReserve \/ ExchangeReports
             \/ QueryFails \/ UpdateReserve \/ DepleteReserve

RecoupStep ==
  \/ \E n \in DOMAIN group, i \in Attempts : StartGroup(n, i)
  \/ \E c \in Coins, i \in Attempts :
       ExchangePaysBack(c, i) \/ RecoupFails(c, i) \/ RecoupCoin(c, i)
  \/ QueryStep
  \/ \E c \in Coins : CoinArrives(c)

\* By itself this module takes any recoup list to arrive at any time.
KeysArrive ==
  /\ \E list \in SUBSET Denoms : HandleRecoupList(list, denom)
  /\ UNCHANGED <<reserve, refreshed, activities, balance, paidBack, crashes>>

Crash ==
  /\ crashes < MaxCrashes
  /\ Forget
  /\ UNCHANGED <<recoupDb, denom, balance, paidBack>>

RecoupNext == RecoupStep \/ KeysArrive \/ Crash

RecoupSpec == InitRecoup /\ [][RecoupNext]_recoupVars

\* The retry loop starts a group that is not finished again and again, and the
\* exchange answers a request that is repeated often enough; a host that runs
\* gets on with what it has begun.
Fairness ==
  /\ \A n \in 1..Cardinality(Denoms) :
       WF_recoupVars(\E i \in Attempts : n \in DOMAIN group /\ StartGroup(n, i))
  /\ \A c \in Coins : /\ SF_recoupVars(\E i \in Attempts : ExchangePaysBack(c, i))
                      /\ SF_recoupVars(\E i \in Attempts : RecoupCoin(c, i))

FairSpec == RecoupSpec /\ Fairness

-----------------------------------------------------------------------------
(* Properties *)

RecoupTypeOK ==
  /\ coin \in [Coins -> CoinRecord]
  /\ denom \in [Denoms -> DenominationRecord]
  /\ reserve \in ReserveRecord
  /\ \A n \in DOMAIN group :
       /\ group[n] \in RecoupGroupRecord(group[n].coins) /\ group[n].coins \subseteq Coins
       /\ group[n].done <=> group[n].finished = group[n].coins
  /\ memo \in [Coins -> Attempts \cup {0}]
  /\ run \in [Coins -> [Attempts -> {"idle", "called", "answered"}]]
  /\ query \in [pc: {"idle", "asked", "answered", "deplete"}, answer: Nat]
  /\ forcing \in Nat

Open(n, c) == c \in group[n].coins \ group[n].finished
\* What was taken off coin c when its group was made, and not paid back yet.
Outstanding(c) ==
  IF \E n \in DOMAIN group : Open(n, c) /\ balance[c] > 0
  THEN group[GroupOf(c)].old[c] ELSE 0
\* What the exchange has paid back to c for the coins refreshed from it, and the
\* wallet has not recorded yet.
Unrecorded(c) ==
  LET paid == {b \in Coins : /\ Source[b] = "Refresh" /\ Old[b] = c /\ balance[b] = 0
                             /\ \E n \in DOMAIN group : Open(n, b)}
  IN Sum([b \in paid |-> group[GroupOf(b)].old[b]], paid)

\* Nothing is to be paid back to a coin whose own value is, or was, in a group.
\* createRecoupGroup does not see to that: a coin that was not refreshed entirely may be
\* revoked beside what came from it, and then ValueIsTracked does not hold.
RecoupedGetNothing ==
  \A b \in Coins : Source[b] = "Refresh" /\ (\E n \in DOMAIN group : Open(n, b)) =>
    \A m \in DOMAIN group : Old[b] \notin Valuable(m)

\* What the exchange holds for a coin is what the wallet has on record for it:
\* as its amount, in the recoup group that took it, or as the answer of a recoup
\* that is repeated until it is recorded.  Requests that are repeated, lost
\* answers and restarts count nothing twice and forget nothing (the
\* transactions of recoup.ts and exchanges.ts).  What a tip was worth is given up.
ValueIsTracked ==
  \A c \in {d \in Coins : Source[d] # "Tip"} :
    balance[c] = coin[c].amount + Outstanding(c) + Unrecorded(c)

\* A coin is marked as recouped only when the exchange has paid back what it was
\* worth (recoupWithdrawCoin, recoupRefreshCoin), and what is in a recoup group
\* cannot be spent.
FinishedIsPaidBack ==
  \A n \in DOMAIN group : \A c \in group[n].coins :
    /\ c \in group[n].finished /\ group[n].old[c] > 0 /\ Source[c] # "Tip" => balance[c] = 0
    /\ coin[c].status = "Fresh" => coin[c].amount = 0

\* A finished group has made one refresh group, with each coin that something
\* was paid back to; a group that is not finished has made none
\* (putGroupAsFinished).
OneRefreshAfterRecoup ==
  \A n \in DOMAIN group :
    LET made == SelectSeq(refreshed, LAMBDA r : r.by = n)
        refreshedCoins == {c \in group[n].finished :
                             Source[c] = "Refresh" /\ group[n].old[c] > 0}
    IN /\ ToSet(group[n].schedule) = {Old[c] : c \in refreshedCoins}
       /\ Len(group[n].schedule) = Cardinality(refreshedCoins)
       /\ made = IF group[n].done /\ refreshedCoins # {}
                 THEN <<[by |-> n, coins |-> group[n].schedule]>> ELSE <<>>

\* When the recoups of the withdrawn coins are recorded, the reserve they were
\* paid back to does not go to sleep before the wallet has seen all of it
\* (recoupWithdrawCoin's QUERYING_STATUS and updateReserve).
AsleepHasSeenAll ==
  /\ reserve.status = "DORMANT" /\ query.pc = "idle" /\ forcing = 0
  /\ \A n \in DOMAIN group, c \in Coins : Open(n, c) => Source[c] # "Withdraw"
  => reserve.seen = paidBack

\* Every recoup group is finished some day (processRecoupGroup, again and again).
RecoupsFinish ==
  \A n \in 1..Cardinality(Denoms) :
    n \in DOMAIN group ~> n \in DOMAIN group /\ group[n].done
=============================================================================
