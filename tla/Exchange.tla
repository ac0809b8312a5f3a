------------------------------ MODULE Exchange ------------------------------
(***************************************************************************)
(* The wallet's record of an exchange (operations/exchanges.ts) and of its  *)
(* denominations, with everything that follows when the exchange revokes    *)
(* some of them (module Recoup).                                            *)
(*                                                                          *)
(* An update fetches the keys, the wire fees and the terms of service, one  *)
(* after the other; the record's updateStatus says which comes next.  Any   *)
(* number of updates may run beside each other: nothing memoises them.  A   *)
(* withdrawal (getVerifiedWithdrawDenomList in operations/withdraw.ts)      *)
(* verifies the denominations it selects and stores the verdicts.           *)
(*                                                                          *)
(* The exchange may revoke denominations, or come back with another master  *)
(* key.  The amount of a withdrawal is large enough to take every usable    *)
(* denomination; whether a denomination's signature is good does not depend *)
(* on the key.                                                              *)
(***************************************************************************)
EXTENDS Recoup

CONSTANTS
  Updaters,    \* the calls of updateExchangeFromUrl that may overlap
  Selectors,   \* the withdrawals that choose denominations
  BadDenoms,   \* the denominations whose signature is not the exchange's
  MaxKeys      \* bound on the master keys the exchange has had

ASSUME ExchangeAssumption == BadDenoms \subseteq Denoms /\ MaxKeys \in Nat \ {0}

VARIABLES
  exchange,   \* Stores.exchanges: updateStatus and what has been fetched
  updater,    \* the activities in updateExchangeFromUrl, with their locals
  selector,   \* the activities in getVerifiedWithdrawDenomList
  world       \* the exchange itself: its master key and what it has revoked

ExchangeRecord ==
  [status: {"absent", "FetchKeys", "FetchWire", "FetchTerms", "FinalizeUpdate",
            "Finished"},
   key: 0..MaxKeys, wire: 0..MaxKeys, terms: BOOLEAN, accepted: BOOLEAN]

exchangeVars == <<exchange, updater, selector, world>>
vars == <<exchangeVars, recoupVars>>

NoExchange == [status |-> "absent", key |-> 0, wire |-> 0, terms |-> FALSE,
               accepted |-> FALSE]
NewExchange == [NoExchange EXCEPT !.status = "FetchKeys"]
NoAnswer == [key |-> 0, offered |-> {}, recoup |-> {}]
IdleUpdater == [pc |-> "idle", step |-> "keys", details |-> 0, answer |-> NoAnswer]

Init ==
  /\ InitRecoup
  /\ exchange = NoExchange
  /\ updater = [u \in Updaters |-> IdleUpdater]
  /\ selector = [s \in Selectors |->
       [pc |-> "idle", copy |-> [d \in Denoms |-> UnknownDenom], selected |-> {}]]
  /\ world = [key |-> 1, revoked |-> {}]

\* Activity u goes on at f; an exception, or the last step, ends it.
Goto(u, f) == updater' = [updater EXCEPT ![u] = [IdleUpdater EXCEPT !.pc = "do", !.step = f]]
At(u, pc, step) == updater[u].pc = pc /\ updater[u].step = step
Leave(u) == updater' = [updater EXCEPT ![u] = IdleUpdater]
Put(e) == exchange' = e

-----------------------------------------------------------------------------
(* updateExchangeFromUrlImpl *)

\* The record is looked up first.
UpdateExchange(u) ==
  /\ updater[u].pc = "idle"
  /\ updater' = [updater EXCEPT
       ![u].pc = IF exchange.status = "absent" THEN "add" ELSE "reset"]
  /\ UNCHANGED <<exchange, selector, world, recoupVars>>

\* A record that was not there is put, whatever is there by now.
AddExchange(u) ==
  /\ updater[u].pc = "add"
  /\ Put(NewExchange) /\ Goto(u, "keys")
  /\ UNCHANGED <<selector, world, recoupVars>>

\* A record that was there starts over when the caller forces it.
RestartUpdate(u) ==
  /\ updater[u].pc = "reset"
  /\ \E forceNow \in BOOLEAN :
       Put(IF forceNow THEN [exchange EXCEPT !.status = "FetchKeys"] ELSE exchange)
  /\ Goto(u, "keys")
  /\ UNCHANGED <<selector, world, recoupVars>>

\* Each step of the update is skipped unless it is its turn.
Turn == [keys |-> "FetchKeys", wire |-> "FetchWire", terms |-> "FetchTerms"]
After == [keys |-> "wire", wire |-> "terms"]
Steps == DOMAIN After

\* The guard of a step and the sending of its request; the wire fees will be
\* validated with the master key that is in the record now.
Ask(u, step) ==
  /\ At(u, "do", step)
  /\ IF exchange.status = Turn[step]
     THEN updater' = [updater EXCEPT ![u].pc = "asked",
                        ![u].details = IF step = "wire" THEN exchange.key ELSE 0]
     ELSE Goto(u, After[step])
  /\ UNCHANGED <<exchange, selector, world, recoupVars>>

\* The exchange answers with what is true of it now.
Answers(u, step) ==
  /\ At(u, "asked", step)
  /\ updater' = [updater EXCEPT
       ![u].pc = "answered",
       ![u].answer = CASE step = "keys" -> [key |-> world.key, recoup |-> world.revoked,
                                            offered |-> Denoms \ world.revoked]
                       [] step = "wire" -> [NoAnswer EXCEPT !.key = world.key]]
  /\ UNCHANGED <<exchange, selector, world, recoupVars>>

\* The request fails, or its answer is malformed, has no denominations, no
\* version, or one that is not compatible.
UpdateFails(u) ==
  /\ updater[u].pc = "asked" \/ At(u, "do", "terms")
  /\ Leave(u)
  /\ UNCHANGED <<exchange, selector, world, recoupVars>>

\* Mutant: a record that is there already is put anew.
PutAnew(answer) ==
  [d \in Denoms |-> IF d \in answer.offered THEN [UnknownDenom EXCEPT !.known = TRUE]
                    ELSE denom[d]]
KnownAfter(answer) ==
  [d \in Denoms |-> IF d \in answer.offered THEN [denom[d] EXCEPT !.known = TRUE]
                    ELSE denom[d]]

\* The transaction of updateExchangeWithKeys, which does not look at the status.
StoreKeys(u) ==
  LET answer == updater[u].answer
  IN /\ At(u, "answered", "keys")
     /\ Put([exchange EXCEPT !.status = "FetchWire", !.key = answer.key])
     /\ HandleRecoupList(answer.recoup, KnownAfter(answer))
     /\ Goto(u, "wire")
     /\ UNCHANGED <<selector, world, reserve, refreshed, activities, balance,
                    paidBack, crashes>>

StillTurn(step) == exchange.status = Turn[step]

\* The signatures are verified; then the transaction looks at the status again.
StoreWire(u) ==
  /\ At(u, "answered", "wire")
  /\ IF updater[u].answer.key # updater[u].details
     THEN Leave(u) /\ UNCHANGED exchange
     ELSE /\ Put(IF StillTurn("wire")
                 THEN [exchange EXCEPT !.status = "FetchTerms", !.wire = updater[u].details]
                 ELSE exchange)
          /\ Goto(u, "terms")
  /\ UNCHANGED <<selector, world, recoupVars>>

\* The text of the terms is fetched between two looks at the status; it says
\* nothing about the record, so both are one.
FetchTerms(u) ==
  /\ At(u, "do", "terms")
  /\ Put(IF StillTurn("terms")
         THEN [exchange EXCEPT !.status = "FinalizeUpdate", !.terms = TRUE]
         ELSE exchange)
  /\ Goto(u, "finalize")
  /\ UNCHANGED <<selector, world, recoupVars>>

FinalizeUpdate(u) ==
  /\ At(u, "do", "finalize")
  /\ Put(IF exchange.status = "FinalizeUpdate"
         THEN [exchange EXCEPT !.status = "Finished"] ELSE exchange)
  /\ Leave(u)
  /\ UNCHANGED <<selector, world, recoupVars>>

\* The user accepts the terms that are shown.
AcceptTerms ==
  /\ exchange.terms
  /\ Put([exchange EXCEPT !.accepted = TRUE])
  /\ UNCHANGED <<updater, selector, world, recoupVars>>

-----------------------------------------------------------------------------
(* getVerifiedWithdrawDenomList *)

\* getPossibleDenoms; the records that are read here are used until the end.
PossibleDenoms(s) ==
  /\ selector[s].pc = "idle" /\ exchange.key # 0
  /\ selector' = [selector EXCEPT ![s] =
       [pc |-> "verify", copy |-> denom,
        selected |-> {d \in Denoms : /\ denom[d].known /\ ~denom[d].isRevoked
                                     /\ denom[d].status # "VerifiedBad"}]]
  /\ UNCHANGED <<exchange, updater, world, recoupVars>>

Unverified(s) == {d \in selector[s].selected : selector[s].copy[d].status = "Unverified"}

\* One denomination's signature is checked, and the record that was read puts
\* its verdict into the database.
Verdict(d) == IF d \in BadDenoms THEN "VerifiedBad" ELSE "VerifiedGood"
VerifyDenom(s, d) ==
  /\ selector[s].pc = "verify" /\ d \in Unverified(s)
  /\ selector' = [selector EXCEPT ![s].copy[d].status = Verdict(d)]
  /\ denom' = [denom EXCEPT ![d] = [selector[s].copy[d] EXCEPT !.status = Verdict(d)]]
  /\ UNCHANGED <<exchange, updater, world, recoupDb, activities, balance, paidBack,
                 crashes>>

\* The list is taken from the same records until none of it is unverified; the
\* bad ones stay in it.
ReturnDenoms(s) ==
  /\ selector[s].pc = "verify" /\ Unverified(s) = {}
  /\ selector' = [selector EXCEPT ![s].pc = "done"]
  /\ UNCHANGED <<exchange, updater, world, recoupVars>>

-----------------------------------------------------------------------------
\* The exchange revokes denominations, or comes back with a new master key.
ExchangeChanges ==
  \E key \in world.key..MaxKeys, more \in SUBSET (Denoms \ world.revoked) :
    /\ world' = [key |-> key, revoked |-> world.revoked \cup more]
    /\ UNCHANGED <<exchange, updater, selector, recoupVars>>

Restart ==
  /\ crashes < MaxCrashes
  /\ Forget
  /\ updater' = [u \in Updaters |-> IdleUpdater]
  /\ selector' = [s \in Selectors |-> [selector[s] EXCEPT !.pc = "done", !.selected = {}]]
  /\ UNCHANGED <<exchange, world, recoupDb, denom, balance, paidBack>>

Update(u) == \/ UpdateExchange(u) \/ AddExchange(u) \/ RestartUpdate(u)
             \/ \E step \in Steps : Ask(u, step) \/ Answers(u, step)
             \/ UpdateFails(u)
             \/ StoreKeys(u) \/ StoreWire(u) \/ FetchTerms(u) \/ FinalizeUpdate(u)

Next ==
  \/ \E u \in Updaters : Update(u)
  \/ \E s \in Selectors : \/ PossibleDenoms(s) \/ ReturnDenoms(s)
                          \/ \E d \in Denoms : VerifyDenom(s, d)
  \/ AcceptTerms \/ ExchangeChanges \/ Restart
  \/ RecoupStep /\ UNCHANGED exchangeVars

Spec == Init /\ [][Next]_vars

-----------------------------------------------------------------------------
(* Properties *)

TypeOK ==
  /\ RecoupTypeOK
  /\ exchange \in ExchangeRecord
  /\ world \in [key: 1..MaxKeys, revoked: SUBSET Denoms]

\* An exchange whose update is finished has keys, wire fees and terms, and each
\* step before has what the one before it fetched, however many updates run
\* beside each other (the status that the transactions of updateExchangeWith...
\* look at again).
StatusHasItsData ==
  /\ exchange.status \in {"FetchWire", "FetchTerms", "FinalizeUpdate", "Finished"} =>
       exchange.key > 0
  /\ exchange.status \in {"FetchTerms", "FinalizeUpdate", "Finished"} => exchange.wire > 0
  /\ exchange.status \in {"FinalizeUpdate", "Finished"} => exchange.terms

\* What a withdrawal has verified stays verified: the verdict on each denomination
\* it returns is in the database, whatever updates and other withdrawals put
\* there (updateExchangeWithKeys leaves a record alone that it finds).
VerdictsAreStored ==
  \A s \in Selectors : selector[s].pc = "done" =>
    \A d \in selector[s].selected : denom[d].known /\ denom[d].status = Verdict(d)

\* A coin's value is taken for recoup once, even when the record of a withdrawal
\* has wiped the mark of its denomination, which is then revoked again
\* (createRecoupGroup takes the amount in the transaction that marks it).  A coin
\* to which others are paid back gets a value again.
TakenBy(n, c) == c \in group[n].coins /\ group[n].old[c] > 0
GetsNothingBack(c) == ~WasRefreshed(c)
TakenOnce ==
  \A c \in Coins : GetsNothingBack(c) =>
    \A m, n \in DOMAIN group : TakenBy(m, c) /\ TakenBy(n, c) => m = n

\* getVerifiedWithdrawDenomList returns denominations with a good signature only
\* (it does not: those it has found to be bad stay in the list).
OnlyGoodSelected ==
  \A s \in Selectors : selector[s].pc = "done" => selector[s].selected \cap BadDenoms = {}

\* A denomination that is marked as revoked stays marked (it does not: a
\* withdrawal puts back the record that it read before).
RevokedStays ==
  [][\A d \in Denoms : denom[d].isRevoked => denom'[d].isRevoked]_vars

\* Every coin of a revoked denomination is in a recoup group (not one that comes
\* into the wallet after the denomination was marked).
RevokedIsRecouped ==
  \A c \in Coins : Present(c) /\ denom[DenomOf[c]].isRevoked =>
    \E n \in DOMAIN group : c \in group[n].coins

\* The wire fees of a finished update were validated with the master key on
\* record (not when another update has stored another key meanwhile).
WireIsForKey == exchange.status = "Finished" => exchange.wire = exchange.key
=============================================================================
