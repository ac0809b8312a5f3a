------------------------------- MODULE Offers -------------------------------
(***************************************************************************)
(* What a merchant offers and the user takes or leaves: proposals, that is  *)
(* contracts to be paid (operations/pay.ts up to confirmPay), and tips      *)
(* (operations/tip.ts).  Both are records with a retry time, which the      *)
(* user's calls and the retry loop process at the same time: neither        *)
(* processDownloadProposal nor processTip is memoised, so the same record   *)
(* can be processed by several activities.                                  *)
(*                                                                          *)
(* An activity's place in the code is its pc; each step ends where the code *)
(* awaits the database or the network.  Retry times are kept relative to    *)
(* the clock, in ticks; the module RetryLoop has the clock and the loop.    *)
(***************************************************************************)
EXTENDS Integers, Sequences, FiniteSets

CONSTANTS
  Users,        \* calls by which a user interface starts operations
  Loop,         \* the activity of the retry loop
  Proposals,    \* proposalIds that can be generated
  Orders,       \* merchantBaseUrl and orderId
  Resource,     \* the fulfillment URL that each order's contract has
  Tips,         \* tipIds that can be generated, all for one tip of the merchant
  Accepts,      \* how often the user interface calls acceptTip
  MaxBackoff,   \* bound on the backoff, in ticks
  MaxPlanchets  \* how many sets of planchets can be made

ASSUME OffersAssumption ==
  /\ Loop \notin Users
  /\ IsFiniteSet(Proposals) /\ IsFiniteSet(Tips) /\ Orders # {}
  /\ Resource \in [Orders -> STRING]
  /\ {Accepts, MaxBackoff, MaxPlanchets} \subseteq Nat
  /\ MaxBackoff >= 1

VARIABLES
  proposals,    \* Stores.proposals
  purchases,    \* Stores.purchases: for each proposal, whether it was paid
  tips,         \* Stores.tips
  tipGroups,    \* Stores.withdrawalGroups with a tip as their source: tip and planchets
  activity,     \* what each activity does
  planchetSets, \* how many sets of planchets were made
  signed,       \* the planchets the merchant has had signed
  acceptsLeft   \* calls of acceptTip that are still to come

offersVars == <<proposals, purchases, tips, tipGroups, activity, planchetSets,
                signed, acceptsLeft>>

Activities == Users \cup {Loop}
None == "none"
\* A retry time that never comes: Number.MAX_SAFE_INTEGER.
Never == MaxBackoff + 1

RetryInfo == [nextRetry: 0..Never, retryCounter: 0..MaxBackoff, active: BOOLEAN]
InitRetryInfo == [nextRetry |-> 1, retryCounter |-> 0, active |-> TRUE]
InactiveRetryInfo == [nextRetry |-> Never, retryCounter |-> 0, active |-> FALSE]

\* A mutant: the next retry never comes.
GivesUp(r) == InactiveRetryInfo
\* The backoff grows with the counter; the code has no bound, the model has.
UpdateRetryInfoTimeout(r) ==
  LET n == IF r.retryCounter < MaxBackoff THEN r.retryCounter + 1 ELSE MaxBackoff
  IN [r EXCEPT !.retryCounter = n, !.nextRetry = n]

ProposalStatus == {"DOWNLOADING", "PROPOSED", "ACCEPTED", "REFUSED", "REPURCHASE"}
ProposalRecord ==
  [stored: BOOLEAN, order: Orders, status: ProposalStatus,
   repurchase: Proposals \cup {None}, retryInfo: RetryInfo]
TipRecord ==
  [stored: BOOLEAN, accepted: BOOLEAN, pickedUp: BOOLEAN,
   planchets: 0..MaxPlanchets, retryInfo: RetryInfo]

\* The record of a tip that has just been put: no planchets, not accepted.
NewTip == [stored |-> TRUE, accepted |-> FALSE, pickedUp |-> FALSE, planchets |-> 0,
           retryInfo |-> InitRetryInfo]
NewProposal(o) == [stored |-> TRUE, order |-> o, status |-> "DOWNLOADING",
                   repurchase |-> None, retryInfo |-> InitRetryInfo]

Idle == [pc |-> "idle"]

InitOffers ==
  /\ proposals = [p \in Proposals |->
                    [NewProposal(CHOOSE o \in Orders : TRUE) EXCEPT !.stored = FALSE]]
  /\ purchases = {}
  /\ tips = [t \in Tips |-> [NewTip EXCEPT !.stored = FALSE]]
  /\ tipGroups = <<>>
  /\ activity = [a \in Activities |-> Idle]
  /\ planchetSets = 0
  /\ signed = 0
  /\ acceptsLeft = Accepts

IsIdle(a) == activity[a].pc = "idle"
At(a, pc) == activity[a].pc = pc
\* The activity a goes on at pc with what it has in its local variables.
GoOn(a, pc) == activity' = [activity EXCEPT ![a].pc = pc]
Leave(a) == activity' = [activity EXCEPT ![a] = Idle]

-----------------------------------------------------------------------------
(* Proposals. *)

IsOf(o, p) == proposals[p].stored /\ proposals[p].order = o
\* The index urlAndOrderIdIndex.
Existing(o) == {p \in Proposals : IsOf(o, p)}

\* startDownloadProposal looks the order up: the download of a proposal that
\* is there already goes on, otherwise a key pair is made for a new one.
StartDownloadProposal(u, o) ==
  /\ IsIdle(u)
  /\ \/ \E p \in Existing(o) :
          activity' = [activity EXCEPT ![u] = [pc |-> "download", proposal |-> p]]
     \/ /\ Existing(o) = {}
        /\ activity' = [activity EXCEPT ![u] = [pc |-> "create", order |-> o]]
  /\ UNCHANGED <<proposals, purchases, tips, tipGroups, planchetSets, signed, acceptsLeft>>

\* Whether the transaction puts the new record: not when another call has
\* created one for the order while the key pair was made.
CreatedConcurrently(o) == Existing(o) # {}

InUse == {p \in Proposals : \E a \in Activities :
            "proposal" \in DOMAIN activity[a] /\ activity[a].proposal = p}

\* The new record is put; its id is returned to the caller in both cases.
CreateProposal(u) ==
  /\ At(u, "create")
  /\ \E q \in Proposals : ~proposals[q].stored /\ q \notin InUse
  /\ LET o == activity[u].order
         p == CHOOSE q \in Proposals : ~proposals[q].stored /\ q \notin InUse
     IN /\ proposals' = IF CreatedConcurrently(o) THEN proposals
                        ELSE [proposals EXCEPT ![p] = NewProposal(o)]
        /\ activity' = [activity EXCEPT ![u] = [pc |-> "download", proposal |-> p]]
  /\ UNCHANGED <<purchases, tips, tipGroups, planchetSets, signed, acceptsLeft>>

\* processDownloadProposalImpl: nothing to do unless DOWNLOADING.
ReadProposal(a) ==
  /\ At(a, "download")
  /\ LET p == activity[a].proposal IN
     GoOn(a, IF proposals[p].stored /\ proposals[p].status = "DOWNLOADING"
             THEN "contract" ELSE "returned")
  /\ UNCHANGED <<proposals, purchases, tips, tipGroups, planchetSets, signed, acceptsLeft>>

\* The purchase with the same fulfillment URL: the index fulfillmentUrlIndex.
DifferentPurchases(o) == {q \in purchases : Resource[proposals[q].order] = Resource[o]}
HasUrl(o) == Resource[o] # "none"

StillDownloading(p) == proposals[p].stored /\ proposals[p].status = "DOWNLOADING"

\* What the transaction stores of a contract that has come.
Downloaded(p) ==
  IF HasUrl(proposals[p].order) /\ DifferentPurchases(proposals[p].order) # {}
  THEN {[proposals[p] EXCEPT !.status = "REPURCHASE", !.repurchase = q] :
          q \in DifferentPurchases(proposals[p].order)}
  ELSE {[proposals[p] EXCEPT !.status = "PROPOSED"]}

\* A mutant: the status is not tested in the transaction.
AlwaysTakesContract(p) == proposals[p].stored
\* Only the first contract is stored, and only while the user cannot choose yet.
TakesContract(p) == StillDownloading(p)

ContractArrives(a) ==
  /\ At(a, "contract")
  /\ LET p == activity[a].proposal IN
     \/ /\ TakesContract(p)
        /\ \E r \in Downloaded(p) : proposals' = [proposals EXCEPT ![p] = r]
     \/ ~TakesContract(p) /\ UNCHANGED proposals
  /\ GoOn(a, "returned")
  /\ UNCHANGED <<purchases, tips, tipGroups, planchetSets, signed, acceptsLeft>>

\* The merchant does not answer, or not with a contract: incrementProposalRetry,
\* and the exception goes to the caller.
DownloadFails(a) ==
  /\ At(a, "contract")
  /\ LET p == activity[a].proposal IN
     proposals' = IF proposals[p].stored
                  THEN [proposals EXCEPT ![p].retryInfo = UpdateRetryInfoTimeout(@)]
                  ELSE proposals
  /\ Leave(a)
  /\ UNCHANGED <<purchases, tips, tipGroups, planchetSets, signed, acceptsLeft>>

\* The call is over; its caller has the id of the proposal.
DownloadReturns(a) ==
  /\ At(a, "returned")
  /\ Leave(a)
  /\ UNCHANGED <<proposals, purchases, tips, tipGroups, planchetSets, signed, acceptsLeft>>

\* What preparePayForUri offers to its caller: a contract that is not paid, not
\* one that another purchase stands for.  It throws while there is no contract.
ToChoose(p) ==
  /\ proposals[p].stored /\ proposals[p].status \notin {"DOWNLOADING", "REPURCHASE"}
  /\ p \notin purchases

\* confirmPay reads the proposal, whatever its status is, and awaits the
\* selection of coins and the signatures.
ConfirmPay(u, p) ==
  /\ IsIdle(u)
  /\ ToChoose(p)
  /\ activity' = [activity EXCEPT ![u] = [pc |-> "record", proposal |-> p]]
  /\ UNCHANGED <<proposals, purchases, tips, tipGroups, planchetSets, signed, acceptsLeft>>

\* (Module Spending has the coins that the transaction spends.)
RecordConfirmPay(u) ==
  /\ At(u, "record")
  /\ LET p == activity[u].proposal IN
     /\ proposals' = [proposals EXCEPT ![p].status = "ACCEPTED",
                                       ![p].retryInfo = InactiveRetryInfo]
     /\ purchases' = purchases \cup {p}
  /\ Leave(u)
  /\ UNCHANGED <<tips, tipGroups, planchetSets, signed, acceptsLeft>>

RefuseProposal(u, p) ==
  /\ IsIdle(u)
  /\ proposals[p].stored /\ proposals[p].status = "PROPOSED"
  /\ proposals' = [proposals EXCEPT ![p].status = "REFUSED"]
  /\ UNCHANGED <<purchases, tips, tipGroups, activity, planchetSets, signed, acceptsLeft>>

-----------------------------------------------------------------------------
(* Tips. *)

\* getTipStatus looks the tip up by a pair that is no key of the store, does
\* not find it, and puts a record of its own for it.
GetTipStatus(u) ==
  /\ IsIdle(u)
  /\ \E t \in {s \in Tips : ~tips[s].stored} : tips' = [tips EXCEPT ![t] = NewTip]
  /\ UNCHANGED <<proposals, purchases, tipGroups, activity, planchetSets, signed, acceptsLeft>>

\* acceptTip reads the record and, in a transaction of its own, puts what it
\* read back with the acceptance.
ReadToAccept(u, t) ==
  /\ IsIdle(u) /\ acceptsLeft > 0 /\ tips[t].stored
  /\ activity' = [activity EXCEPT ![u] = [pc |-> "accept", tip |-> t, record |-> tips[t]]]
  /\ acceptsLeft' = acceptsLeft - 1
  /\ UNCHANGED <<proposals, purchases, tips, tipGroups, planchetSets, signed>>

AcceptTip(u) ==
  /\ At(u, "accept")
  /\ tips' = [tips EXCEPT ![activity[u].tip] = [activity[u].record EXCEPT !.accepted = TRUE]]
  /\ activity' = [activity EXCEPT ![u] = [pc |-> "tip", tip |-> activity[u].tip]]
  /\ UNCHANGED <<proposals, purchases, tipGroups, planchetSets, signed, acceptsLeft>>

\* processTipImpl reads the record; planchets are made only when it has none.
ReadTip(a) ==
  /\ At(a, "tip")
  /\ LET t == tips[activity[a].tip] IN
     \/ t.pickedUp /\ Leave(a)
     \/ ~t.pickedUp /\ GoOn(a, IF t.planchets = 0 THEN "make" ELSE "reread")
  /\ UNCHANGED <<proposals, purchases, tips, tipGroups, planchetSets, signed, acceptsLeft>>

\* A mutant: each run stores its own planchets.
ReplacesPlanchets(t) == FALSE
\* The planchets of another run that were stored meanwhile stay.
KeepsPlanchets(t) == t.planchets # 0

\* The exchange is updated, denominations are selected, planchets are made
\* and stored.
MakePlanchets(a) ==
  /\ At(a, "make")
  /\ planchetSets < MaxPlanchets
  /\ planchetSets' = planchetSets + 1
  /\ LET t == activity[a].tip IN
     tips' = IF KeepsPlanchets(tips[t]) THEN tips
             ELSE [tips EXCEPT ![t].planchets = planchetSets + 1]
  /\ GoOn(a, "reread")
  /\ UNCHANGED <<proposals, purchases, tipGroups, signed, acceptsLeft>>

\* What is sent is what is stored, not what this run made.
RereadTip(a) ==
  /\ At(a, "reread")
  /\ LET t == activity[a].tip IN
     activity' = [activity EXCEPT ![a] =
       IF tips[t].planchets = 0 THEN [pc |-> "failed", tip |-> t]
       ELSE [pc |-> "post", tip |-> t, planchets |-> tips[t].planchets]]
  /\ UNCHANGED <<proposals, purchases, tips, tipGroups, planchetSets, signed, acceptsLeft>>

\* The merchant gives a tip once: to the first planchets, and to them again
\* when they are sent again.  Its answer may be lost.
MerchantSigns(a) ==
  /\ At(a, "post")
  /\ signed' = IF signed = 0 THEN activity[a].planchets ELSE signed
  /\ \/ signed' = activity[a].planchets /\ GoOn(a, "store")
     \/ GoOn(a, "failed")
  /\ UNCHANGED <<proposals, purchases, tips, tipGroups, planchetSets, acceptsLeft>>

TipPickedUp(t) == [tips[t] EXCEPT !.pickedUp = TRUE, !.retryInfo = InactiveRetryInfo]

\* A mutant: pickedUp is not tested in the transaction.
NeverPickedUp(t) == FALSE
\* Another run has been there first.
PickedUp(t) == tips[t].pickedUp

\* The tip is picked up and its withdrawal group is made, in one transaction.
PickUp(a) ==
  /\ At(a, "store")
  /\ LET t == activity[a].tip IN
     \/ /\ ~PickedUp(t)
        /\ tips' = [tips EXCEPT ![t] = TipPickedUp(t)]
        /\ tipGroups' = Append(tipGroups, [tip |-> t, planchets |-> activity[a].planchets])
     \/ PickedUp(t) /\ UNCHANGED <<tips, tipGroups>>
  /\ Leave(a)
  /\ UNCHANGED <<proposals, purchases, planchetSets, signed, acceptsLeft>>

\* A run fails before its request is sent: the exchange cannot be updated.
PlanchetsFail(a) ==
  /\ At(a, "make")
  /\ GoOn(a, "failed")
  /\ UNCHANGED <<proposals, purchases, tips, tipGroups, planchetSets, signed, acceptsLeft>>

\* incrementTipRetry; the exception goes to the caller.
TipFails(a) ==
  /\ At(a, "failed")
  /\ tips' = [tips EXCEPT ![activity[a].tip].retryInfo = UpdateRetryInfoTimeout(@)]
  /\ Leave(a)
  /\ UNCHANGED <<proposals, purchases, tipGroups, planchetSets, signed, acceptsLeft>>

-----------------------------------------------------------------------------

\* What becomes of a call that has begun, and what may go wrong with it.
Proceeds(a) ==
  \/ ReadProposal(a) \/ ContractArrives(a) \/ DownloadReturns(a)
  \/ ReadTip(a) \/ MakePlanchets(a) \/ RereadTip(a) \/ MerchantSigns(a) \/ PickUp(a)
  \/ TipFails(a)
Fails(a) == DownloadFails(a) \/ PlanchetsFail(a)
CallStep(u) == CreateProposal(u) \/ RecordConfirmPay(u) \/ AcceptTip(u)

\* What the user begins.
PayStep(u) ==
  \/ \E o \in Orders : StartDownloadProposal(u, o)
  \/ \E p \in Proposals : ConfirmPay(u, p) \/ RefuseProposal(u, p)
TipStep(u) == GetTipStatus(u) \/ \E t \in Tips : ReadToAccept(u, t)

OffersTypeOK ==
  /\ proposals \in [Proposals -> ProposalRecord]
  /\ purchases \subseteq Proposals
  /\ tips \in [Tips -> TipRecord]
  /\ tipGroups \in Seq([tip: Tips, planchets: 1..MaxPlanchets])
  /\ DOMAIN activity = Activities
  /\ planchetSets \in 0..MaxPlanchets
  /\ signed \in 0..MaxPlanchets
  /\ acceptsLeft \in 0..Accepts
=============================================================================
