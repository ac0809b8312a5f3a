--------------------------- MODULE DatabaseProofs ---------------------------
(***************************************************************************)
(* Transactions over IndexedDB, for every number of connections and        *)
(* transactions and whatever their functions do.  The promise of           *)
(* runWithTransaction tells what became of the transaction (OutcomeOK).    *)
(* An index has the entries that the records call for, if each record      *)
(* keeps its index key (IndexesOK).  One connection has the database, and  *)
(* keeps it until its transactions are over (HoldersOK).  Nobody waits for *)
(* what will never come: who waits is in the queue, and there is a queue   *)
(* only while somebody goes on (WaitersOK).  And the database implements   *)
(* SerialStore: what a transaction has done explains how the records came  *)
(* about (Replaying, with OwnersOK).                                       *)
(***************************************************************************)
EXTENDS Database, SumTheorems

-----------------------------------------------------------------------------
(* What a transaction tells                                                *)

LEMMA NoTxIsOK == ToldOK(NoTx)
  BY DEF ToldOK, NoTx

\* The fields that ToldOK speaks about; all others may change.
SameStory(tx, new) ==
  /\ DOMAIN new = DOMAIN tx
  /\ new.state = tx.state /\ new.mode = tx.mode /\ new.promise = tx.promise
  /\ new.stored = tx.stored /\ new.aborting = tx.aborting
  /\ new.requests = tx.requests \/ tx.state = "active"

LEMMA SameStoryIsOK ==
  ASSUME NEW tx, NEW new, ToldOK(tx), SameStory(tx, new)
  PROVE  ToldOK(new)
  BY DEF ToldOK, SameStory

\* A step in which every transaction keeps its story.
LEMMA SameStories ==
  ASSUME OutcomeOK, DOMAIN txs' = Txs, \A t \in Txs : SameStory(txs[t], txs'[t]),
         waiting' \in Seq(Txs), dumping' = dumping
  PROVE  OutcomeOK'
  <1>1. \A t \in Txs : ToldOK(txs'[t])
    BY SameStoryIsOK DEF OutcomeOK
  <1>2. \A t \in Txs : txs'[t].state = txs[t].state /\ txs'[t].stored = txs[t].stored
    BY DEF SameStory
  <1>. QED
    BY <1>1, <1>2 DEF OutcomeOK

\* The same when one of them gets a new story, which is not that of a commit.
LEMMA OneNewStory ==
  ASSUME OutcomeOK, NEW t \in Txs, DOMAIN txs' = Txs, waiting' \in Seq(Txs),
         \A u \in Txs \ {t} : SameStory(txs[u], txs'[u]),
         ToldOK(txs'[t]), txs'[t].state # "committing",
         dumping' = dumping, dumping # t
  PROVE  OutcomeOK'
  <1>1. \A u \in Txs : ToldOK(txs'[u])
    BY SameStoryIsOK DEF OutcomeOK
  <1>2. \A u \in Txs \ {t} : txs'[u].state = txs[u].state /\ txs'[u].stored = txs[u].stored
    BY DEF SameStory
  <1>. QED
    BY <1>1, <1>2 DEF OutcomeOK

LEMMA SameAsBefore ==
  ASSUME NEW tx
  PROVE  SameStory(tx, tx)
  BY DEF SameStory

\* Whoever gets the database next only begins.
LEMMA FreedKeepsStories ==
  ASSUME NEW level, NEW ts, DOMAIN ts = Txs, NEW queue \in Seq(Txs),
         \A t \in Txs : DOMAIN ts[t] = DOMAIN NoTx
  PROVE  LET freed == Freed(level, ts, queue)
         IN /\ DOMAIN freed.txs = Txs /\ freed.waiting \in Seq(Txs)
            /\ \A t \in Txs : SameStory(ts[t], freed.txs[t])
  BY DEF Freed, SameStory, NoTx

LEMMA SameStoryTwice ==
  ASSUME NEW tx, NEW new, NEW newer, SameStory(tx, new), SameStory(new, newer)
  PROVE  SameStory(tx, newer)
  BY DEF SameStory

\* A transaction that is aborted has stored nothing; the others keep their stories.
LEMMA AbortTells ==
  ASSUME OutcomeOK, NEW t \in Txs, NEW task, Abort(t, task),
         txs[t].state = "active", dumping' = dumping
  PROVE  OutcomeOK'
  <1>. DEFINE over == [Over(txs[t], "pending") EXCEPT !.aborting = TRUE, !.task = task,
                                             !.begun = txs[t].begun, !.mode = txs[t].mode]
              ts == [txs EXCEPT ![t] = over]
  <1>1. ToldOK(over) /\ over.state = "finished" /\ DOMAIN over = DOMAIN NoTx
    <2>1. ~txs[t].stored /\ txs[t].stored = FALSE
      BY DEF OutcomeOK, ToldOK
    <2>2. /\ DOMAIN over = DOMAIN NoTx /\ over.stored = FALSE /\ over.aborting = TRUE
          /\ over.mode = txs[t].mode
          /\ over.state = "finished" /\ over.promise = "pending" /\ over.requests = <<>>
      BY <2>1 DEF Over, NoTx
    <2>. QED
      BY <2>2 DEF OutcomeOK, ToldOK
  <1>8. dumping # t
    BY DEF OutcomeOK
  <1>2. DOMAIN ts = Txs /\ ts[t] = over /\ \A u \in Txs \ {t} : ts[u] = txs[u]
    BY DEF OutcomeOK
  <1>3. \/ txs' = ts /\ waiting' = waiting
        \/ txs' = Freed("connected", ts, waiting).txs /\ waiting' = Freed("connected", ts, waiting).waiting
    BY DEF Abort
  <1>4. \A u \in Txs : DOMAIN ts[u] = DOMAIN NoTx
    BY <1>1, <1>2 DEF OutcomeOK, ToldOK
  <1>. HIDE DEF ts, over
  <1>5. /\ DOMAIN txs' = Txs /\ waiting' \in Seq(Txs)
        /\ \A u \in Txs : SameStory(ts[u], txs'[u])
    <2>1. waiting \in Seq(Txs)
      BY DEF OutcomeOK
    <2>. DEFINE freed == Freed("connected", ts, waiting)
    <2>2. /\ DOMAIN freed.txs = Txs /\ freed.waiting \in Seq(Txs)
          /\ \A u \in Txs : SameStory(ts[u], freed.txs[u])
      BY <1>2, <1>4, <2>1, FreedKeepsStories
    <2>. HIDE DEF freed
    <2>3. \/ txs' = ts /\ waiting' = waiting
          \/ txs' = freed.txs /\ waiting' = freed.waiting
      BY <1>3 DEF freed
    <2>. QED
      BY <1>2, <2>1, <2>2, <2>3, SameAsBefore
  <1>6. \A u \in Txs \ {t} : SameStory(txs[u], txs'[u])
    BY <1>2, <1>5
  <1>7. ToldOK(txs'[t]) /\ txs'[t].state # "committing"
    <2>1. SameStory(over, txs'[t])
      BY <1>2, <1>5
    <2>. QED
      BY <1>1, <2>1, SameStoryIsOK DEF SameStory
  <1>. QED
    BY <1>5, <1>6, <1>7, <1>8, OneNewStory

LEMMA InitOutcome == Init => OutcomeOK
  BY NoTxIsOK, DatabaseAssumption DEF Init, OutcomeOK, NoTx

-----------------------------------------------------------------------------
(* The actions                                                             *)

\* Steps that change one transaction and nothing of its story.
LEMMA OneQuietStep ==
  ASSUME OutcomeOK, NEW t \in Txs, DOMAIN txs' = Txs, \A u \in Txs \ {t} : txs'[u] = txs[u],
         SameStory(txs[t], txs'[t]), waiting' \in Seq(Txs), dumping' = dumping
  PROVE  OutcomeOK'
  <1>1. \A u \in Txs : SameStory(txs[u], txs'[u])
    BY SameAsBefore
  <1>. QED
    BY <1>1, SameStories

LEMMA ConnectionsOutcome ==
  ASSUME OutcomeOK, UNCHANGED <<txs, waiting, dumping>>
  PROVE  OutcomeOK'
  BY DEF OutcomeOK

LEMMA UpgradeOutcome ==
  ASSUME OutcomeOK, NEW c \in Conns, UpgradeCommits(c)
  PROVE  OutcomeOK'
  <1>1. \A t \in Txs : txs[t].state # "committing"
    BY DEF UpgradeCommits, Quiet
  <1>2. c \notin Txs
    BY DatabaseAssumption
  <1>. QED
    BY <1>1, <1>2 DEF UpgradeCommits, OutcomeOK

LEMMA TransactionOutcome ==
  ASSUME OutcomeOK, NEW t \in Txs, Transaction(t)
  PROVE  OutcomeOK'
  <1>1. PICK c \in Conns, mode \in {"readonly", "readwrite"} :
          txs' = [txs EXCEPT ![t] = [NoTx EXCEPT !.conn = c, !.mode = mode, !.state = "active",
                                       !.task = "queued", !.f = "running", !.promise = "pending"]]
    BY DEF Transaction
  <1>2. /\ DOMAIN txs' = Txs /\ \A u \in Txs \ {t} : SameStory(txs[u], txs'[u])
        /\ waiting' \in Seq(Txs) /\ dumping' = dumping
    BY <1>1, SameAsBefore DEF Transaction, OutcomeOK
  <1>3. ToldOK(txs'[t]) /\ txs'[t].state # "committing"
    BY <1>1 DEF OutcomeOK, ToldOK, NoTx
  <1>4. dumping # t
    BY DEF Transaction, Quiet, OutcomeOK
  <1>. QED
    BY <1>2, <1>3, <1>4, OneNewStory

\* What the function does, except that it throws.
LEMMA FunctionOutcome ==
  ASSUME OutcomeOK, NEW t \in Txs, Function(t) \/ ComesBack(t)
  PROVE  OutcomeOK'
  <1>1. CASE Throws(t)
    BY <1>1, AbortTells DEF Throws
  <1>2. CASE MakeRequest(t)
    <2>1. PICK req \in RequestsOf(t), f \in {"waits", "returned"} :
            txs' = [txs EXCEPT ![t].requests = Append(@, req), ![t].f = f]
      BY <1>2 DEF MakeRequest
    <2>2. DOMAIN txs = Txs /\ DOMAIN txs[t] = DOMAIN NoTx /\ txs[t].state = "active"
      BY <1>2 DEF MakeRequest, OutcomeOK, ToldOK
    <2>3. /\ DOMAIN txs' = Txs /\ SameStory(txs[t], txs'[t])
          /\ \A u \in Txs \ {t} : txs'[u] = txs[u]
      BY <2>1, <2>2 DEF SameStory, NoTx
    <2>4. waiting' \in Seq(Txs) /\ dumping' = dumping
      BY <1>2 DEF MakeRequest, OutcomeOK
    <2>. QED
      BY <2>3, <2>4, OneQuietStep
  <1>3. CASE Returns(t) \/ GoesElsewhere(t) \/ ThrowsTransactionAbort(t) \/ ComesBack(t)
    <2>1. DOMAIN txs = Txs /\ DOMAIN txs[t] = DOMAIN NoTx
      BY DEF OutcomeOK, ToldOK
    <2>2. /\ DOMAIN txs' = Txs /\ SameStory(txs[t], txs'[t])
          /\ \A u \in Txs \ {t} : txs'[u] = txs[u]
      BY <1>3, <2>1 DEF SameStory, NoTx, Returns, GoesElsewhere, ThrowsTransactionAbort, ComesBack
    <2>3. waiting' \in Seq(Txs) /\ dumping' = dumping
      BY <1>3 DEF Returns, GoesElsewhere, ThrowsTransactionAbort, ComesBack, OutcomeOK
    <2>. QED
      BY <2>2, <2>3, OneQuietStep
  <1>. QED
    BY <1>1, <1>2, <1>3 DEF Function

LEMMA StartOutcome ==
  ASSUME OutcomeOK, NEW t \in Txs, Start(t) \/ StartOfFinished(t)
  PROVE  OutcomeOK'
  <1>1. DOMAIN txs = Txs /\ DOMAIN txs[t] = DOMAIN NoTx /\ waiting \in Seq(Txs)
    BY DEF OutcomeOK, ToldOK
  <1>2. CASE Start(t)
    <2>1. /\ DOMAIN txs' = Txs /\ SameStory(txs[t], txs'[t])
          /\ \A u \in Txs \ {t} : txs'[u] = txs[u]
      BY <1>1, <1>2 DEF SameStory, NoTx, Start
    <2>2. waiting' \in Seq(Txs) /\ dumping' = dumping
      BY <1>1, <1>2 DEF Start
    <2>. QED
      BY <2>1, <2>2, OneQuietStep
  <1>3. CASE StartOfFinished(t)
    <2>1. txs' = [txs EXCEPT ![t].task = "none", ![t].mode = Undef] /\ txs[t].state = "finished"
      BY <1>3 DEF StartOfFinished
    <2>2. /\ DOMAIN txs' = Txs /\ DOMAIN txs'[t] = DOMAIN NoTx /\ txs'[t].state = "finished"
          /\ txs'[t].stored = txs[t].stored /\ txs'[t].aborting = txs[t].aborting
          /\ txs'[t].promise = txs[t].promise /\ txs'[t].requests = txs[t].requests
          /\ txs'[t].mode = Undef
          /\ \A u \in Txs \ {t} : txs'[u] = txs[u]
      BY <1>1, <2>1 DEF NoTx
    <2>3. ToldOK(txs[t]) /\ dumping # t
      BY <2>1 DEF OutcomeOK
    <2>4. ToldOK(txs'[t])
      BY <2>1, <2>2, <2>3 DEF ToldOK
    <2>5. waiting' \in Seq(Txs) /\ dumping' = dumping
      BY <1>1, <1>3 DEF StartOfFinished
    <2>. QED
      BY <2>2, <2>3, <2>4, <2>5, OneNewStory, SameAsBefore
  <1>. QED
    BY <1>2, <1>3

LEMMA RunRequestOutcome ==
  ASSUME OutcomeOK, NEW t \in Txs, RunRequest(t)
  PROVE  OutcomeOK'
  <1>1. txs[t].state = "active" /\ dumping' = dumping /\ DOMAIN txs[t] = DOMAIN NoTx
    BY DEF RunRequest, OutcomeOK, ToldOK
  <1>2. CASE Abort(t, "queued")
    BY <1>1, <1>2, AbortTells
  <1>3. CASE ~Abort(t, "queued")
    <2>. DEFINE req == Head(txs[t].requests)
                result == Performed(backend.modified, req)
    <2>1. /\ txs' = [txs EXCEPT ![t].requests = Tail(@), ![t].f = Heard(@), ![t].after = result.after,
                        ![t].history = Append(@, [req |-> req, answer |-> result.answer]),
                        ![t].task = IF Len(txs[t].requests) > 1 THEN "runs" ELSE "queued"]
          /\ waiting' = waiting
      BY <1>3 DEF RunRequest
    <2>. HIDE DEF result
    <2>2. DOMAIN txs = Txs
      BY DEF OutcomeOK
    <2>3. /\ DOMAIN txs' = Txs /\ SameStory(txs[t], txs'[t])
          /\ \A u \in Txs \ {t} : txs'[u] = txs[u]
      BY <1>1, <2>1, <2>2 DEF SameStory, NoTx
    <2>4. waiting' \in Seq(Txs)
      BY <2>1 DEF OutcomeOK
    <2>. QED
      BY <1>1, <2>3, <2>4, OneQuietStep
  <1>. QED
    BY <1>2, <1>3

\* A readonly transaction is stored at once, any other when the dump is written.
LEMMA CommitOutcome ==
  ASSUME OutcomeOK, NEW t \in Txs, Commit(t)
  PROVE  OutcomeOK'
  <1>. DEFINE readonly == txs[t].mode = "readonly"
              tx == [txs[t] EXCEPT !.state = "committing", !.task = "none", !.stored = readonly]
              ts == [txs EXCEPT ![t] = tx]
              freed == Freed("connected", ts, waiting)
  <1>1. /\ DOMAIN txs = Txs /\ waiting \in Seq(Txs) /\ txs[t].state = "active" /\ txs[t].requests = <<>>
        /\ txs[t].mode \in {"readonly", "readwrite"} /\ dumping = Undef
        /\ DOMAIN txs[t] = DOMAIN NoTx /\ ToldOK(txs[t])
    BY DEF Commit, OutcomeOK, ToldOK
  <1>2. txs' = freed.txs /\ waiting' = freed.waiting
    <2>1. ts = [txs EXCEPT ![t].state = "committing", ![t].task = "none",
                           ![t].stored = txs[t].mode = "readonly"]
      BY <1>1 DEF NoTx
    <2>. QED
      BY <2>1 DEF Commit
  <1>3. /\ DOMAIN tx = DOMAIN NoTx /\ tx.state = "committing" /\ tx.requests = <<>>
        /\ tx.aborting = txs[t].aborting /\ tx.promise = txs[t].promise /\ tx.mode = txs[t].mode
    BY <1>1 DEF NoTx
  <1>4. tx.stored = readonly
    BY <1>1 DEF NoTx
  <1>5. DOMAIN ts = Txs /\ ts[t] = tx /\ \A u \in Txs \ {t} : ts[u] = txs[u]
    BY <1>1
  <1>6. \A u \in Txs : DOMAIN ts[u] = DOMAIN NoTx
    BY <1>3, <1>5 DEF OutcomeOK, ToldOK
  <1>. HIDE DEF tx, ts
  <1>7. /\ DOMAIN txs' = Txs /\ waiting' \in Seq(Txs)
        /\ \A u \in Txs : SameStory(ts[u], txs'[u])
    BY <1>1, <1>2, <1>5, <1>6, FreedKeepsStories
  <1>8. ToldOK(tx)
    BY <1>1, <1>3, <1>4 DEF ToldOK
  <1>9. ToldOK(txs'[t]) /\ txs'[t].state = "committing" /\ txs'[t].stored = readonly
    <2>1. SameStory(tx, txs'[t])
      BY <1>5, <1>7
    <2>. QED
      BY <1>3, <1>4, <1>8, <2>1, SameStoryIsOK DEF SameStory
  <1>10. ASSUME NEW u \in Txs \ {t}
         PROVE  ToldOK(txs'[u]) /\ (txs'[u].state = "committing" => txs'[u].stored)
    <2>1. SameStory(txs[u], txs'[u])
      BY <1>5, <1>7
    <2>2. ToldOK(txs[u]) /\ (txs[u].state = "committing" => txs[u].stored)
      BY <1>1, DatabaseAssumption DEF OutcomeOK
    <2>. QED
      BY <2>1, <2>2, SameStoryIsOK DEF SameStory
  <1>11. dumping' = (IF readonly THEN Undef ELSE t)
    BY <1>1 DEF Commit
  <1>. HIDE DEF readonly
  <1>12. readonly => txs'[t].stored
    BY <1>9
  <1>. QED
    BY <1>7, <1>9, <1>10, <1>11, <1>12, DatabaseAssumption DEF OutcomeOK

\* The dump is that of the transaction that commits, or of an upgrade.
LEMMA DumpOutcome ==
  ASSUME OutcomeOK, Dump
  PROVE  OutcomeOK'
  <1>1. ASSUME NEW t \in Txs
        PROVE  /\ DOMAIN txs'[t] = DOMAIN NoTx /\ txs'[t].state = txs[t].state
               /\ txs'[t].mode = txs[t].mode /\ txs'[t].aborting = txs[t].aborting
               /\ txs'[t].promise = txs[t].promise /\ txs'[t].requests = txs[t].requests
               /\ txs'[t].stored = (txs[t].stored \/ t = dumping)
    <2>1. txs'[t] = [txs[t] EXCEPT !.stored = @ \/ t = dumping]
      BY DEF Dump
    <2>2. DOMAIN txs[t] = DOMAIN NoTx
      BY DEF OutcomeOK, ToldOK
    <2>. QED
      BY <2>1, <2>2 DEF NoTx
  <1>2. ASSUME NEW t \in Txs, t # dumping
        PROVE  SameStory(txs[t], txs'[t])
    <2>1. txs[t].stored \in BOOLEAN /\ DOMAIN txs[t] = DOMAIN NoTx
      BY DEF OutcomeOK, ToldOK
    <2>. QED
      BY <1>1, <1>2, <2>1 DEF SameStory
  <1>3. ASSUME NEW t \in Txs, t = dumping
        PROVE  ToldOK(txs'[t]) /\ txs'[t].stored
    <2>1. txs[t].state = "committing" /\ ToldOK(txs[t])
      BY <1>3 DEF OutcomeOK
    <2>2. txs'[t].stored = TRUE
      BY <1>1, <1>3
    <2>. QED
      BY <1>1, <2>1, <2>2 DEF ToldOK
  <1>4. \A t \in Txs : ToldOK(txs'[t])
    BY <1>2, <1>3, SameStoryIsOK DEF OutcomeOK
  <1>5. \A t \in Txs : txs'[t].state = "committing" => txs'[t].stored
    BY <1>2, <1>3 DEF OutcomeOK, SameStory
  <1>6. DOMAIN txs' = Txs /\ dumping' = Undef /\ waiting' \in Seq(Txs)
    BY DEF Dump, OutcomeOK
  <1>. QED
    BY <1>4, <1>5, <1>6, DatabaseAssumption DEF OutcomeOK

\* After the event, runWithTransaction resolves only what is stored.
LEMMA OverTells ==
  ASSUME NEW tx, NEW promise, ToldOK(tx), promise = "resolved" => tx.stored,
         promise = "aborted" => ~tx.stored
  PROVE  ToldOK(Over(tx, promise)) /\ Over(tx, promise).state = "finished"
  <1>1. /\ DOMAIN Over(tx, promise) = DOMAIN NoTx /\ Over(tx, promise).stored = tx.stored
        /\ Over(tx, promise).aborting = FALSE /\ Over(tx, promise).state = "finished"
        /\ Over(tx, promise).promise = promise /\ Over(tx, promise).requests = <<>>
        /\ Over(tx, promise).mode = Undef
    BY DEF Over, NoTx
  <1>. QED
    BY <1>1 DEF ToldOK

LEMMA CompleteOutcome ==
  ASSUME OutcomeOK, NEW t \in Txs, Complete(t)
  PROVE  OutcomeOK'
  <1>. DEFINE promise == IF txs[t].f = "returned" THEN "resolved" ELSE "BUG"
  <1>1. /\ DOMAIN txs = Txs /\ dumping = Undef /\ dumping # t /\ dumping' = dumping
        /\ waiting' \in Seq(Txs) /\ txs' = [txs EXCEPT ![t] = Over(txs[t], promise)]
    BY DatabaseAssumption DEF Complete, OutcomeOK
  <1>2. ToldOK(txs[t]) /\ txs[t].stored
    BY <1>1 DEF Complete, OutcomeOK
  <1>3. ToldOK(Over(txs[t], promise)) /\ Over(txs[t], promise).state = "finished"
    BY <1>2, OverTells
  <1>. HIDE DEF promise
  <1>4. DOMAIN txs' = Txs /\ txs'[t] = Over(txs[t], promise) /\ \A u \in Txs \ {t} : txs'[u] = txs[u]
    BY <1>1
  <1>. QED
    BY <1>1, <1>3, <1>4, OneNewStory, SameAsBefore

LEMMA AbortEventOutcome ==
  ASSUME OutcomeOK, NEW t \in Txs, AbortEvent(t)
  PROVE  OutcomeOK'
  <1>1. /\ DOMAIN txs = Txs /\ dumping' = dumping /\ waiting' \in Seq(Txs)
        /\ ToldOK(txs[t]) /\ txs[t].aborting /\ txs[t].state # "committing" /\ dumping # t
    BY DatabaseAssumption DEF AbortEvent, Quiet, OutcomeOK
  <1>2. /\ DOMAIN txs' = Txs /\ \A u \in Txs \ {t} : txs'[u] = txs[u]
        /\ DOMAIN txs'[t] = DOMAIN NoTx /\ txs'[t].state = txs[t].state /\ txs'[t].mode = txs[t].mode
        /\ txs'[t].aborting = FALSE /\ txs'[t].stored = txs[t].stored
        /\ txs'[t].requests = txs[t].requests
        /\ txs'[t].promise = (IF txs[t].promise = "pending" THEN "aborted" ELSE txs[t].promise)
    <2>1. DOMAIN txs[t] = DOMAIN NoTx
      BY <1>1 DEF ToldOK
    <2>2. txs' = [txs EXCEPT ![t].aborting = FALSE,
                             ![t].promise = IF @ = "pending" THEN "aborted" ELSE @]
      BY DEF AbortEvent
    <2>. QED
      BY <1>1, <2>1, <2>2 DEF NoTx
  <1>3. ToldOK(txs'[t])
    BY <1>1, <1>2 DEF ToldOK
  <1>. QED
    BY <1>1, <1>2, <1>3, OneNewStory, SameAsBefore

\* A restart forgets the promises that were pending.
LEMMA CrashOutcome ==
  ASSUME OutcomeOK, Crash
  PROVE  OutcomeOK'
  <1>1. ASSUME NEW t \in Txs
        PROVE  ToldOK(txs'[t]) /\ txs'[t].state # "committing"
    <2>. DEFINE promise == IF txs[t].promise = "pending" THEN "gone" ELSE txs[t].promise
    <2>1. txs'[t] = IF txs[t].state = "none" THEN NoTx ELSE Over(txs[t], promise)
      BY DEF Crash
    <2>2. ToldOK(txs[t])
      BY DEF OutcomeOK
    <2>3. (promise = "resolved" => txs[t].stored) /\ (promise = "aborted" => ~txs[t].stored)
      BY <2>2 DEF ToldOK
    <2>. HIDE DEF promise
    <2>4. ToldOK(Over(txs[t], promise)) /\ Over(txs[t], promise).state = "finished"
      BY <2>2, <2>3, OverTells
    <2>5. ToldOK(NoTx) /\ NoTx.state = "none"
      BY NoTxIsOK DEF NoTx
    <2>. QED
      BY <2>1, <2>4, <2>5
  <1>2. DOMAIN txs' = Txs /\ waiting' \in Seq(Txs) /\ dumping' = Undef
    BY DEF Crash
  <1>. QED
    BY <1>1, <1>2, DatabaseAssumption DEF OutcomeOK

LEMMA OutcomeInductive == OutcomeOK /\ [Next]_vars => OutcomeOK'
  <1>1. ASSUME OutcomeOK, Next
        PROVE  OutcomeOK'
    <2>1. ASSUME NEW c \in Conns, Connection(c)
          PROVE  OutcomeOK'
      <3>1. CASE UpgradeCommits(c)
        BY <1>1, <3>1, UpgradeOutcome
      <3>2. CASE OpenDatabase(c) \/ Connected(c) \/ CloseDatabase(c) \/ CloseConnection(c)
        BY <1>1, <3>2, ConnectionsOutcome DEF OpenDatabase, Connected, CloseDatabase, CloseConnection
      <3>. QED
        BY <2>1, <3>1, <3>2 DEF Connection
    <2>2. ASSUME NEW t \in Txs, Transaction(t) \/ Function(t) \/ ComesBack(t)
          PROVE  OutcomeOK'
      BY <1>1, <2>2, TransactionOutcome, FunctionOutcome
    <2>3. ASSUME NEW t \in Txs, Started(t) \/ Complete(t) \/ AbortEvent(t)
          PROVE  OutcomeOK'
      BY <1>1, <2>3, StartOutcome, RunRequestOutcome, CommitOutcome, CompleteOutcome,
         AbortEventOutcome DEF Started
    <2>. QED
      BY <1>1, <2>1, <2>2, <2>3, DumpOutcome, CrashOutcome DEF Next
  <1>2. ASSUME OutcomeOK, UNCHANGED vars
        PROVE  OutcomeOK'
    BY <1>2, ConnectionsOutcome DEF vars
  <1>. QED
    BY <1>1, <1>2

-----------------------------------------------------------------------------
(* What the other transactions and the level see of a step                 *)

\* A transaction goes on or ends; no request comes to it.
Live == {"active", "committing"}
GoesOn(tx, new) == /\ new.state \in Live => tx.state \in Live /\ new.conn = tx.conn
                   /\ new.requests = tx.requests \/ new.requests = <<>>

LEMMA FreedGoesOn ==
  ASSUME NEW ts, DOMAIN ts = Txs, NEW queue \in Seq(Txs), \A t \in Txs : ToldOK(ts[t])
  PROVE  LET freed == Freed("connected", ts, queue)
         IN /\ freed.level # "disconnected"
            /\ \A t \in Txs : GoesOn(ts[t], freed.txs[t])
  <1>. DEFINE freed == Freed("connected", ts, queue)
  <1>1. \A t \in Txs : DOMAIN ts[t] = DOMAIN NoTx /\ ts[t].mode \in {Undef, "readonly", "readwrite"}
    BY DEF ToldOK
  <1>2. CASE queue = <<>>
    BY <1>2 DEF Freed, GoesOn
  <1>3. CASE queue # <<>>
    <2>1. /\ freed.level = ts[Head(queue)].mode /\ Head(queue) \in Txs
          /\ freed.txs = [ts EXCEPT ![Head(queue)].begun = TRUE, ![Head(queue)].task = "runs"]
      BY <1>3 DEF Freed
    <2>. HIDE DEF freed
    <2>2. ASSUME NEW t \in Txs
          PROVE  /\ freed.txs[t].state = ts[t].state /\ freed.txs[t].conn = ts[t].conn
                 /\ freed.txs[t].requests = ts[t].requests
      BY <1>1, <2>1 DEF NoTx
    <2>. QED
      BY <1>1, <2>1, <2>2, DatabaseAssumption DEF GoesOn, freed
  <1>. QED
    BY <1>2, <1>3

LEMMA AbortGoesOn ==
  ASSUME OutcomeOK, NEW t \in Txs, NEW task, Abort(t, task), txs[t].state = "active",
         DOMAIN backend = DOMAIN EmptyDatabase
  PROVE  /\ \A u \in Txs : GoesOn(txs[u], txs'[u])
         /\ backend'.level = "disconnected" => backend.level = "disconnected"
         /\ DOMAIN backend' = DOMAIN EmptyDatabase /\ backend'.original = backend.original
         /\ backend'.modified \in {backend.original, backend.modified}
  <1>. DEFINE over == [Over(txs[t], "pending") EXCEPT !.aborting = TRUE, !.task = task,
                                             !.begun = txs[t].begun, !.mode = txs[t].mode]
              ts == [txs EXCEPT ![t] = over]
              freed == Freed("connected", ts, waiting)
  <1>1. ToldOK(over) /\ GoesOn(txs[t], over)
    <2>1. ~txs[t].stored /\ txs[t].stored = FALSE
      BY DEF OutcomeOK, ToldOK
    <2>2. /\ DOMAIN over = DOMAIN NoTx /\ over.stored = FALSE /\ over.aborting = TRUE
          /\ over.mode = txs[t].mode
          /\ over.state = "finished" /\ over.promise = "pending" /\ over.requests = <<>>
      BY <2>1 DEF Over, NoTx
    <2>. QED
      BY <2>2 DEF OutcomeOK, ToldOK, GoesOn, Live
  <1>2. DOMAIN ts = Txs /\ ts[t] = over /\ \A u \in Txs \ {t} : ts[u] = txs[u]
    BY DEF OutcomeOK
  <1>3. waiting \in Seq(Txs) /\ \A u \in Txs : ToldOK(txs[u])
    BY DEF OutcomeOK
  <1>4. \/ /\ backend' = [backend EXCEPT !.modified = backend.original, !.level = freed.level]
           /\ txs' = freed.txs
        \/ txs' = ts /\ backend' = backend
    BY DEF Abort
  <1>. HIDE DEF ts, over
  <1>5. \A u \in Txs : ToldOK(ts[u]) /\ GoesOn(txs[u], ts[u])
    BY <1>1, <1>2, <1>3 DEF GoesOn
  <1>6. freed.level # "disconnected" /\ \A u \in Txs : GoesOn(ts[u], freed.txs[u])
    BY <1>2, <1>3, <1>5, FreedGoesOn
  <1>. HIDE DEF freed
  <1>7. \A u \in Txs : GoesOn(txs[u], freed.txs[u])
    BY <1>5, <1>6 DEF GoesOn
  <1>. QED
    BY <1>4, <1>5, <1>6, <1>7 DEF EmptyDatabase

\* What a transaction does before and after its requests, without beginning.
LEMMA OthersGoOn ==
  ASSUME OutcomeOK, DOMAIN backend = DOMAIN EmptyDatabase, NEW t \in Txs,
         \/ Returns(t) \/ GoesElsewhere(t) \/ ThrowsTransactionAbort(t) \/ ComesBack(t)
         \/ Start(t) \/ StartOfFinished(t) \/ Complete(t) \/ AbortEvent(t)
  PROVE  /\ \A u \in Txs : GoesOn(txs[u], txs'[u])
         /\ backend'.level = "disconnected" => backend.level = "disconnected"
         /\ DOMAIN backend' = DOMAIN EmptyDatabase /\ backend'.original = backend.original
         /\ backend'.modified = backend.modified
         /\ UNCHANGED <<conns, opening, disk>>
  <1>1. /\ DOMAIN txs = Txs /\ DOMAIN txs[t] = DOMAIN NoTx
        /\ txs[t].mode \in {Undef, "readonly", "readwrite"}
    BY DEF OutcomeOK, ToldOK
  <1>2. CASE Complete(t)
    BY <1>1, <1>2 DEF Complete, Over, NoTx, GoesOn, Live
  <1>3. CASE \/ Returns(t) \/ GoesElsewhere(t) \/ ThrowsTransactionAbort(t) \/ ComesBack(t)
             \/ StartOfFinished(t) \/ AbortEvent(t)
    BY <1>1, <1>3 DEF NoTx, GoesOn, Returns, GoesElsewhere, ThrowsTransactionAbort, ComesBack,
                      StartOfFinished, AbortEvent
  <1>4. CASE Start(t)
    <2>1. \A u \in Txs : GoesOn(txs[u], txs'[u])
      BY <1>1, <1>4 DEF Start, NoTx, GoesOn
    <2>2. backend' = backend \/ backend' = [backend EXCEPT !.level = txs[t].mode]
      BY <1>4 DEF Start
    <2>. QED
      BY <1>1, <1>4, <2>1, <2>2, DatabaseAssumption DEF Start, EmptyDatabase
  <1>. QED
    BY <1>2, <1>3, <1>4

LEMMA CommitGoesOn ==
  ASSUME OutcomeOK, DOMAIN backend = DOMAIN EmptyDatabase, NEW t \in Txs, Commit(t)
  PROVE  /\ \A u \in Txs : GoesOn(txs[u], txs'[u])
         /\ backend'.level # "disconnected"
         /\ DOMAIN backend' = DOMAIN EmptyDatabase /\ backend'.original = backend.modified
         /\ backend'.modified = backend.modified
         /\ UNCHANGED <<conns, opening, disk>>
  <1>. DEFINE readonly == txs[t].mode = "readonly"
              tx == [txs[t] EXCEPT !.state = "committing", !.task = "none", !.stored = readonly]
              ts == [txs EXCEPT ![t] = tx]
              freed == Freed("connected", ts, waiting)
  <1>1. /\ DOMAIN txs = Txs /\ waiting \in Seq(Txs) /\ txs[t].state = "active" /\ txs[t].requests = <<>>
        /\ DOMAIN txs[t] = DOMAIN NoTx /\ ToldOK(txs[t]) /\ \A u \in Txs : ToldOK(txs[u])
    BY DEF Commit, OutcomeOK, ToldOK
  <1>2. txs' = freed.txs /\ backend' = [backend EXCEPT !.original = backend.modified, !.level = freed.level]
    <2>1. ts = [txs EXCEPT ![t].state = "committing", ![t].task = "none",
                           ![t].stored = txs[t].mode = "readonly"]
      BY <1>1 DEF NoTx
    <2>. QED
      BY <2>1 DEF Commit
  <1>3. /\ DOMAIN tx = DOMAIN NoTx /\ tx.state = "committing" /\ tx.requests = <<>> /\ tx.conn = txs[t].conn
        /\ tx.aborting = txs[t].aborting /\ tx.promise = txs[t].promise /\ tx.mode = txs[t].mode
        /\ tx.stored = readonly
    BY <1>1 DEF NoTx
  <1>4. DOMAIN ts = Txs /\ ts[t] = tx /\ \A u \in Txs \ {t} : ts[u] = txs[u]
    BY <1>1
  <1>. HIDE DEF tx, ts
  <1>5. ToldOK(tx) /\ GoesOn(txs[t], tx)
    BY <1>1, <1>3 DEF ToldOK, GoesOn, Live
  <1>6. \A u \in Txs : ToldOK(ts[u]) /\ GoesOn(txs[u], ts[u])
    BY <1>1, <1>4, <1>5 DEF GoesOn
  <1>7. freed.level # "disconnected" /\ \A u \in Txs : GoesOn(ts[u], freed.txs[u])
    BY <1>1, <1>4, <1>6, FreedGoesOn
  <1>. HIDE DEF freed
  <1>8. \A u \in Txs : GoesOn(txs[u], freed.txs[u])
    BY <1>6, <1>7 DEF GoesOn
  <1>. QED
    BY <1>2, <1>7, <1>8 DEF EmptyDatabase, Commit

-----------------------------------------------------------------------------
(* Who has the database                                                    *)

Exclusive ==
  /\ DOMAIN backend = DOMAIN EmptyDatabase /\ opening \in Seq(Conns)
  /\ conns \in [Conns -> [state : ConnStates, wants : Versions \cup {Undef}]]
  /\ \A t \in Txs : txs[t].state \in Live => txs[t].conn \in Conns
  /\ HoldersOK /\ ConnectionsExclude

LEMMA LiveIsHeld ==
  ASSUME Exclusive, NEW t \in Txs, txs[t].state \in Live
  PROVE  txs[t].conn \in Conns /\ conns[txs[t].conn].state \in {"open", "closing"}
  BY DEF Exclusive, ConnectionsExclude, Live

\* The connections stay as they are, and transactions go on or end.
LEMMA QuietExclusive ==
  ASSUME Exclusive, UNCHANGED <<conns, opening>>, \A t \in Txs : GoesOn(txs[t], txs'[t]),
         DOMAIN backend' = DOMAIN EmptyDatabase,
         backend'.level = "disconnected" => backend.level = "disconnected"
  PROVE  Exclusive'
  <1>1. \A t \in Txs : txs'[t].state \in Live => /\ txs'[t].conn \in Conns
                                                 /\ conns[txs'[t].conn].state \in {"open", "closing"}
    BY LiveIsHeld DEF GoesOn
  <1>2. Holding' = Holding
    BY DEF Holding
  <1>3. HoldersOK'
    BY <1>2 DEF Exclusive, HoldersOK
  <1>4. ConnectionsExclude'
    BY <1>1 DEF Exclusive, ConnectionsExclude, Live
  <1>. QED
    BY <1>1, <1>3, <1>4 DEF Exclusive

\* The connections change, but not those that transactions run on.
LEMMA ConnectionsMove ==
  ASSUME Exclusive, UNCHANGED txs, opening' \in Seq(Conns), DOMAIN backend' = DOMAIN EmptyDatabase,
         conns' \in [Conns -> [state : ConnStates, wants : Versions \cup {Undef}]],
         \A c \in Conns : conns[c].state \in {"open", "closing"} =>
                             \/ conns'[c].state \in {"open", "closing"}
                             \/ TransactionsFinished(c),
         \A c, d \in Conns : c \in Holding' /\ d \in Holding' => c = d,
         HoldersOK'
  PROVE  Exclusive'
  <1>1. ASSUME NEW t \in Txs, txs[t].state \in Live
        PROVE  txs[t].conn \in Conns /\ conns'[txs[t].conn].state \in {"open", "closing"}
    <2>1. txs[t].conn \in Conns /\ conns[txs[t].conn].state \in {"open", "closing"}
      BY <1>1, LiveIsHeld
    <2>2. ~TransactionsFinished(txs[t].conn)
      BY <1>1 DEF TransactionsFinished, Live
    <2>. QED
      BY <2>1, <2>2
  <1>2. ConnectionsExclude'
    <2>1. \A c, d \in Conns :
            {conns'[c].state, conns'[d].state} \subseteq {"connected", "upgrading", "open", "closing"}
              => c \in Holding' /\ d \in Holding'
      BY DEF Holding
    <2>. QED
      BY <1>1, <2>1 DEF ConnectionsExclude, Live
  <1>. QED
    BY <1>1, <1>2 DEF Exclusive

LEMMA HeldOnce ==
  ASSUME Exclusive, NEW c \in Holding, NEW d \in Holding
  PROVE  c = d
  BY DEF Exclusive, ConnectionsExclude, Holding

LEMMA OpenExclusive ==
  ASSUME Exclusive, NEW c \in Conns, OpenDatabase(c)
  PROVE  Exclusive'
  <1>1. PICK v \in Versions :
          \/ /\ backend.level = "disconnected" /\ backend' = [backend EXCEPT !.level = "connected"]
             /\ conns' = [conns EXCEPT ![c] = [state |-> "connected", wants |-> v]]
             /\ UNCHANGED opening
          \/ /\ backend.level # "disconnected" /\ UNCHANGED backend
             /\ conns' = [conns EXCEPT ![c] = [state |-> "opening", wants |-> v]]
             /\ opening' = Append(opening, c)
    BY DEF OpenDatabase
  <1>2. /\ conns' \in [Conns -> [state : ConnStates, wants : Versions \cup {Undef}]]
        /\ opening' \in Seq(Conns) /\ DOMAIN backend' = DOMAIN EmptyDatabase
        /\ \A d \in Conns \ {c} : conns'[d] = conns[d]
    <2>1. conns \in [Conns -> [state : ConnStates, wants : Versions \cup {Undef}]] /\ opening \in Seq(Conns)
      BY DEF Exclusive
    <2>2. ASSUME NEW state \in {"connected", "opening"}
          PROVE  [state |-> state, wants |-> v] \in [state : ConnStates, wants : Versions \cup {Undef}]
      BY DEF ConnStates
    <2>3. PICK state \in {"connected", "opening"} :
                 conns' = [conns EXCEPT ![c] = [state |-> state, wants |-> v]]
      BY <1>1
    <2>4. conns' \in [Conns -> [state : ConnStates, wants : Versions \cup {Undef}]]
      BY <2>1, <2>2, <2>3
    <2>5. opening' \in Seq(Conns)
      BY <1>1, <2>1
    <2>6. DOMAIN backend' = DOMAIN EmptyDatabase
      BY <1>1 DEF Exclusive
    <2>. QED
      BY <2>1, <2>3, <2>4, <2>5, <2>6
  <1>3. conns[c].state = "none" /\ UNCHANGED txs
    BY DEF OpenDatabase
  <1>4. \A n \in DOMAIN opening : opening[n] \in Conns /\ opening[n] # c
    BY <1>3 DEF Exclusive, HoldersOK
  <1>5. CASE backend.level = "disconnected"
    <2>1. Holding = {} /\ backend'.level = "connected" /\ opening' = opening
      BY <1>1, <1>5 DEF Exclusive, HoldersOK, EmptyDatabase
    <2>2. \A d \in Holding' : d = c
      BY <1>2, <2>1 DEF Holding
    <2>3. HoldersOK'
      BY <1>2, <1>4, <2>1 DEF Exclusive, HoldersOK
    <2>. QED
      BY <1>2, <1>3, <2>2, <2>3, ConnectionsMove
  <1>6. CASE backend.level # "disconnected"
    <2>1. /\ conns' = [conns EXCEPT ![c] = [state |-> "opening", wants |-> v]]
          /\ opening' = Append(opening, c) /\ backend' = backend
      BY <1>1, <1>6
    <2>2. conns'[c].state = "opening"
      BY <2>1 DEF Exclusive
    <2>3. Holding' = Holding
      BY <1>2, <1>3, <2>2 DEF Holding
    <2>4. DOMAIN opening' = 1..(Len(opening) + 1) /\ opening'[Len(opening) + 1] = c
      BY <2>1 DEF Exclusive
    <2>5. DOMAIN opening = 1..Len(opening) /\ \A n \in 1..Len(opening) : opening'[n] = opening[n]
      BY <2>1 DEF Exclusive
    <2>6. HoldersOK'
      BY <1>2, <1>4, <1>6, <2>1, <2>2, <2>4, <2>5 DEF Exclusive, HoldersOK
    <2>. QED
      BY <1>2, <1>3, <2>3, <2>6, HeldOnce, ConnectionsMove
  <1>. QED
    BY <1>5, <1>6

LEMMA OneConnectionMoves ==
  ASSUME Exclusive, NEW c \in Conns, UNCHANGED <<txs, opening>>, NEW state \in ConnStates \ {"opening"},
         conns' = [conns EXCEPT ![c].state = state], c \in Holding,
         state \notin {"open", "closing"} => conns[c].state \notin {"open", "closing"},
         DOMAIN backend' = DOMAIN EmptyDatabase, backend'.level # "disconnected"
  PROVE  Exclusive'
  <1>1. /\ conns' \in [Conns -> [state : ConnStates, wants : Versions \cup {Undef}]]
        /\ \A d \in Conns \ {c} : conns'[d] = conns[d]
        /\ conns'[c].state = state /\ opening' \in Seq(Conns)
    BY DEF Exclusive
  <1>2. \A d \in Holding' : d \in Holding
    BY <1>1 DEF Holding
  <1>3. \A n \in DOMAIN opening : opening[n] \in Conns /\ opening[n] # c
    BY DEF Exclusive, HoldersOK, Holding
  <1>4. HoldersOK'
    BY <1>1, <1>3 DEF Exclusive, HoldersOK
  <1>5. \A d, e \in Conns : d \in Holding' /\ e \in Holding' => d = e
    BY <1>2, HeldOnce
  <1>6. \A d \in Conns : conns[d].state \in {"open", "closing"} => conns'[d].state \in {"open", "closing"}
    BY <1>1
  <1>. QED
    BY <1>1, <1>4, <1>5, <1>6, ConnectionsMove

\* The first that waits gets the database from the one that is closed.
LEMMA CloseExclusive ==
  ASSUME Exclusive, NEW c \in Conns, CloseConnection(c)
  PROVE  Exclusive'
  <1>1. /\ c \in Holding /\ TransactionsFinished(c) /\ UNCHANGED txs
        /\ \A d \in Holding : d = c
    <2>1. c \in Holding /\ TransactionsFinished(c) /\ UNCHANGED txs
      BY DEF CloseConnection, Holding
    <2>. QED
      BY <2>1, HeldOnce
  <1>2. \A n \in DOMAIN opening : opening[n] \in Conns /\ opening[n] # c
    BY <1>1 DEF Exclusive, HoldersOK, Holding
  <1>3. CASE opening = <<>>
    <2>1. /\ conns' = [conns EXCEPT ![c].state = "closed"] /\ UNCHANGED opening
          /\ backend' = [backend EXCEPT !.level = "disconnected"]
      BY <1>3 DEF CloseConnection
    <2>2. /\ conns' \in [Conns -> [state : ConnStates, wants : Versions \cup {Undef}]]
          /\ \A d \in Conns \ {c} : conns'[d] = conns[d]
          /\ conns'[c].state = "closed" /\ opening' \in Seq(Conns) /\ DOMAIN backend' = DOMAIN EmptyDatabase
      BY <2>1 DEF Exclusive, ConnStates, EmptyDatabase
    <2>3. Holding' = {}
      BY <1>1, <2>2 DEF Holding
    <2>4. HoldersOK'
      BY <1>2, <2>1, <2>2, <2>3 DEF Exclusive, HoldersOK
    <2>5. \A d \in Conns : conns[d].state \in {"open", "closing"} =>
             conns'[d].state \in {"open", "closing"} \/ TransactionsFinished(d)
      BY <1>1, <2>2
    <2>. QED
      BY <1>1, <2>2, <2>3, <2>4, <2>5, ConnectionsMove
  <1>4. CASE opening # <<>>
    <2>. DEFINE h == Head(opening)
    <2>1. /\ conns' = [conns EXCEPT ![c].state = "closed", ![h].state = "connected"]
          /\ opening' = Tail(opening) /\ backend' = backend
      BY <1>4 DEF CloseConnection
    <2>2. /\ h \in Conns /\ h = opening[1] /\ 1 \in DOMAIN opening
          /\ opening' \in Seq(Conns) /\ DOMAIN opening' = 1..(Len(opening) - 1)
          /\ \A n \in DOMAIN opening' : n + 1 \in DOMAIN opening /\ opening'[n] = opening[n + 1] /\ n + 1 # 1
      BY <1>4, <2>1 DEF Exclusive
    <2>3. h # c
      BY <1>2, <2>2
    <2>. HIDE DEF h
    <2>4. /\ conns' \in [Conns -> [state : ConnStates, wants : Versions \cup {Undef}]]
          /\ \A d \in Conns \ {c, h} : conns'[d] = conns[d]
          /\ conns'[c].state = "closed" /\ conns'[h].state = "connected"
          /\ DOMAIN backend' = DOMAIN EmptyDatabase
      <3>1. conns \in [Conns -> [state : ConnStates, wants : Versions \cup {Undef}]]
        BY DEF Exclusive
      <3>2. conns' = [d \in Conns |-> IF d = h THEN [conns[d] EXCEPT !.state = "connected"]
                                     ELSE IF d = c THEN [conns[d] EXCEPT !.state = "closed"] ELSE conns[d]]
        BY <2>1, <2>2, <2>3, <3>1
      <3>3. \A d \in Conns : conns[d] \in [state : ConnStates, wants : Versions \cup {Undef}]
        BY <3>1
      <3>4. \A d \in Conns, state \in {"connected", "closed"} :
              /\ [conns[d] EXCEPT !.state = state] \in [state : ConnStates, wants : Versions \cup {Undef}]
              /\ [conns[d] EXCEPT !.state = state].state = state
        BY <3>3 DEF ConnStates
      <3>5. conns' \in [Conns -> [state : ConnStates, wants : Versions \cup {Undef}]]
        BY <3>2, <3>3, <3>4
      <3>6. conns'[c].state = "closed" /\ conns'[h].state = "connected"
        BY <2>2, <2>3, <3>2, <3>4
      <3>7. DOMAIN backend' = DOMAIN EmptyDatabase /\ \A d \in Conns \ {c, h} : conns'[d] = conns[d]
        BY <2>1, <3>2 DEF Exclusive
      <3>. QED
        BY <3>5, <3>6, <3>7
    <2>5. \A d \in Holding' : d = h
      BY <1>1, <2>4 DEF Holding
    <2>6. backend'.level # "disconnected"
      BY <2>1 DEF CloseConnection
    <2>7. HoldersOK'
      <3>1. \A n \in DOMAIN opening' : opening'[n] \in Conns /\ opening'[n] \notin {c, h}
        BY <1>2, <2>2 DEF Exclusive, HoldersOK
      <3>2. \A n \in DOMAIN opening' : conns'[opening'[n]].state = "opening"
        BY <2>2, <2>4, <3>1 DEF Exclusive, HoldersOK
      <3>3. \A m, n \in DOMAIN opening' : opening'[m] = opening'[n] => m = n
        <4>1. \A m, n \in DOMAIN opening' : opening'[m] = opening'[n] => m + 1 = n + 1
          BY <2>2 DEF Exclusive, HoldersOK
        <4>. QED
          BY <2>2, <4>1
      <3>. QED
        BY <2>6, <3>2, <3>3 DEF HoldersOK
    <2>8. \A d \in Conns : conns[d].state \in {"open", "closing"} =>
             conns'[d].state \in {"open", "closing"} \/ TransactionsFinished(d)
      <3>1. conns[h].state = "opening"
        BY <2>2 DEF Exclusive, HoldersOK
      <3>. QED
        BY <1>1, <2>4, <3>1
    <2>. QED
      BY <1>1, <2>2, <2>4, <2>5, <2>7, <2>8, ConnectionsMove
  <1>. QED
    BY <1>3, <1>4

LEMMA ConnectionExclusive ==
  ASSUME Exclusive, NEW c \in Conns, Connection(c)
  PROVE  Exclusive'
  <1>1. CASE Connected(c)
    <2>1. PICK state \in {"refused", "open", "upgrading"} : conns' = [conns EXCEPT ![c].state = state]
      <3>. DEFINE becomes == CASE conns[c].wants < backend.version -> "refused"
                               [] conns[c].wants = backend.version -> "open"
                               [] OTHER -> "upgrading"
      <3>1. conns' = [conns EXCEPT ![c].state = becomes]
        BY <1>1 DEF Connected
      <3>2. becomes \in {"refused", "open", "upgrading"}
        OBVIOUS
      <3>. QED
        BY <3>1, <3>2
    <2>2. /\ c \in Holding /\ UNCHANGED <<txs, opening>> /\ state \in ConnStates \ {"opening"}
          /\ conns[c].state \notin {"open", "closing"}
      BY <1>1 DEF Connected, Holding, ConnStates
    <2>3. backend.level # "disconnected" /\ DOMAIN backend = DOMAIN EmptyDatabase
      BY <2>2 DEF Exclusive, HoldersOK
    <2>4. DOMAIN backend' = DOMAIN EmptyDatabase /\ backend'.level # "disconnected"
      BY <1>1, <2>3 DEF Connected, EmptyDatabase
    <2>. QED
      BY <2>1, <2>2, <2>4, OneConnectionMoves
  <1>2. CASE UpgradeCommits(c)
    <2>1. PICK state \in {"open", "lost"} : conns' = [conns EXCEPT ![c].state = state]
      BY <1>2 DEF UpgradeCommits
    <2>2. /\ c \in Holding /\ UNCHANGED <<txs, opening>> /\ state \in ConnStates \ {"opening"}
          /\ conns[c].state \notin {"open", "closing"}
      BY <1>2 DEF UpgradeCommits, Holding, ConnStates
    <2>3. DOMAIN backend' = DOMAIN EmptyDatabase /\ backend'.level # "disconnected"
      BY <1>2 DEF UpgradeCommits, Exclusive, EmptyDatabase
    <2>. QED
      BY <2>1, <2>2, <2>3, OneConnectionMoves
  <1>3. CASE CloseDatabase(c)
    <2>1. /\ c \in Holding /\ UNCHANGED <<txs, opening, backend>> /\ "closing" \in ConnStates \ {"opening"}
          /\ conns' = [conns EXCEPT ![c].state = "closing"]
      BY <1>3 DEF CloseDatabase, Holding, ConnStates
    <2>2. DOMAIN backend' = DOMAIN EmptyDatabase /\ backend'.level # "disconnected"
      BY <2>1 DEF Exclusive, HoldersOK
    <2>. QED
      BY <2>1, <2>2, OneConnectionMoves
  <1>. QED
    BY <1>1, <1>2, <1>3, OpenExclusive, CloseExclusive DEF Connection

LEMMA TransactionExclusive ==
  ASSUME Exclusive, OutcomeOK, NEW t \in Txs, Transaction(t)
  PROVE  Exclusive'
  <1>1. PICK c \in Conns, mode \in {"readonly", "readwrite"} :
          /\ conns[c].state = "open"
          /\ txs' = [txs EXCEPT ![t] = [NoTx EXCEPT !.conn = c, !.mode = mode, !.state = "active",
                                       !.task = "queued", !.f = "running", !.promise = "pending"]]
    BY DEF Transaction
  <1>2. txs'[t].conn = c /\ \A u \in Txs \ {t} : txs'[u] = txs[u]
    BY <1>1 DEF OutcomeOK, NoTx
  <1>3. \A u \in Txs : txs'[u].state \in Live => /\ txs'[u].conn \in Conns
                                                 /\ conns[txs'[u].conn].state \in {"open", "closing"}
    BY <1>1, <1>2, LiveIsHeld
  <1>4. UNCHANGED <<backend, conns, opening>>
    BY DEF Transaction
  <1>5. HoldersOK' /\ Holding' = Holding
    BY <1>4 DEF Exclusive, HoldersOK, Holding
  <1>6. ConnectionsExclude'
    BY <1>3, <1>4 DEF Exclusive, ConnectionsExclude, Live
  <1>. QED
    BY <1>3, <1>4, <1>5, <1>6 DEF Exclusive

LEMMA CrashExclusive ==
  ASSUME Crash
  PROVE  Exclusive'
  <1>1. /\ conns' = [c \in Conns |-> [state |-> "none", wants |-> Undef]] /\ opening' = <<>>
        /\ DOMAIN backend' = DOMAIN EmptyDatabase
    BY DEF Crash
  <1>2. \A t \in Txs : txs'[t].state \in {"none", "finished"}
    BY DEF Crash, Over, NoTx
  <1>3. Holding' = {} /\ HoldersOK'
    BY <1>1 DEF Holding, HoldersOK
  <1>4. ConnectionsExclude'
    BY <1>1, <1>2 DEF ConnectionsExclude
  <1>5. conns' \in [Conns -> [state : ConnStates, wants : Versions \cup {Undef}]] /\ opening' \in Seq(Conns)
    BY <1>1 DEF ConnStates
  <1>. QED
    BY <1>1, <1>2, <1>3, <1>4, <1>5 DEF Exclusive, Live

LEMMA ExclusiveInductive == OutcomeOK /\ Exclusive /\ [Next]_vars => Exclusive'
  <1>1. ASSUME OutcomeOK, Exclusive, Next
        PROVE  Exclusive'
    <2>1. DOMAIN backend = DOMAIN EmptyDatabase
      BY <1>1 DEF Exclusive
    <2>2. ASSUME NEW t \in Txs, \/ MakeRequest(t) \/ RunRequest(t) \/ Throws(t)
          PROVE  Exclusive'
      <3>1. /\ DOMAIN txs = Txs /\ DOMAIN txs[t] = DOMAIN NoTx /\ txs[t].state = "active"
            /\ UNCHANGED <<conns, opening>>
        BY <1>1, <2>2 DEF OutcomeOK, ToldOK, MakeRequest, RunRequest, Throws
      <3>2. CASE \E task : Abort(t, task)
        BY <1>1, <2>1, <3>1, <3>2, AbortGoesOn, QuietExclusive
      <3>3. CASE ~\E task : Abort(t, task)
        <4>1. \A u \in Txs : txs'[u].state = txs[u].state /\ txs'[u].conn = txs[u].conn
          <5>1. CASE MakeRequest(t)
            BY <3>1, <5>1 DEF MakeRequest, NoTx
          <5>2. CASE RunRequest(t)
            <6>. DEFINE req == Head(txs[t].requests)
                        result == Performed(backend.modified, req)
            <6>1. txs' = [txs EXCEPT ![t].requests = Tail(@), ![t].f = Heard(@), ![t].after = result.after,
                             ![t].history = Append(@, [req |-> req, answer |-> result.answer]),
                             ![t].task = IF Len(txs[t].requests) > 1 THEN "runs" ELSE "queued"]
              BY <3>3, <5>2 DEF RunRequest
            <6>. HIDE DEF result
            <6>. QED
              BY <3>1, <6>1 DEF NoTx
          <5>3. ~Throws(t)
            BY <3>3 DEF Throws
          <5>. QED
            BY <2>2, <5>1, <5>2, <5>3
        <4>2. DOMAIN backend' = DOMAIN EmptyDatabase /\ backend'.level = backend.level
          <5>1. backend' = backend \/ \E store : backend' = [backend EXCEPT !.modified = store]
            BY <2>2, <3>3 DEF MakeRequest, RunRequest, Throws
          <5>. QED
            BY <2>1, <5>1 DEF EmptyDatabase
        <4>3. Exclusive'
          <5>1. \A u \in Txs : txs'[u].state \in Live =>
                   /\ txs'[u].conn \in Conns /\ conns[txs'[u].conn].state \in {"open", "closing"}
            BY <1>1, <4>1, LiveIsHeld
          <5>2. HoldersOK' /\ Holding' = Holding
            BY <1>1, <3>1, <4>2 DEF Exclusive, HoldersOK, Holding
          <5>3. ConnectionsExclude'
            BY <1>1, <3>1, <5>1 DEF Exclusive, ConnectionsExclude, Live
          <5>. QED
            BY <1>1, <3>1, <4>2, <5>1, <5>2, <5>3 DEF Exclusive
        <4>. QED
          BY <4>3
      <3>. QED
        BY <3>2, <3>3
    <2>3. ASSUME NEW t \in Txs, Function(t) \/ ComesBack(t) \/ Started(t) \/ Complete(t) \/ AbortEvent(t)
          PROVE  Exclusive'
      BY <1>1, <2>1, <2>2, <2>3, OthersGoOn, CommitGoesOn, QuietExclusive DEF Function, Started
    <2>4. CASE Dump
      <3>1. \A u \in Txs : DOMAIN txs[u] = DOMAIN NoTx
        BY <1>1 DEF OutcomeOK, ToldOK
      <3>2. UNCHANGED <<backend, conns, opening>> /\ \A u \in Txs : GoesOn(txs[u], txs'[u])
        BY <2>4, <3>1 DEF Dump, GoesOn, NoTx
      <3>. QED
        BY <1>1, <2>1, <3>2, QuietExclusive
    <2>. QED
      BY <1>1, <2>3, <2>4, ConnectionExclusive, TransactionExclusive, CrashExclusive DEF Next
  <1>2. ASSUME Exclusive, UNCHANGED vars
        PROVE  Exclusive'
    <2>1. \A u \in Txs : GoesOn(txs[u], txs'[u])
      BY <1>2 DEF vars, GoesOn
    <2>. QED
      BY <1>2, <2>1, QuietExclusive DEF vars, Exclusive
  <1>. QED
    BY <1>1, <1>2

LEMMA InitExclusive == Init => Exclusive
  <1>1. ASSUME Init
        PROVE  Exclusive
    <2>1. /\ conns = [c \in Conns |-> [state |-> "none", wants |-> Undef]] /\ opening = <<>>
          /\ DOMAIN backend = DOMAIN EmptyDatabase /\ \A t \in Txs : txs[t].state = "none"
      BY <1>1 DEF Init, NoTx
    <2>2. Holding = {} /\ HoldersOK
      BY <2>1 DEF Holding, HoldersOK
    <2>3. ConnectionsExclude
      BY <2>1 DEF ConnectionsExclude
    <2>4. conns \in [Conns -> [state : ConnStates, wants : Versions \cup {Undef}]] /\ opening \in Seq(Conns)
      BY <2>1 DEF ConnStates
    <2>. QED
      BY <2>1, <2>2, <2>3, <2>4 DEF Exclusive, Live
  <1>. QED
    BY <1>1

-----------------------------------------------------------------------------
(* Records and their index                                                 *)

\* What a record has under the index's key path.
IndexKey(data, k) == data[k].by[1]
Indexable(data) ==
  \A k \in DOMAIN data : /\ DOMAIN data[k] = {"key", "by", "body"}
                        /\ \E v \in Values : v.key = k /\ v.by = data[k].by

LEMMA IndexKeyIs ==
  ASSUME OneIndexKey, NEW data, Indexable(data), NEW k \in DOMAIN data
  PROVE  /\ data[k].by = <<IndexKey(data, k)>> /\ IndexKey(data, k) # Undef
         /\ k \in Int /\ k \in Keys /\ k # Undef
  <1>1. PICK v \in Values : v.key = k /\ v.by = data[k].by
    BY DEF Indexable
  <1>2. PICK i : i # Undef /\ v.by = <<i>>
    BY DEF OneIndexKey
  <1>3. k \in Keys
    BY <1>1 DEF Keys
  <1>4. k \in Int /\ k # Undef
    BY <1>3 DEF OneIndexKey
  <1>5. IndexKey(data, k) = i /\ data[k].by = <<i>>
    BY <1>1, <1>2 DEF IndexKey
  <1>. QED
    BY <1>2, <1>3, <1>4, <1>5

LEMMA SetOfOne ==
  ASSUME NEW i
  PROVE  ToSet(<<i>>) = {i}
  BY DEF ToSet

LEMMA IndexOfIs ==
  ASSUME OneIndexKey, NEW data, Indexable(data)
  PROVE  IndexOf(data) = [i \in {IndexKey(data, k) : k \in DOMAIN data} |->
                            {k \in DOMAIN data : IndexKey(data, k) = i}]
  <1>1. \A k \in DOMAIN data : ToSet(data[k].by) = {IndexKey(data, k)}
    BY IndexKeyIs, SetOfOne
  <1>2. ToSet(data) = {data[k] : k \in DOMAIN data}
    BY DEF ToSet
  <1>3. UNION {ToSet(v.by) : v \in ToSet(data)} = {IndexKey(data, k) : k \in DOMAIN data}
    BY <1>1, <1>2
  <1>4. \A i : {k \in DOMAIN data : i \in ToSet(data[k].by)} = {k \in DOMAIN data : IndexKey(data, k) = i}
    BY <1>1
  <1>. QED
    BY <1>3, <1>4 DEF IndexOf

\* A record is stored, and the index gets its entry if it has none.
WithEntry(index, i, key) ==
  IF i \in DOMAIN index /\ key \in index[i] THEN index
  ELSE With(index, i, {key} \cup IF i \in DOMAIN index THEN index[i] ELSE {})

LEMMA InsertedIs ==
  ASSUME NEW index, NEW key, NEW value, NEW i, value.by = <<i>>, i # Undef
  PROVE  InsertIntoIndex(index, Schema, key, value) = [error |-> "none", index |-> WithEntry(index, i, key)]
  <1>. DEFINE new == {n \in DOMAIN value.by : value.by[n] \notin DOMAIN index
                                           \/ key \notin index[value.by[n]]}
              inserted == InsertIntoIndex(index, Schema, key, value)
  <1>1. IndexKeys(Schema, value) = value.by /\ DOMAIN value.by = {1} /\ value.by[1] = i
    BY DEF IndexKeys, Schema
  <1>2. Undef \notin ToSet(value.by) /\ Schema.unique = FALSE
    BY SetOfOne DEF Schema
  <1>3. CASE i \in DOMAIN index /\ key \in index[i]
    <2>1. new = {}
      BY <1>1, <1>3
    <2>2. inserted = [error |-> "none", index |-> index]
      BY <1>1, <1>2, <2>1 DEF InsertIntoIndex
    <2>. QED
      BY <1>3, <2>2 DEF WithEntry
  <1>4. CASE ~(i \in DOMAIN index /\ key \in index[i])
    <2>1. new = {1}
      BY <1>1, <1>4
    <2>2. Max({1}) = 1
      BY DEF Max
    <2>3. inserted = [error |-> "none",
                      index |-> With(index, i, {key} \cup IF i \in DOMAIN index THEN index[i] ELSE {})]
      BY <1>1, <1>2, <2>1, <2>2 DEF InsertIntoIndex
    <2>. QED
      BY <1>4, <2>3 DEF WithEntry
  <1>. QED
    BY <1>3, <1>4

LEMMA WithRecordKeeps ==
  ASSUME OneIndexKey, NEW store, StoreOK(store), NEW key, NEW value, NEW gen,
         DOMAIN value = {"key", "by", "body"}, NEW v \in Values, v.key = key, v.by = value.by
  PROVE  LET r == WithRecord(store, Schema, key, value, gen)
         IN r.error = "none" /\ StoreOK(r.store)
  <1>. DEFINE data == store.data
              newData == With(data, key, value)
              inserted == InsertIntoIndex(store.index, Schema, key, value)
              i == value.by[1]
  <1>1. value.by = <<i>> /\ i # Undef
    BY DEF OneIndexKey
  <1>2. Indexable(data) /\ store.index = IndexOf(data)
    BY DEF StoreOK, Indexable
  <1>3. DOMAIN newData = DOMAIN data \cup {key}
        /\ \A k \in DOMAIN newData : newData[k] = IF k = key THEN value ELSE data[k]
    BY DEF With
  <1>4. Indexable(newData)
    BY <1>2, <1>3 DEF Indexable
  <1>5. inserted = [error |-> "none", index |-> WithEntry(store.index, i, key)]
    <2>. HIDE DEF i
    <2>. QED
      BY <1>1, InsertedIs
  <1>. HIDE DEF inserted, data, newData
  <1>6. store.index = [j \in {IndexKey(data, k) : k \in DOMAIN data} |->
                          {k \in DOMAIN data : IndexKey(data, k) = j}]
    BY <1>2, IndexOfIs
  <1>7. IndexOf(newData) = [j \in {IndexKey(newData, k) : k \in DOMAIN newData} |->
                              {k \in DOMAIN newData : IndexKey(newData, k) = j}]
    BY <1>4, IndexOfIs
  <1>8. /\ IndexKey(newData, key) = i
        /\ \A k \in DOMAIN data : IndexKey(newData, k) = IndexKey(data, k)
    <2>1. IndexKey(newData, key) = i
      BY <1>3 DEF IndexKey
    <2>2. ASSUME NEW k \in DOMAIN data, k = key
          PROVE  IndexKey(data, k) = i
      <3>1. PICK w \in Values : w.key = k /\ w.by = data[k].by
        BY <1>2 DEF Indexable
      <3>2. w.by = v.by
        BY <2>2, <3>1 DEF OneIndexKey
      <3>. QED
        BY <3>1, <3>2 DEF IndexKey
    <2>. QED
      BY <1>3, <2>1, <2>2 DEF IndexKey
  <1>. HIDE DEF i
  <1>9. inserted.index = IndexOf(newData)
    <2>1. key \in DOMAIN data => /\ {IndexKey(newData, k) : k \in DOMAIN newData}
                                       = {IndexKey(data, k) : k \in DOMAIN data}
                                 /\ IndexKey(data, key) = i /\ i \in DOMAIN store.index
                                 /\ key \in store.index[i]
      BY <1>3, <1>6, <1>8
    <2>2. CASE key \in DOMAIN data
      <3>1. IndexOf(newData) = store.index
        BY <1>3, <1>6, <1>7, <1>8, <2>1, <2>2
      <3>. QED
        BY <1>5, <2>1, <2>2, <3>1 DEF WithEntry
    <2>3. CASE key \notin DOMAIN data
      <3>1. ~(i \in DOMAIN store.index /\ key \in store.index[i])
        BY <1>6, <2>3
      <3>2. inserted.index = With(store.index, i,
                                  {key} \cup IF i \in DOMAIN store.index THEN store.index[i] ELSE {})
        BY <1>5, <3>1 DEF WithEntry
      <3>3. {IndexKey(newData, k) : k \in DOMAIN newData} = DOMAIN store.index \cup {i}
        BY <1>3, <1>6, <1>8
      <3>4. ASSUME NEW j \in DOMAIN store.index \cup {i}
            PROVE  {k \in DOMAIN newData : IndexKey(newData, k) = j}
                     = IF j = i THEN {key} \cup IF i \in DOMAIN store.index THEN store.index[i] ELSE {}
                       ELSE store.index[j]
        BY <1>3, <1>6, <1>8, <3>4
      <3>. QED
        BY <1>7, <3>2, <3>3, <3>4 DEF With
    <2>. QED
      BY <2>2, <2>3
  <1>10. WithRecord(store, Schema, key, value, gen)
           = [error |-> "none", store |-> [data |-> newData, index |-> inserted.index, gen |-> gen]]
    BY <1>5 DEF WithRecord, Gives, inserted, data, newData
  <1>11. StoreOK([data |-> newData, index |-> inserted.index, gen |-> gen])
    BY <1>4, <1>9 DEF StoreOK, Indexable
  <1>. QED
    BY <1>10, <1>11

\* The request deletes the key's record alone, and its index entry with it.
LEMMA DeletedIs ==
  ASSUME NEW keys, \A k \in keys : k \in Int, NEW key \in Int, key # Undef
  PROVE  DeletedKeys(keys, Only(key)) = keys \cap {key}
  <1>1. /\ Only(key).lower = key /\ Only(key).upper = key
        /\ Only(key).lowerOpen = FALSE /\ Only(key).upperOpen = FALSE
    BY DEF Only, Bound
  <1>. DEFINE Reached(k) == k > key \/ k = key
              stops == {k \in keys : Reached(k) /\ k > key}
  <1>2. DeletedKeys(keys, Only(key)) = {k \in keys : Reached(k) /\ \A s \in stops : k < s}
    BY <1>1 DEF DeletedKeys
  <1>3. ASSUME NEW k \in keys
        PROVE  (Reached(k) /\ \A s \in stops : k < s) <=> k = key
    <2>1. k \in Int
      OBVIOUS
    <2>2. k > key => k \in stops /\ ~(k < k)
      BY <2>1
    <2>3. \A s \in stops : s > key
      OBVIOUS
    <2>. QED
      BY <2>1, <2>2, <2>3
  <1>. QED
    BY <1>2, <1>3

\* What deleteRecord does to the index for one key after another, as the function
\* that the fold chooses.
Removed(store, k, result) == IF result.error # "none" THEN result
                             ELSE DeleteFromIndex(result.index, Schema, k, store.data[k])
Untouched(store) == [error |-> "none", index |-> store.index]
RemovedOf(g, store, S) ==
  [s \in SUBSET S |-> IF s = {} THEN Untouched(store) ELSE Removed(store, Max(s), g[s \ {Max(s)}])]
Emptied(store, S) == (CHOOSE g : g = RemovedOf(g, store, S))[S]

LEMMA DeleteRecordIs ==
  ASSUME NEW store, NEW range
  PROVE  DeleteRecord(store, Schema, range) =
           LET gone == DeletedKeys(DOMAIN store.data, range)
               emptied == Emptied(store, gone)
           IN IF emptied.error # "none" THEN emptied
              ELSE Gives([store EXCEPT !.data = [k \in DOMAIN store.data \ gone |-> store.data[k]],
                                       !.index = emptied.index])
  BY DEF DeleteRecord, MapThenFoldSet, Emptied, RemovedOf, Removed, Untouched

LEMMA EmptiedOfOne ==
  ASSUME NEW store, NEW key, NEW S \in SUBSET {key}
  PROVE  Emptied(store, S) = IF S = {} THEN Untouched(store) ELSE Removed(store, key, Untouched(store))
  <1>. DEFINE g == CHOOSE g : g = RemovedOf(g, store, S)
              h == [s \in SUBSET S |-> IF s = {} THEN Untouched(store)
                                      ELSE Removed(store, key, Untouched(store))]
  <1>1. \A s \in SUBSET S : s = {} \/ s = {key}
    OBVIOUS
  <1>2. Max({key}) = key
    BY DEF Max
  <1>3. h = RemovedOf(h, store, S)
    <2>1. ASSUME NEW s \in SUBSET S, s # {}
          PROVE  h[s \ {Max(s)}] = Untouched(store) /\ Max(s) = key
      <3>1. s = {key}
        BY <1>1, <2>1
      <3>2. Max(s) = key /\ s \ {Max(s)} = {}
        BY <1>2, <3>1
      <3>3. {} \in SUBSET S
        OBVIOUS
      <3>. QED
        BY <3>2, <3>3
    <2>. HIDE DEF h
    <2>2. \A s \in SUBSET S : h[s] = IF s = {} THEN Untouched(store)
                                     ELSE Removed(store, Max(s), h[s \ {Max(s)}])
      <3>1. \A s \in SUBSET S : h[s] = IF s = {} THEN Untouched(store)
                                       ELSE Removed(store, key, Untouched(store))
        BY DEF h
      <3>. QED
        BY <2>1, <3>1
    <2>3. h = [s \in SUBSET S |-> h[s]]
      BY DEF h
    <2>. QED
      BY <2>2, <2>3 DEF RemovedOf
  <1>. HIDE DEF h
  <1>4. g = RemovedOf(g, store, S)
    BY <1>3
  <1>. HIDE DEF g
  <1>5. \A s \in SUBSET S : g[s] = IF s = {} THEN Untouched(store)
                                   ELSE Removed(store, Max(s), g[s \ {Max(s)}])
    <2>1. \A f : f = RemovedOf(g, store, S) => \A s \in SUBSET S :
            f[s] = IF s = {} THEN Untouched(store) ELSE Removed(store, Max(s), g[s \ {Max(s)}])
      BY DEF RemovedOf
    <2>. QED
      BY <1>4, <2>1
  <1>6. {} \in SUBSET S /\ S \in SUBSET S /\ {key} \ {key} = {}
    OBVIOUS
  <1>7. g[{}] = Untouched(store)
    BY <1>5, <1>6
  <1>8. g[S] = IF S = {} THEN Untouched(store) ELSE Removed(store, key, Untouched(store))
    <2>1. CASE S = {}
      BY <1>7, <2>1
    <2>2. CASE S = {key}
      <3>1. Max(S) = key /\ S \ {Max(S)} = {}
        BY <1>2, <2>2
      <3>2. g[S] = IF S = {} THEN Untouched(store) ELSE Removed(store, Max(S), g[S \ {Max(S)}])
        BY <1>5, <1>6
      <3>. QED
        BY <1>7, <2>2, <3>1, <3>2
    <2>. QED
      BY <1>1, <1>6, <2>1, <2>2
  <1>. QED
    BY <1>8 DEF Emptied, g

\* What is deleted from the index has been there.
LEMMA RemovedIs ==
  ASSUME OneIndexKey, NEW store, StoreOK(store), NEW key \in DOMAIN store.data
  PROVE  LET i == IndexKey(store.data, key)
             index == store.index
         IN Removed(store, key, Untouched(store)) =
              [error |-> "none",
               index |-> IF index[i] = {key} THEN [j \in DOMAIN index \ {i} |-> index[j]]
                         ELSE [index EXCEPT ![i] = index[i] \ {key}]]
  <1>. DEFINE value == store.data[key]
              i == IndexKey(store.data, key)
  <1>1. Indexable(store.data) /\ store.index = IndexOf(store.data)
    BY DEF StoreOK, Indexable
  <1>2. value.by = <<i>> /\ i # Undef
    BY <1>1, IndexKeyIs
  <1>3. i \in DOMAIN store.index
    <2>. DEFINE data == store.data
    <2>. HIDE DEF data
    <2>1. DOMAIN IndexOf(data) = {IndexKey(data, k) : k \in DOMAIN data}
      BY <1>1, IndexOfIs DEF data
    <2>. QED
      BY <1>1, <2>1 DEF data
  <1>4. /\ IndexKeys(Schema, value) = value.by /\ value.by # <<>> /\ Last(value.by) = i
        /\ ToSet(value.by) = {i}
    <2>1. IndexKeys(Schema, value) = value.by
      BY DEF IndexKeys, Schema
    <2>. HIDE DEF i
    <2>. QED
      BY <1>2, <2>1, SetOfOne DEF Last
  <1>5. Removed(store, key, Untouched(store)) = DeleteFromIndex(store.index, Schema, key, value)
    BY DEF Removed, Untouched
  <1>. HIDE DEF i, value
  <1>6. DeleteFromIndex(store.index, Schema, key, value) =
          IF store.index[i] = {key} THEN [error |-> "none",
                                          index |-> [j \in DOMAIN store.index \ {i} |-> store.index[j]]]
          ELSE [error |-> "none", index |-> [store.index EXCEPT ![i] = store.index[i] \ {key}]]
    BY <1>2, <1>3, <1>4 DEF DeleteFromIndex
  <1>. QED
    BY <1>5, <1>6 DEF i

LEMMA DeleteRecordKeeps ==
  ASSUME OneIndexKey, NEW store, StoreOK(store), NEW key \in Keys
  PROVE  LET r == DeleteRecord(store, Schema, Only(key))
         IN r.error = "none" => StoreOK(r.store)
  <1>. DEFINE data == store.data
              gone == DeletedKeys(DOMAIN data, Only(key))
              rest == [k \in DOMAIN data \ gone |-> data[k]]
              emptied == Emptied(store, gone)
  <1>1. Indexable(data) /\ store.index = IndexOf(data)
    BY DEF StoreOK, Indexable
  <1>2. gone = DOMAIN data \cap {key}
    <2>1. key \in Int /\ key # Undef
      BY DEF OneIndexKey
    <2>. HIDE DEF data
    <2>2. \A k \in DOMAIN data : k \in Int
      BY <1>1, IndexKeyIs
    <2>. QED
      BY <2>1, <2>2, DeletedIs
  <1>3. emptied = IF gone = {} THEN Untouched(store) ELSE Removed(store, key, Untouched(store))
    BY <1>2, EmptiedOfOne
  <1>4. Indexable(rest)
    BY <1>1 DEF Indexable
  <1>5. \A k \in DOMAIN rest : IndexKey(rest, k) = IndexKey(data, k)
    BY DEF IndexKey
  <1>6. emptied = [error |-> "none", index |-> IndexOf(rest)]
    <2>1. CASE key \notin DOMAIN data
      <3>1. gone = {} /\ emptied = [error |-> "none", index |-> IndexOf(data)]
        BY <1>1, <1>2, <1>3, <2>1 DEF Untouched
      <3>2. /\ IndexOf(data) = [i \in {IndexKey(data, k) : k \in DOMAIN data} |->
                                  {k \in DOMAIN data : IndexKey(data, k) = i}]
            /\ IndexOf(rest) = [i \in {IndexKey(rest, k) : k \in DOMAIN rest} |->
                                  {k \in DOMAIN rest : IndexKey(rest, k) = i}]
        BY <1>1, <1>4, IndexOfIs
      <3>3. DOMAIN rest = DOMAIN data
        BY <3>1
      <3>. HIDE DEF rest, data, emptied, gone
      <3>4. IndexOf(rest) = IndexOf(data)
        BY <1>5, <3>2, <3>3
      <3>. QED
        BY <3>1, <3>4
    <2>2. CASE key \in DOMAIN data
      <3>. DEFINE index == store.index
                  i == IndexKey(data, key)
      <3>1. gone = {key} /\ DOMAIN rest = DOMAIN data \ {key}
        BY <1>2, <2>2
      <3>2. emptied = [error |-> "none",
                       index |-> IF index[i] = {key} THEN [j \in DOMAIN index \ {i} |-> index[j]]
                                 ELSE [index EXCEPT ![i] = index[i] \ {key}]]
        BY <1>3, <2>2, <3>1, RemovedIs
      <3>3. /\ index = [j \in {IndexKey(data, k) : k \in DOMAIN data} |->
                                  {k \in DOMAIN data : IndexKey(data, k) = j}]
            /\ IndexOf(rest) = [j \in {IndexKey(rest, k) : k \in DOMAIN rest} |->
                                  {k \in DOMAIN rest : IndexKey(rest, k) = j}]
        BY <1>1, <1>4, IndexOfIs
      <3>. HIDE DEF rest, data, emptied, gone, index
      <3>4. i \in DOMAIN index /\ key \in index[i]
        BY <2>2, <3>3
      <3>5. CASE index[i] = {key}
        <4>1. {IndexKey(rest, k) : k \in DOMAIN rest} = DOMAIN index \ {i}
          BY <1>5, <2>2, <3>1, <3>3, <3>5
        <4>2. \A j \in DOMAIN index \ {i} : {k \in DOMAIN rest : IndexKey(rest, k) = j} = index[j]
          BY <1>5, <3>1, <3>3
        <4>3. IndexOf(rest) = [j \in DOMAIN index \ {i} |-> index[j]]
          BY <3>3, <4>1, <4>2
        <4>. QED
          BY <3>2, <3>5, <4>3
      <3>6. CASE index[i] # {key}
        <4>1. PICK other \in index[i] : other # key
          BY <3>4, <3>6
        <4>2. other \in DOMAIN rest /\ IndexKey(rest, other) = i
          BY <1>5, <3>1, <3>3, <3>4, <4>1
        <4>3. {IndexKey(rest, k) : k \in DOMAIN rest} = DOMAIN index
          BY <1>5, <2>2, <3>1, <3>3, <4>2
        <4>4. \A j \in DOMAIN index : {k \in DOMAIN rest : IndexKey(rest, k) = j}
                                     = IF j = i THEN index[i] \ {key} ELSE index[j]
          BY <1>5, <3>1, <3>3
        <4>5. IndexOf(rest) = [index EXCEPT ![i] = index[i] \ {key}]
          BY <3>3, <3>4, <4>3, <4>4
        <4>. QED
          BY <3>2, <3>6, <4>5
      <3>. QED
        BY <3>5, <3>6
    <2>. QED
      BY <2>1, <2>2
  <1>7. DeleteRecord(store, Schema, Only(key)) = Gives([store EXCEPT !.data = rest, !.index = IndexOf(rest)])
    <2>1. DeleteRecord(store, Schema, Only(key)) =
            IF emptied.error # "none" THEN emptied
            ELSE Gives([store EXCEPT !.data = rest, !.index = emptied.index])
      BY DeleteRecordIs
    <2>. HIDE DEF emptied, rest
    <2>. QED
      BY <1>6, <2>1
  <1>. HIDE DEF rest
  <1>8. StoreOK([store EXCEPT !.data = rest, !.index = IndexOf(rest)])
    BY <1>4 DEF StoreOK, Indexable
  <1>. QED
    BY <1>7, <1>8 DEF Gives
\* A request of the host names values and keys of the store.
RequestOK(req) == /\ req.op \in {"get", "getIndexed", "next", "put", "add", "delete", "mutate"}
                  /\ req.op \in {"put", "add"} => req.value \in Values
                  /\ req.op \in {"get", "delete", "mutate"} => req.key \in Keys
                  /\ req.op \in {"getIndexed", "next"} => req.by \in IndexKeyValues
RequestsFit(requests) == \E S : requests \in Seq(S) /\ \A req \in S : RequestOK(req)

LEMMA StoreRecordKeeps ==
  ASSUME OneIndexKey, NEW store, StoreOK(store), NEW value \in Values,
         NEW level \in {"AllowOverwrite", "NoOverwrite"}
  PROVE  LET r == StoreRecord(store, Schema, level, value, Undef)
         IN r.error = "none" => StoreOK(r.store)
  <1>. DEFINE k == StoreKey(Schema, value, Undef, store.gen)
              r == StoreRecord(store, Schema, level, value, Undef)
  <1>1. value.key \in Keys /\ value.key # Undef /\ DOMAIN value = {"key", "by", "body"}
    BY DEF OneIndexKey, Keys
  <1>2. k = [error |-> "none", key |-> value.key, gen |-> store.gen]
    <2>1. Schema.keyPath = TRUE /\ Schema.autoIncrement = FALSE
      BY DEF Schema
    <2>. QED
      BY <1>1, <2>1 DEF StoreKey
  <1>. DEFINE w == WithRecord(store, Schema, value.key, value, store.gen)
  <1>3. w.error = "none" /\ StoreOK(w.store)
    BY <1>1, WithRecordKeeps
  <1>. HIDE DEF w
  <1>4. r = Fails("refusing to overwrite") \/ r = w
    <2>1. level # "UpdateExisting" /\ k.error = "none" /\ k.key = value.key /\ k.gen = store.gen
      BY <1>2
    <2>2. \/ r = Fails("refusing to overwrite")
          \/ r = WithRecord(store, Schema, k.key, value, k.gen)
      <3>1. r = CASE level = "UpdateExisting" ->
                       IF Undef \notin DOMAIN store.data THEN Fails("record does not exist")
                       ELSE WithRecord(store, Schema, Undef, value, store.gen)
                  [] level # "UpdateExisting" /\ k.error # "none" -> k
                  [] level = "NoOverwrite" /\ k.error = "none" /\ k.key \in DOMAIN store.data ->
                       Fails("refusing to overwrite")
                  [] OTHER -> WithRecord(store, Schema, k.key, value, k.gen)
        BY DEF StoreRecord
      <3>. HIDE DEF k, r
      <3>. QED
        BY <2>1, <3>1
    <2>. HIDE DEF k, r
    <2>. QED
      BY <2>1, <2>2 DEF w
  <1>. HIDE DEF r
  <1>5. r.error = "none" => StoreOK(r.store)
    <2>1. Fails("refusing to overwrite").error = "refusing to overwrite"
      BY DEF Fails
    <2>. QED
      BY <1>3, <1>4, <2>1
  <1>. QED
    BY <1>5 DEF r

LEMMA MutateKeeps ==
  ASSUME OneIndexKey, NEW store, StoreOK(store), NEW key, NEW body
  PROVE  LET r == StoreRecord(store, Schema, "UpdateExisting", [store.data[key] EXCEPT !.body = body], key)
         IN r.error = "none" => StoreOK(r.store)
  <1>. DEFINE value == [store.data[key] EXCEPT !.body = body]
              r == StoreRecord(store, Schema, "UpdateExisting", value, key)
              w == WithRecord(store, Schema, key, value, store.gen)
  <1>1. r = IF key \notin DOMAIN store.data THEN Fails("record does not exist") ELSE w
    BY DEF StoreRecord
  <1>2. CASE key \in DOMAIN store.data
    <2>1. PICK v \in Values : v.key = key /\ v.by = store.data[key].by
      BY <1>2 DEF StoreOK
    <2>2. DOMAIN value = {"key", "by", "body"} /\ value.by = v.by
      BY <1>2, <2>1 DEF StoreOK
    <2>. HIDE DEF value
    <2>3. w.error = "none" /\ StoreOK(w.store)
      BY <2>1, <2>2, WithRecordKeeps
    <2>. HIDE DEF r, w
    <2>4. r = w
      BY <1>1, <1>2
    <2>5. StoreOK(r.store)
      BY <2>3, <2>4
    <2>. QED
      BY <2>5 DEF r, value
  <1>3. CASE key \notin DOMAIN store.data
    <2>. HIDE DEF r, w
    <2>1. r.error = "record does not exist"
      BY <1>1, <1>3 DEF Fails
    <2>. QED
      BY <2>1 DEF r
  <1>. QED
    BY <1>2, <1>3

\* Every request that succeeds keeps the index in step.
LEMMA PerformedKeeps ==
  ASSUME OneIndexKey, NEW store, StoreOK(store), NEW req, RequestOK(req),
         Performed(store, req).error = "none"
  PROVE  StoreOK(Performed(store, req).store)
  <1>1. CASE req.op = "put"
    <2>. DEFINE r == StoreRecord(store, Schema, "AllowOverwrite", req.value, Undef)
    <2>1. r.error = "none" => StoreOK(r.store)
      BY <1>1, StoreRecordKeeps DEF RequestOK
    <2>. HIDE DEF r
    <2>2. Performed(store, req) = IF r.error # "none" THEN r
                                  ELSE [error |-> "none", answer |-> req.value.key,
                                        store |-> r.store, after |-> Undef]
      BY <1>1 DEF Performed, r
    <2>. QED
      BY <2>1, <2>2
  <1>2. CASE req.op = "add"
    <2>. DEFINE r == StoreRecord(store, Schema, "NoOverwrite", req.value, Undef)
    <2>1. r.error = "none" => StoreOK(r.store)
      BY <1>2, StoreRecordKeeps DEF RequestOK
    <2>. HIDE DEF r
    <2>2. Performed(store, req) = IF r.error # "none" THEN r
                                  ELSE [error |-> "none", answer |-> req.value.key,
                                        store |-> r.store, after |-> Undef]
      BY <1>2 DEF Performed, r
    <2>. QED
      BY <2>1, <2>2
  <1>3. CASE req.op = "delete"
    <2>. DEFINE r == DeleteRecord(store, Schema, Only(req.key))
    <2>1. r.error = "none" => StoreOK(r.store)
      BY <1>3, DeleteRecordKeeps DEF RequestOK
    <2>. HIDE DEF r
    <2>2. Performed(store, req) = IF r.error # "none" THEN r
                                  ELSE [error |-> "none", answer |-> Undef,
                                        store |-> r.store, after |-> Undef]
      BY <1>3 DEF Performed, r
    <2>. QED
      BY <2>1, <2>2
  <1>4. CASE req.op = "mutate"
    <2>. DEFINE key == Iterate(store, NewCursor(FALSE, Only(req.key), "next")).key
                r == StoreRecord(store, Schema, "UpdateExisting",
                                                [store.data[key] EXCEPT !.body = req.body], key)
    <2>1. r.error = "none" => StoreOK(r.store)
      <3>. HIDE DEF key
      <3>. QED
        BY MutateKeeps
    <2>. HIDE DEF r
    <2>2. \/ Performed(store, req) = [error |-> "none", answer |-> Undef, store |-> store, after |-> Undef]
          \/ Performed(store, req) = IF r.error # "none" THEN r
                                     ELSE [error |-> "none", answer |-> Undef,
                                           store |-> r.store, after |-> Undef]
      BY <1>4 DEF Performed, r
    <2>. QED
      BY <2>1, <2>2
  <1>5. CASE req.op \in {"get", "getIndexed"}
    BY <1>5 DEF Performed
  <1>6. CASE req.op = "next"
    BY <1>6 DEF Performed
  <1>. QED
    BY <1>1, <1>2, <1>3, <1>4, <1>5, <1>6 DEF RequestOK

-----------------------------------------------------------------------------
(* The index through all steps                                             *)

Indexed == /\ IndexesOK /\ DOMAIN backend = DOMAIN EmptyDatabase
           /\ \A t \in Txs : RequestsFit(txs[t].requests)

LEMMA NoRequestsFit == RequestsFit(<<>>)
  <1>1. <<>> \in Seq({}) /\ \A req \in {} : RequestOK(req)
    OBVIOUS
  <1>. DEFINE nobody == {}
  <1>2. <<>> \in Seq(nobody) /\ \A req \in nobody : RequestOK(req)
    BY <1>1
  <1>. HIDE DEF nobody
  <1>. QED
    BY <1>2 DEF RequestsFit

LEMMA MoreRequestsFit ==
  ASSUME NEW requests, RequestsFit(requests), NEW req, RequestOK(req)
  PROVE  RequestsFit(Append(requests, req))
  <1>1. PICK S : requests \in Seq(S) /\ \A q \in S : RequestOK(q)
    BY DEF RequestsFit
  <1>2. requests \in Seq(S \cup {req})
    BY <1>1
  <1>3. Append(requests, req) \in Seq(S \cup {req})
    BY <1>2
  <1>. QED
    BY <1>1, <1>3 DEF RequestsFit

LEMMA FewerRequestsFit ==
  ASSUME NEW requests, RequestsFit(requests), requests # <<>>
  PROVE  RequestOK(Head(requests)) /\ RequestsFit(Tail(requests))
  <1>1. PICK S : requests \in Seq(S) /\ \A q \in S : RequestOK(q)
    BY DEF RequestsFit
  <1>2. Head(requests) \in S /\ Tail(requests) \in Seq(S)
    BY <1>1
  <1>. QED
    BY <1>1, <1>2 DEF RequestsFit

\* No request comes, and no store that is not there already.
LEMMA QuietIndexed ==
  ASSUME Indexed, \A t \in Txs : txs'[t].requests = txs[t].requests \/ txs'[t].requests = <<>>,
         DOMAIN backend' = DOMAIN EmptyDatabase,
         backend'.original \in {backend.original, backend.modified},
         backend'.modified \in {backend.original, backend.modified},
         disk'.store \in {backend.original, disk.store}
  PROVE  Indexed'
  <1>1. \A t \in Txs : RequestsFit(txs'[t].requests)
    BY NoRequestsFit DEF Indexed
  <1>2. StoreOK(backend'.original) /\ StoreOK(backend'.modified) /\ StoreOK(disk'.store)
    BY DEF Indexed, IndexesOK
  <1>. QED
    BY <1>1, <1>2 DEF Indexed, IndexesOK

LEMMA EmptyStoreIsOK == StoreOK(EmptyStore)
  <1>1. DOMAIN <<>> = {}
    OBVIOUS
  <1>2. IndexOf(<<>>) = <<>>
    <2>1. ToSet(<<>>) = {}
      BY <1>1 DEF ToSet
    <2>2. UNION {ToSet(v.by) : v \in ToSet(<<>>)} = {}
      BY <2>1
    <2>3. IndexOf(<<>>) = [i \in {} |-> {k \in DOMAIN <<>> : i \in ToSet(<<>>[k].by)}]
      BY <2>2 DEF IndexOf
    <2>4. \A f : f = [i \in {} |-> {k \in DOMAIN <<>> : i \in ToSet(<<>>[k].by)}] => f = <<>>
      OBVIOUS
    <2>. QED
      BY <2>3, <2>4
  <1>3. DOMAIN EmptyStore = {"data", "index", "gen"} /\ EmptyStore.data = <<>> /\ EmptyStore.index = <<>>
    BY DEF EmptyStore
  <1>. QED
    BY <1>1, <1>2, <1>3 DEF StoreOK

LEMMA MakeRequestIndexed ==
  ASSUME Indexed, OutcomeOK, NEW t \in Txs, MakeRequest(t)
  PROVE  Indexed'
  <1>1. PICK req \in RequestsOf(t), f \in {"waits", "returned"} :
          txs' = [txs EXCEPT ![t].requests = Append(@, req), ![t].f = f]
    BY DEF MakeRequest
  <1>2. RequestOK(req)
    <2>1. req \in Reads(t) \/ req \in Writes
      BY DEF RequestsOf
    <2>. QED
      BY <2>1 DEF Reads, Writes, RequestOK
  <1>3. DOMAIN txs = Txs /\ DOMAIN txs[t] = DOMAIN NoTx
    BY DEF OutcomeOK, ToldOK
  <1>4. txs'[t].requests = Append(txs[t].requests, req) /\ \A u \in Txs \ {t} : txs'[u] = txs[u]
    BY <1>1, <1>3 DEF NoTx
  <1>5. \A u \in Txs : RequestsFit(txs'[u].requests)
    BY <1>2, <1>4, MoreRequestsFit DEF Indexed
  <1>. QED
    BY <1>5 DEF Indexed, IndexesOK, MakeRequest

LEMMA RunRequestIndexed ==
  ASSUME OneIndexKey, Indexed, OutcomeOK, NEW t \in Txs, RunRequest(t)
  PROVE  Indexed'
  <1>. DEFINE req == Head(txs[t].requests)
              result == Performed(backend.modified, req)
  <1>1. /\ txs[t].state = "active" /\ DOMAIN txs = Txs /\ DOMAIN txs[t] = DOMAIN NoTx
        /\ txs[t].requests # <<>> /\ RequestsFit(txs[t].requests) /\ disk' = disk
    BY DEF RunRequest, OutcomeOK, ToldOK, Indexed
  <1>2. CASE Abort(t, "queued")
    <2>1. /\ \A u \in Txs : GoesOn(txs[u], txs'[u])
          /\ DOMAIN backend' = DOMAIN EmptyDatabase /\ backend'.original = backend.original
          /\ backend'.modified \in {backend.original, backend.modified}
      BY <1>1, <1>2, AbortGoesOn DEF Indexed
    <2>. QED
      BY <1>1, <2>1, QuietIndexed DEF GoesOn
  <1>3. CASE ~Abort(t, "queued")
    <2>1. /\ backend' = [backend EXCEPT !.modified = result.store] /\ result.error = "none"
          /\ txs' = [txs EXCEPT ![t].requests = Tail(@), ![t].f = Heard(@), ![t].after = result.after,
                        ![t].history = Append(@, [req |-> req, answer |-> result.answer]),
                        ![t].task = IF Len(txs[t].requests) > 1 THEN "runs" ELSE "queued"]
      BY <1>3 DEF RunRequest
    <2>2. RequestOK(req) /\ RequestsFit(Tail(txs[t].requests))
      BY <1>1, FewerRequestsFit
    <2>3. StoreOK(backend.modified)
      BY DEF Indexed, IndexesOK
    <2>. HIDE DEF req
    <2>4. StoreOK(result.store)
      BY <2>1, <2>2, <2>3, PerformedKeeps
    <2>. HIDE DEF result
    <2>5. txs'[t].requests = Tail(txs[t].requests) /\ \A u \in Txs \ {t} : txs'[u] = txs[u]
      BY <1>1, <2>1 DEF NoTx
    <2>6. \A u \in Txs : RequestsFit(txs'[u].requests)
      BY <2>2, <2>5 DEF Indexed
    <2>7. /\ DOMAIN backend' = DOMAIN EmptyDatabase /\ backend'.modified = result.store
          /\ backend'.original = backend.original
      BY <2>1 DEF Indexed, EmptyDatabase
    <2>. QED
      BY <1>1, <2>4, <2>6, <2>7 DEF Indexed, IndexesOK
  <1>. QED
    BY <1>2, <1>3

LEMMA CrashIndexed ==
  ASSUME Indexed, Crash
  PROVE  Indexed'
  <1>. DEFINE files == {disk} \cup (IF TornWrites /\ dumping # Undef THEN {NoFile} ELSE {})
              Loaded(file) == /\ disk' = file
                              /\ backend' = [EmptyDatabase EXCEPT !.original = file.store,
                                                                  !.modified = file.store,
                                                                  !.version = file.version]
  <1>a. \E file \in files : Loaded(file)
    BY DEF Crash
  <1>b. files \subseteq {disk, NoFile}
    OBVIOUS
  <1>. HIDE DEF files
  <1>1. PICK file \in {disk, NoFile} : Loaded(file)
    BY <1>a, <1>b
  <1>2. StoreOK(file.store)
    BY EmptyStoreIsOK DEF NoFile, Indexed, IndexesOK
  <1>3. /\ DOMAIN backend' = DOMAIN EmptyDatabase /\ backend'.original = file.store
        /\ backend'.modified = file.store
    BY <1>1 DEF EmptyDatabase
  <1>4. \A t \in Txs : txs'[t].requests = <<>>
    BY DEF Crash, Over, NoTx
  <1>. QED
    BY <1>1, <1>2, <1>3, <1>4, NoRequestsFit DEF Indexed, IndexesOK

LEMMA ConnectionIndexed ==
  ASSUME Indexed, NEW c \in Conns, Connection(c)
  PROVE  Indexed'
  <1>1. UNCHANGED <<txs, disk>>
    BY DEF Connection, OpenDatabase, Connected, UpgradeCommits, CloseDatabase, CloseConnection
  <1>2. \/ backend' = backend
        \/ \E level : backend' = [backend EXCEPT !.level = level]
        \/ \E level, version : backend' = [backend EXCEPT !.version = version, !.level = level]
    BY DEF Connection, OpenDatabase, Connected, UpgradeCommits, CloseDatabase, CloseConnection
  <1>3. /\ DOMAIN backend' = DOMAIN EmptyDatabase /\ backend'.original = backend.original
        /\ backend'.modified = backend.modified
    BY <1>2 DEF Indexed, EmptyDatabase
  <1>. QED
    BY <1>1, <1>3, QuietIndexed

LEMMA IndexedInductive ==
  ASSUME OneIndexKey
  PROVE  OutcomeOK /\ Indexed /\ [Next]_vars => Indexed'
  <1>1. ASSUME OutcomeOK, Indexed, Next
        PROVE  Indexed'
    <2>1. DOMAIN backend = DOMAIN EmptyDatabase /\ DOMAIN txs = Txs
      BY <1>1 DEF Indexed, OutcomeOK
    <2>2. ASSUME NEW t \in Txs, Transaction(t)
          PROVE  Indexed'
      <3>1. \A u \in Txs : txs'[u].requests = txs[u].requests \/ txs'[u].requests = <<>>
        BY <2>1, <2>2 DEF Transaction, NoTx
      <3>. QED
        BY <1>1, <2>1, <2>2, <3>1, QuietIndexed DEF Transaction
    <2>3. ASSUME NEW t \in Txs, Throws(t)
          PROVE  Indexed'
      <3>1. /\ \A u \in Txs : GoesOn(txs[u], txs'[u])
            /\ DOMAIN backend' = DOMAIN EmptyDatabase /\ backend'.original = backend.original
            /\ backend'.modified \in {backend.original, backend.modified}
        BY <1>1, <2>1, <2>3, AbortGoesOn DEF Throws
      <3>. QED
        BY <1>1, <2>3, <3>1, QuietIndexed DEF Throws, GoesOn
    <2>4. ASSUME NEW t \in Txs, Function(t) \/ ComesBack(t) \/ Started(t) \/ Complete(t) \/ AbortEvent(t)
          PROVE  Indexed'
      <3>1. CASE Commit(t)
        <4>1. /\ \A u \in Txs : GoesOn(txs[u], txs'[u])
              /\ DOMAIN backend' = DOMAIN EmptyDatabase /\ backend'.original = backend.modified
              /\ backend'.modified = backend.modified /\ UNCHANGED disk
          BY <1>1, <2>1, <3>1, CommitGoesOn
        <4>. QED
          BY <1>1, <4>1, QuietIndexed DEF GoesOn
      <3>2. CASE \/ Returns(t) \/ GoesElsewhere(t) \/ ThrowsTransactionAbort(t) \/ ComesBack(t)
                 \/ Start(t) \/ StartOfFinished(t) \/ Complete(t) \/ AbortEvent(t)
        <4>1. /\ \A u \in Txs : GoesOn(txs[u], txs'[u])
              /\ DOMAIN backend' = DOMAIN EmptyDatabase /\ backend'.original = backend.original
              /\ backend'.modified = backend.modified /\ UNCHANGED disk
          BY <1>1, <2>1, <3>2, OthersGoOn
        <4>. QED
          BY <1>1, <4>1, QuietIndexed DEF GoesOn
      <3>. QED
        BY <1>1, <2>3, <2>4, <3>1, <3>2, MakeRequestIndexed, RunRequestIndexed DEF Function, Started
    <2>5. CASE Dump
      <3>1. \A u \in Txs : DOMAIN txs[u] = DOMAIN NoTx
        BY <1>1 DEF OutcomeOK, ToldOK
      <3>2. UNCHANGED backend /\ \A u \in Txs : txs'[u].requests = txs[u].requests
        BY <2>5, <3>1 DEF Dump, NoTx
      <3>3. disk'.store = backend.original
        BY <2>5 DEF Dump
      <3>. QED
        BY <1>1, <2>1, <3>2, <3>3, QuietIndexed
    <2>. QED
      BY <1>1, <2>2, <2>4, <2>5, ConnectionIndexed, CrashIndexed DEF Next
  <1>2. ASSUME Indexed, UNCHANGED vars
        PROVE  Indexed'
    BY <1>2, QuietIndexed DEF vars, Indexed
  <1>. QED
    BY <1>1, <1>2

LEMMA InitIndexed == Init => Indexed
  BY EmptyStoreIsOK, NoRequestsFit DEF Init, EmptyDatabase, NoFile, NoTx, Indexed, IndexesOK

-----------------------------------------------------------------------------
(* Who owns the database                                                   *)

\* OwnersOK, said of any level, transactions and queue.
Ongoing(ts) == {t \in Txs : ts[t].state = "active" /\ ts[t].begun}
OwnerOK(tx) ==
  /\ tx.state = "none" => tx.task = "none"
  /\ tx.state = "active" /\ tx.task = "runs" => tx.begun
  /\ tx.state = "committing" => tx.task = "none"
  /\ tx.state = "active" /\ ~tx.begun => tx.history = <<>>
QueueOK(ts, queue) ==
  /\ \A n \in DOMAIN queue : ts[queue[n]].task = "waits" /\ ~ts[queue[n]].begun
  /\ \A m, n \in DOMAIN queue : queue[m] = queue[n] => m = n
OwnedOK(level, ts, queue) ==
  /\ \A t, u \in Ongoing(ts) : t = u
  /\ Ongoing(ts) # {} => level \in {"readonly", "readwrite"}
  /\ \A t \in Txs : OwnerOK(ts[t])
  /\ QueueOK(ts, queue)

LEMMA OwnedIsOwners == OwnersOK <=> OwnedOK(backend.level, txs, waiting)
  BY DEF OwnersOK, OwnedOK, Begun, Ongoing, OwnerOK, QueueOK
LEMMA OwnedIsOwnersThen == OwnersOK' <=> OwnedOK(backend'.level, txs', waiting')
  BY DEF OwnersOK, OwnedOK, Begun, Ongoing, OwnerOK, QueueOK

\* A change of a transaction in which it neither begins nor gets into the queue.
Stays(tx, new) ==
  /\ new.state = "active" /\ new.begun => tx.state = "active" /\ tx.begun
  /\ tx.task = "waits" => new.task = "waits" /\ (new.begun <=> tx.begun)
  /\ OwnerOK(new)

LEMMA OwnersStay ==
  ASSUME NEW level, NEW ts, NEW queue, OwnedOK(level, ts, queue), queue \in Seq(Txs),
         NEW level2, NEW us, \A t \in Txs : Stays(ts[t], us[t]),
         Ongoing(us) # {} => level2 = level
  PROVE  OwnedOK(level2, us, queue)
  <1>1. Ongoing(us) \subseteq Ongoing(ts)
    BY DEF Ongoing, Stays
  <1>2. QueueOK(us, queue)
    <2>1. \A n \in DOMAIN queue : queue[n] \in Txs
      OBVIOUS
    <2>. QED
      BY <2>1 DEF QueueOK, OwnedOK, Stays
  <1>. QED
    BY <1>1, <1>2 DEF OwnedOK, Stays

\* When the database is free, the first that waits gets it.
LEMMA FreedIsOwned ==
  ASSUME NEW ts, DOMAIN ts = Txs, NEW queue \in Seq(Txs), OwnedOK("connected", ts, queue),
         \A t \in Txs : ToldOK(ts[t])
  PROVE  LET freed == Freed("connected", ts, queue)
         IN OwnedOK(freed.level, freed.txs, freed.waiting)
  <1>. DEFINE freed == Freed("connected", ts, queue)
  <1>1. CASE queue = <<>>
    BY <1>1 DEF Freed
  <1>2. CASE queue # <<>>
    <2>. DEFINE h == Head(queue)
    <2>1. /\ freed.level = ts[h].mode /\ freed.waiting = Tail(queue)
          /\ freed.txs = [ts EXCEPT ![h].begun = TRUE, ![h].task = "runs"]
      BY <1>2 DEF Freed
    <2>2. /\ h \in Txs /\ h = queue[1] /\ 1 \in DOMAIN queue /\ DOMAIN Tail(queue) = 1..(Len(queue) - 1)
          /\ \A n \in DOMAIN Tail(queue) : /\ n + 1 \in DOMAIN queue /\ Tail(queue)[n] = queue[n + 1]
                                           /\ n + 1 # 1 /\ n \in Nat /\ queue[n + 1] \in Txs
      BY <1>2
    <2>. HIDE DEF h, freed
    <2>3. /\ \A t \in Txs \ {h} : freed.txs[t] = ts[t]
          /\ freed.txs[h].begun = TRUE /\ freed.txs[h].task = "runs" /\ freed.txs[h].state = ts[h].state
          /\ freed.txs[h].history = ts[h].history
      <3>1. DOMAIN ts[h] = DOMAIN NoTx
        BY <2>2 DEF ToldOK
      <3>. QED
        BY <2>1, <2>2, <3>1 DEF NoTx
    <2>4. Ongoing(ts) = {}
      BY DEF OwnedOK
    <2>5. \A t \in Ongoing(freed.txs) : t = h
      BY <2>3, <2>4 DEF Ongoing
    <2>6. h \in Ongoing(freed.txs) => freed.level \in {"readonly", "readwrite"}
      BY <2>1, <2>2, <2>3 DEF Ongoing, ToldOK
    <2>7. ts[h].task = "waits"
      BY <2>2 DEF OwnedOK, QueueOK
    <2>8. \A t \in Txs : OwnerOK(freed.txs[t])
      BY <2>2, <2>3, <2>7 DEF OwnedOK, OwnerOK
    <2>9. QueueOK(freed.txs, freed.waiting)
      <3>1. \A n \in DOMAIN Tail(queue) : Tail(queue)[n] # h
        BY <2>2 DEF OwnedOK, QueueOK
      <3>2. \A n \in DOMAIN Tail(queue) : ts[Tail(queue)[n]].task = "waits" /\ ~ts[Tail(queue)[n]].begun
        BY <2>2 DEF OwnedOK, QueueOK
      <3>3. \A m, n \in DOMAIN Tail(queue) : Tail(queue)[m] = Tail(queue)[n] => m = n
        <4>1. \A m, n \in DOMAIN Tail(queue) : Tail(queue)[m] = Tail(queue)[n] => m + 1 = n + 1
          BY <2>2 DEF OwnedOK, QueueOK
        <4>. QED
          BY <2>2, <4>1
      <3>4. \A n \in DOMAIN Tail(queue) : Tail(queue)[n] \in Txs
        BY <2>2
      <3>. QED
        BY <2>1, <2>3, <3>1, <3>2, <3>3, <3>4 DEF QueueOK
    <2>. QED
      BY <2>5, <2>6, <2>8, <2>9 DEF OwnedOK, freed
  <1>. QED
    BY <1>1, <1>2

LEMMA AbortIsOwned ==
  ASSUME OwnersOK, OutcomeOK, DOMAIN backend = DOMAIN EmptyDatabase, NEW t \in Txs, NEW task,
         Abort(t, task), txs[t].state = "active", txs[t].task = "waits" => task = "waits"
  PROVE  OwnersOK'
  <1>. DEFINE over == [Over(txs[t], "pending") EXCEPT !.aborting = TRUE, !.task = task,
                                             !.begun = txs[t].begun, !.mode = txs[t].mode]
              ts == [txs EXCEPT ![t] = over]
              freed == Freed("connected", ts, waiting)
  <1>1. /\ over.state = "finished" /\ over.task = task /\ over.begun = txs[t].begun
        /\ ToldOK(over)
    <2>1. ~txs[t].stored /\ txs[t].stored = FALSE
      BY DEF OutcomeOK, ToldOK
    <2>2. /\ DOMAIN over = DOMAIN NoTx /\ over.stored = FALSE /\ over.aborting = TRUE
          /\ over.mode = txs[t].mode /\ over.task = task /\ over.begun = txs[t].begun
          /\ over.state = "finished" /\ over.promise = "pending" /\ over.requests = <<>>
      BY <2>1 DEF Over, NoTx
    <2>. QED
      BY <2>2 DEF OutcomeOK, ToldOK
  <1>2. DOMAIN ts = Txs /\ ts[t] = over /\ \A u \in Txs \ {t} : ts[u] = txs[u]
    BY DEF OutcomeOK
  <1>3. \/ /\ txs[t].begun
           /\ backend' = [backend EXCEPT !.modified = backend.original, !.level = freed.level]
           /\ txs' = freed.txs /\ waiting' = freed.waiting
        \/ ~txs[t].begun /\ txs' = ts /\ waiting' = waiting /\ backend' = backend
    BY DEF Abort
  <1>. HIDE DEF ts, over
  <1>4. OwnedOK(backend.level, txs, waiting) /\ waiting \in Seq(Txs)
    BY OwnedIsOwners DEF OutcomeOK
  <1>5. \A u \in Txs : Stays(txs[u], ts[u])
    BY <1>1, <1>2, <1>4 DEF Stays, OwnerOK, OwnedOK
  <1>6. CASE ~txs[t].begun
    <2>1. OwnedOK(backend.level, ts, waiting)
      BY <1>4, <1>5, OwnersStay
    <2>. QED
      BY <1>3, <1>6, <2>1, OwnedIsOwnersThen
  <1>7. CASE txs[t].begun
    <2>1. Ongoing(ts) = {}
      BY <1>1, <1>2, <1>4, <1>7 DEF Ongoing, OwnedOK
    <2>2. OwnedOK("connected", ts, waiting)
      BY <1>4, <1>5, <2>1, OwnersStay
    <2>3. \A u \in Txs : ToldOK(ts[u])
      BY <1>1, <1>2 DEF OutcomeOK
    <2>4. OwnedOK(freed.level, freed.txs, freed.waiting)
      BY <1>2, <1>4, <2>2, <2>3, FreedIsOwned
    <2>. HIDE DEF freed
    <2>5. backend'.level = freed.level
      BY <1>3, <1>7 DEF EmptyDatabase
    <2>. QED
      BY <1>3, <1>7, <2>4, <2>5, OwnedIsOwnersThen
  <1>. QED
    BY <1>6, <1>7

LEMMA CommitIsOwned ==
  ASSUME OwnersOK, OutcomeOK, DOMAIN backend = DOMAIN EmptyDatabase, NEW t \in Txs, Commit(t)
  PROVE  OwnersOK'
  <1>. DEFINE readonly == txs[t].mode = "readonly"
              tx == [txs[t] EXCEPT !.state = "committing", !.task = "none", !.stored = readonly]
              ts == [txs EXCEPT ![t] = tx]
              freed == Freed("connected", ts, waiting)
  <1>1. /\ DOMAIN txs = Txs /\ waiting \in Seq(Txs) /\ txs[t].state = "active" /\ txs[t].requests = <<>>
        /\ DOMAIN txs[t] = DOMAIN NoTx /\ ToldOK(txs[t]) /\ \A u \in Txs : ToldOK(txs[u])
        /\ txs[t].task = "runs"
    BY DEF Commit, OutcomeOK, ToldOK
  <1>2. /\ txs' = freed.txs
        /\ backend' = [backend EXCEPT !.original = backend.modified, !.level = freed.level]
        /\ waiting' = freed.waiting
    <2>1. ts = [txs EXCEPT ![t].state = "committing", ![t].task = "none",
                           ![t].stored = txs[t].mode = "readonly"]
      BY <1>1 DEF NoTx
    <2>. QED
      BY <2>1 DEF Commit
  <1>3. /\ DOMAIN tx = DOMAIN NoTx /\ tx.state = "committing" /\ tx.requests = <<>> /\ tx.task = "none"
        /\ tx.aborting = txs[t].aborting /\ tx.promise = txs[t].promise /\ tx.mode = txs[t].mode
        /\ tx.stored = readonly
    BY <1>1 DEF NoTx
  <1>4. DOMAIN ts = Txs /\ ts[t] = tx /\ \A u \in Txs \ {t} : ts[u] = txs[u]
    BY <1>1
  <1>. HIDE DEF tx, ts
  <1>5. \A u \in Txs : ToldOK(ts[u])
    <2>1. ToldOK(tx)
      BY <1>1, <1>3 DEF ToldOK
    <2>. QED
      BY <1>1, <1>4, <2>1
  <1>6. OwnedOK(backend.level, txs, waiting)
    BY OwnedIsOwners
  <1>7. \A u \in Txs : Stays(txs[u], ts[u])
    BY <1>1, <1>3, <1>4, <1>6 DEF Stays, OwnerOK, OwnedOK
  <1>8. Ongoing(ts) = {}
    BY <1>1, <1>3, <1>4, <1>6 DEF Ongoing, OwnedOK, OwnerOK
  <1>9. OwnedOK("connected", ts, waiting)
    BY <1>1, <1>6, <1>7, <1>8, OwnersStay
  <1>10. OwnedOK(freed.level, freed.txs, freed.waiting)
    BY <1>1, <1>4, <1>5, <1>9, FreedIsOwned
  <1>. HIDE DEF freed
  <1>11. backend'.level = freed.level
    BY <1>2 DEF EmptyDatabase
  <1>. QED
    BY <1>2, <1>10, <1>11, OwnedIsOwnersThen

\* A step in which nobody begins and the queue does not change.
LEMMA QuietOwners ==
  ASSUME OwnersOK, OutcomeOK, \A t \in Txs : Stays(txs[t], txs'[t]), waiting' = waiting,
         backend'.level = backend.level
  PROVE  OwnersOK'
  <1>1. OwnedOK(backend.level, txs, waiting) /\ waiting \in Seq(Txs)
    BY OwnedIsOwners DEF OutcomeOK
  <1>2. OwnedOK(backend.level, txs', waiting)
    BY <1>1, OwnersStay
  <1>. QED
    BY <1>2, OwnedIsOwnersThen

LEMMA ConnectionOwners ==
  ASSUME OwnersOK, OutcomeOK, Exclusive, NEW c \in Conns, Connection(c)
  PROVE  OwnersOK'
  <1>1. UNCHANGED <<txs, waiting>>
    BY DEF Connection, OpenDatabase, Connected, UpgradeCommits, CloseDatabase, CloseConnection
  <1>2. ASSUME Begun # {}
        PROVE  backend'.level = backend.level
    <2>1. backend.level \in {"readonly", "readwrite"}
      BY <1>2 DEF OwnersOK
    <2>2. PICK t \in Txs : txs[t].state = "active"
      BY <1>2 DEF Begun
    <2>3. txs[t].conn \in Conns /\ conns[txs[t].conn].state \in {"open", "closing"}
      BY <2>2, LiveIsHeld DEF Live
    <2>4. conns[c].state \notin {"connected", "upgrading"}
      BY <2>3, HeldOnce DEF Holding
    <2>5. OpenDatabase(c) \/ CloseDatabase(c) \/ CloseConnection(c)
      BY <2>4 DEF Connection, Connected, UpgradeCommits
    <2>. QED
      BY <2>1, <2>5 DEF OpenDatabase, CloseDatabase, CloseConnection
  <1>3. OwnedOK(backend.level, txs, waiting)
    BY OwnedIsOwners
  <1>4. Begun = Ongoing(txs)
    BY DEF Begun, Ongoing
  <1>5. OwnedOK(backend'.level, txs', waiting')
    BY <1>1, <1>2, <1>3, <1>4 DEF OwnedOK
  <1>. QED
    BY <1>5, OwnedIsOwnersThen

LEMMA TransactionOwners ==
  ASSUME OwnersOK, OutcomeOK, NEW t \in Txs, Transaction(t)
  PROVE  OwnersOK'
  <1>1. PICK c \in Conns, mode \in {"readonly", "readwrite"} :
          txs' = [txs EXCEPT ![t] = [NoTx EXCEPT !.conn = c, !.mode = mode, !.state = "active",
                                       !.task = "queued", !.f = "running", !.promise = "pending"]]
    BY DEF Transaction
  <1>2. /\ \A u \in Txs \ {t} : txs'[u] = txs[u]
        /\ txs'[t].state = "active" /\ txs'[t].begun = FALSE /\ txs'[t].task = "queued"
        /\ txs'[t].history = <<>>
    BY <1>1 DEF OutcomeOK, NoTx
  <1>3. txs[t].state = "none" /\ UNCHANGED <<backend, waiting>>
    BY DEF Transaction
  <1>4. \A u \in Txs : OwnerOK(txs[u])
    BY OwnedIsOwners DEF OwnedOK
  <1>5. \A u \in Txs : Stays(txs[u], txs'[u])
    BY <1>2, <1>3, <1>4 DEF Stays, OwnerOK
  <1>. QED
    BY <1>3, <1>5, QuietOwners

LEMMA StartOwners ==
  ASSUME OwnersOK, OutcomeOK, DOMAIN backend = DOMAIN EmptyDatabase, NEW t \in Txs, Start(t)
  PROVE  OwnersOK'
  <1>1. /\ DOMAIN txs = Txs /\ DOMAIN txs[t] = DOMAIN NoTx /\ waiting \in Seq(Txs)
        /\ txs[t].task = "queued" /\ ToldOK(txs[t])
    BY DEF Start, OutcomeOK, ToldOK
  <1>2. OwnedOK(backend.level, txs, waiting) /\ \A u \in Txs : OwnerOK(txs[u])
    BY OwnedIsOwners DEF OwnedOK
  <1>3. CASE txs[t].begun
    <2>1. txs' = [txs EXCEPT ![t].task = "runs"] /\ UNCHANGED <<backend, waiting>>
      BY <1>3 DEF Start
    <2>2. /\ \A u \in Txs \ {t} : txs'[u] = txs[u]
          /\ txs'[t].task = "runs" /\ txs'[t].begun = txs[t].begun /\ txs'[t].state = txs[t].state
      BY <1>1, <2>1 DEF NoTx
    <2>3. \A u \in Txs : Stays(txs[u], txs'[u])
      BY <1>1, <1>2, <1>3, <2>2 DEF Stays, OwnerOK
    <2>. QED
      BY <2>1, <2>3, QuietOwners
  <1>4. CASE ~txs[t].begun /\ backend.level = "connected"
    <2>1. /\ txs' = [txs EXCEPT ![t].task = "runs", ![t].begun = TRUE] /\ UNCHANGED waiting
          /\ backend' = [backend EXCEPT !.level = txs[t].mode]
      BY <1>4 DEF Start
    <2>2. /\ \A u \in Txs \ {t} : txs'[u] = txs[u]
          /\ txs'[t].task = "runs" /\ txs'[t].begun = TRUE /\ txs'[t].state = txs[t].state
          /\ txs'[t].history = txs[t].history /\ backend'.level = txs[t].mode
      BY <1>1, <2>1 DEF NoTx, EmptyDatabase
    <2>3. Ongoing(txs) = {}
      BY <1>2, <1>4 DEF OwnedOK
    <2>4. \A u \in Ongoing(txs') : u = t /\ txs[t].state = "active"
      BY <2>2, <2>3 DEF Ongoing
    <2>5. \A u \in Txs : OwnerOK(txs'[u])
      BY <1>1, <1>2, <2>2 DEF OwnerOK
    <2>6. QueueOK(txs', waiting')
      <3>1. \A n \in DOMAIN waiting : waiting[n] \in Txs /\ waiting[n] # t
        BY <1>1, <1>2 DEF OwnedOK, QueueOK
      <3>2. \A n \in DOMAIN waiting : txs'[waiting[n]] = txs[waiting[n]]
        BY <2>2, <3>1
      <3>3. QueueOK(txs, waiting) /\ waiting' = waiting
        BY <1>2, <2>1 DEF OwnedOK
      <3>. QED
        BY <3>2, <3>3 DEF QueueOK
    <2>7. OwnedOK(backend'.level, txs', waiting')
      BY <1>1, <2>2, <2>4, <2>5, <2>6 DEF OwnedOK, ToldOK
    <2>. QED
      BY <2>7, OwnedIsOwnersThen
  <1>5. CASE ~txs[t].begun /\ backend.level # "connected"
    <2>1. /\ txs' = [txs EXCEPT ![t].task = "waits"] /\ UNCHANGED backend
          /\ waiting' = Append(waiting, t)
      BY <1>5 DEF Start
    <2>2. /\ \A u \in Txs \ {t} : txs'[u] = txs[u]
          /\ txs'[t].task = "waits" /\ txs'[t].begun = txs[t].begun /\ txs'[t].state = txs[t].state
          /\ txs'[t].history = txs[t].history
      BY <1>1, <2>1 DEF NoTx
    <2>3. \A u \in Txs : Stays(txs[u], txs'[u])
      BY <1>1, <1>2, <1>5, <2>2 DEF Stays, OwnerOK
    <2>4. OwnedOK(backend.level, txs', waiting)
      BY <1>1, <1>2, <2>3, OwnersStay
    <2>5. /\ DOMAIN waiting' = 1..(Len(waiting) + 1) /\ waiting'[Len(waiting) + 1] = t
          /\ DOMAIN waiting = 1..Len(waiting) /\ \A n \in 1..Len(waiting) : waiting'[n] = waiting[n]
          /\ Len(waiting) \in Nat
      BY <1>1, <2>1
    <2>6. \A n \in DOMAIN waiting : waiting[n] # t
      BY <1>1, <1>2 DEF OwnedOK, QueueOK
    <2>7. QueueOK(txs', waiting')
      BY <1>5, <2>2, <2>4, <2>5, <2>6 DEF OwnedOK, QueueOK
    <2>8. OwnedOK(backend'.level, txs', waiting')
      BY <2>1, <2>4, <2>7 DEF OwnedOK
    <2>. QED
      BY <2>8, OwnedIsOwnersThen
  <1>. QED
    BY <1>3, <1>4, <1>5

LEMMA RunRequestOwners ==
  ASSUME OwnersOK, OutcomeOK, DOMAIN backend = DOMAIN EmptyDatabase, NEW t \in Txs, RunRequest(t)
  PROVE  OwnersOK'
  <1>. DEFINE req == Head(txs[t].requests)
              result == Performed(backend.modified, req)
  <1>1. /\ txs[t].state = "active" /\ DOMAIN txs[t] = DOMAIN NoTx /\ txs[t].task = "runs" /\ DOMAIN txs = Txs
    BY DEF RunRequest, OutcomeOK, ToldOK
  <1>2. CASE Abort(t, "queued")
    BY <1>1, <1>2, AbortIsOwned
  <1>3. CASE ~Abort(t, "queued")
    <2>1. /\ txs' = [txs EXCEPT ![t].requests = Tail(@), ![t].f = Heard(@), ![t].after = result.after,
                        ![t].history = Append(@, [req |-> req, answer |-> result.answer]),
                        ![t].task = IF Len(txs[t].requests) > 1 THEN "runs" ELSE "queued"]
          /\ waiting' = waiting /\ backend' = [backend EXCEPT !.modified = result.store]
      BY <1>3 DEF RunRequest
    <2>. HIDE DEF result
    <2>2. /\ \A u \in Txs \ {t} : txs'[u] = txs[u]
          /\ txs'[t].task \in {"runs", "queued"} /\ txs'[t].begun = txs[t].begun
          /\ txs'[t].state = txs[t].state /\ backend'.level = backend.level
      BY <1>1, <2>1 DEF NoTx, EmptyDatabase
    <2>3. \A u \in Txs : OwnerOK(txs[u])
      BY OwnedIsOwners DEF OwnedOK
    <2>4. \A u \in Txs : Stays(txs[u], txs'[u])
      BY <1>1, <2>2, <2>3 DEF Stays, OwnerOK
    <2>. QED
      BY <2>1, <2>2, <2>4, QuietOwners
  <1>. QED
    BY <1>2, <1>3

LEMMA OthersOwners ==
  ASSUME OwnersOK, OutcomeOK, NEW t \in Txs,
         \/ MakeRequest(t) \/ Returns(t) \/ GoesElsewhere(t) \/ ThrowsTransactionAbort(t) \/ ComesBack(t)
         \/ StartOfFinished(t) \/ Complete(t) \/ AbortEvent(t)
  PROVE  OwnersOK'
  <1>1. DOMAIN txs = Txs /\ DOMAIN txs[t] = DOMAIN NoTx
    BY DEF OutcomeOK, ToldOK
  <1>2. \A u \in Txs : OwnerOK(txs[u])
    BY OwnedIsOwners DEF OwnedOK
  <1>3. UNCHANGED <<waiting, backend>>
    BY DEF MakeRequest, Returns, GoesElsewhere, ThrowsTransactionAbort, ComesBack, StartOfFinished,
           Complete, AbortEvent
  <1>4. CASE \/ MakeRequest(t) \/ Returns(t) \/ GoesElsewhere(t) \/ ThrowsTransactionAbort(t)
             \/ ComesBack(t) \/ AbortEvent(t)
    <2>1. /\ \A u \in Txs \ {t} : txs'[u] = txs[u]
          /\ txs'[t].task = txs[t].task /\ txs'[t].begun = txs[t].begun
          /\ txs'[t].state = txs[t].state /\ txs'[t].history = txs[t].history
      <3>1. CASE MakeRequest(t)
        BY <1>1, <3>1 DEF NoTx, MakeRequest
      <3>2. CASE Returns(t) \/ GoesElsewhere(t) \/ ThrowsTransactionAbort(t) \/ ComesBack(t)
        BY <1>1, <3>2 DEF NoTx, Returns, GoesElsewhere, ThrowsTransactionAbort, ComesBack
      <3>3. CASE AbortEvent(t)
        BY <1>1, <3>3 DEF NoTx, AbortEvent
      <3>. QED
        BY <1>4, <3>1, <3>2, <3>3
    <2>2. \A u \in Txs : Stays(txs[u], txs'[u])
      BY <1>2, <2>1 DEF Stays, OwnerOK
    <2>. QED
      BY <1>3, <2>2, QuietOwners
  <1>5. CASE StartOfFinished(t) \/ Complete(t)
    <2>1. /\ \A u \in Txs \ {t} : txs'[u] = txs[u]
          /\ txs'[t].task = "none" /\ txs'[t].state = "finished" /\ txs[t].task # "waits"
      <3>1. CASE StartOfFinished(t)
        BY <1>1, <3>1 DEF NoTx, StartOfFinished
      <3>2. CASE Complete(t)
        <4>1. \A promise : Over(txs[t], promise).task = "none" /\ Over(txs[t], promise).state = "finished"
          BY DEF Over, NoTx
        <4>. QED
          BY <1>1, <1>2, <3>2, <4>1 DEF Complete, OwnerOK
      <3>. QED
        BY <1>5, <3>1, <3>2
    <2>2. \A u \in Txs : Stays(txs[u], txs'[u])
      BY <1>2, <2>1 DEF Stays, OwnerOK
    <2>. QED
      BY <1>3, <2>2, QuietOwners
  <1>. QED
    BY <1>4, <1>5

LEMMA OwnersInductive == OutcomeOK /\ Exclusive /\ OwnersOK /\ [Next]_vars => OwnersOK'
  <1>1. ASSUME OutcomeOK, Exclusive, OwnersOK, Next
        PROVE  OwnersOK'
    <2>1. /\ DOMAIN backend = DOMAIN EmptyDatabase
          /\ \A u \in Txs : OwnerOK(txs[u]) /\ DOMAIN txs[u] = DOMAIN NoTx
      BY <1>1, OwnedIsOwners DEF Exclusive, OwnedOK, OutcomeOK, ToldOK
    <2>2. ASSUME NEW t \in Txs, Function(t) \/ ComesBack(t) \/ Started(t) \/ Complete(t) \/ AbortEvent(t)
          PROVE  OwnersOK'
      <3>1. CASE Throws(t)
        BY <1>1, <2>1, <3>1, AbortIsOwned DEF Throws
      <3>. QED
        BY <1>1, <2>1, <2>2, <3>1, StartOwners, RunRequestOwners, CommitIsOwned, OthersOwners
           DEF Function, Started
    <2>3. CASE Dump
      <3>1. \A u \in Txs : txs'[u] = [txs[u] EXCEPT !.stored = @ \/ u = dumping]
        BY <2>3 DEF Dump
      <3>a. \A u \in Txs : /\ txs'[u].state = txs[u].state /\ txs'[u].task = txs[u].task
                            /\ txs'[u].begun = txs[u].begun /\ txs'[u].history = txs[u].history
        BY <2>1, <3>1 DEF NoTx
      <3>2. \A u \in Txs : Stays(txs[u], txs'[u])
        BY <2>1, <3>a DEF Stays, OwnerOK
      <3>. QED
        BY <1>1, <2>3, <3>2, QuietOwners DEF Dump
    <2>4. CASE Crash
      <3>1. \A u \in Txs : txs'[u].state \in {"none", "finished"} /\ txs'[u].task = "none"
        BY <2>4 DEF Crash, Over, NoTx
      <3>2. waiting' = <<>> /\ Ongoing(txs') = {}
        BY <2>4, <3>1 DEF Crash, Ongoing
      <3>3. OwnedOK(backend'.level, txs', waiting')
        BY <3>1, <3>2 DEF OwnedOK, OwnerOK, QueueOK
      <3>. QED
        BY <3>3, OwnedIsOwnersThen
    <2>. QED
      BY <1>1, <2>2, <2>3, <2>4, ConnectionOwners, TransactionOwners DEF Next
  <1>2. ASSUME OutcomeOK, OwnersOK, UNCHANGED vars
        PROVE  OwnersOK'
    BY <1>2 DEF vars, OwnersOK, Begun
  <1>. QED
    BY <1>1, <1>2

LEMMA InitOwners == Init => OwnersOK
  BY DEF Init, NoTx, OwnersOK, Begun

-----------------------------------------------------------------------------
(* Whom those wait for that wait                                           *)

\* WaitersOK, said of any level, transactions and queue.
WaiterOK(tx) ==
  /\ tx.promise = "pending" => tx.state \in {"active", "committing"} \/ tx.aborting
  /\ tx.state = "active" => tx.task \in {"queued", "runs", "waits"}
  /\ tx.task \in {"queued", "waits"} /\ ~tx.begun => tx.state = "active"
InQueue(ts, queue) == \A t \in Txs : ts[t].task = "waits" => \E n \in DOMAIN queue : queue[n] = t
AwaitedOK(level, ts, queue) ==
  /\ \A t \in Txs : WaiterOK(ts[t])
  /\ InQueue(ts, queue)
  /\ level \in Levels
  /\ queue # <<>> => level \in {"readonly", "readwrite"}
  /\ level \in {"readonly", "readwrite"} => Ongoing(ts) # {}
UpgradesOK == backend.level = "versionchange" => \E c \in Conns : conns[c].state = "upgrading"

LEMMA AwaitedIsWaiters == WaitersOK <=> AwaitedOK(backend.level, txs, waiting) /\ UpgradesOK
  BY DEF WaitersOK, AwaitedOK, WaiterOK, InQueue, UpgradesOK, Begun, Ongoing
LEMMA AwaitedIsWaitersThen == WaitersOK' <=> AwaitedOK(backend'.level, txs', waiting') /\ UpgradesOK'
  BY DEF WaitersOK, AwaitedOK, WaiterOK, InQueue, UpgradesOK, Begun, Ongoing

\* A change of the transactions after which the same one goes on.
LEMMA WaitersStay ==
  ASSUME WaitersOK, UNCHANGED <<waiting, conns>>, backend'.level = backend.level,
         \A t \in Txs : /\ WaiterOK(txs'[t])
                        /\ txs'[t].task = "waits" => txs[t].task = "waits"
                        /\ txs[t].state = "active" /\ txs[t].begun => txs'[t].state = "active" /\ txs'[t].begun
  PROVE  WaitersOK'
  <1>1. AwaitedOK(backend.level, txs, waiting) /\ UpgradesOK
    BY AwaitedIsWaiters
  <1>2. Ongoing(txs) \subseteq Ongoing(txs')
    BY DEF Ongoing
  <1>3. AwaitedOK(backend.level, txs', waiting)
    BY <1>1, <1>2 DEF AwaitedOK, InQueue
  <1>4. UpgradesOK'
    BY <1>1 DEF UpgradesOK
  <1>. QED
    BY <1>3, <1>4, AwaitedIsWaitersThen

\* The first that waits gets the database when it is freed, and goes on.
LEMMA FreedIsAwaited ==
  ASSUME NEW ts, DOMAIN ts = Txs, NEW queue \in Seq(Txs), QueueOK(ts, queue), InQueue(ts, queue),
         \A t \in Txs : WaiterOK(ts[t]) /\ ToldOK(ts[t])
  PROVE  LET freed == Freed("connected", ts, queue)
         IN AwaitedOK(freed.level, freed.txs, freed.waiting) /\ freed.level # "versionchange"
  <1>. DEFINE freed == Freed("connected", ts, queue)
  <1>1. CASE queue = <<>>
    BY <1>1 DEF Freed, AwaitedOK, Levels
  <1>2. CASE queue # <<>>
    <2>. DEFINE h == Head(queue)
    <2>1. /\ freed.level = ts[h].mode /\ freed.waiting = Tail(queue)
          /\ freed.txs = [ts EXCEPT ![h].begun = TRUE, ![h].task = "runs"]
      BY <1>2 DEF Freed
    <2>2. /\ h \in Txs /\ h = queue[1] /\ 1 \in DOMAIN queue /\ DOMAIN Tail(queue) = 1..(Len(queue) - 1)
          /\ DOMAIN queue = 1..Len(queue) /\ Len(queue) \in Nat
          /\ \A n \in DOMAIN queue : n # 1 => /\ n - 1 \in DOMAIN Tail(queue)
                                              /\ Tail(queue)[n - 1] = queue[n]
      BY <1>2
    <2>. HIDE DEF h, freed
    <2>3. DOMAIN ts[h] = DOMAIN NoTx
      BY <2>2 DEF ToldOK
    <2>4. /\ \A t \in Txs \ {h} : freed.txs[t] = ts[t]
          /\ freed.txs[h].begun = TRUE /\ freed.txs[h].task = "runs" /\ freed.txs[h].state = ts[h].state
          /\ freed.txs[h].promise = ts[h].promise /\ freed.txs[h].aborting = ts[h].aborting
      BY <2>1, <2>2, <2>3 DEF NoTx
    <2>5. ts[h].task = "waits" /\ ~ts[h].begun
      BY <2>2 DEF QueueOK
    <2>6. ts[h].state = "active"
      BY <2>2, <2>5 DEF WaiterOK
    <2>7. freed.level \in {"readonly", "readwrite"}
      BY <2>1, <2>2, <2>6 DEF ToldOK
    <2>8. Ongoing(freed.txs) # {}
      BY <2>2, <2>4, <2>6 DEF Ongoing
    <2>9. \A t \in Txs : WaiterOK(freed.txs[t])
      BY <2>4, <2>6 DEF WaiterOK
    <2>10. InQueue(freed.txs, freed.waiting)
      <3>1. ASSUME NEW t \in Txs, freed.txs[t].task = "waits"
            PROVE  \E n \in DOMAIN Tail(queue) : Tail(queue)[n] = t
        <4>1. t # h /\ ts[t].task = "waits"
          BY <2>4, <3>1
        <4>2. PICK n \in DOMAIN queue : queue[n] = t
          BY <4>1 DEF InQueue
        <4>3. n # 1
          BY <2>2, <4>1, <4>2
        <4>. QED
          BY <2>2, <4>2, <4>3
      <3>. QED
        BY <2>1, <3>1 DEF InQueue
    <2>. QED
      BY <2>7, <2>8, <2>9, <2>10 DEF AwaitedOK, freed, Levels
  <1>. QED
    BY <1>1, <1>2

LEMMA AbortIsAwaited ==
  ASSUME WaitersOK, OwnersOK, OutcomeOK, DOMAIN backend = DOMAIN EmptyDatabase, NEW t \in Txs, NEW task,
         Abort(t, task), txs[t].state = "active", txs[t].begun, task # "waits", UNCHANGED conns
  PROVE  WaitersOK'
  <1>. DEFINE over == [Over(txs[t], "pending") EXCEPT !.aborting = TRUE, !.task = task,
                                             !.begun = txs[t].begun, !.mode = txs[t].mode]
              ts == [txs EXCEPT ![t] = over]
              freed == Freed("connected", ts, waiting)
  <1>1. /\ over.state = "finished" /\ over.task = task /\ over.begun = txs[t].begun /\ over.aborting = TRUE
        /\ ToldOK(over)
    <2>1. ~txs[t].stored /\ txs[t].stored = FALSE
      BY DEF OutcomeOK, ToldOK
    <2>2. /\ DOMAIN over = DOMAIN NoTx /\ over.stored = FALSE /\ over.aborting = TRUE
          /\ over.mode = txs[t].mode /\ over.task = task /\ over.begun = txs[t].begun
          /\ over.state = "finished" /\ over.promise = "pending" /\ over.requests = <<>>
      BY <2>1 DEF Over, NoTx
    <2>. QED
      BY <2>2 DEF OutcomeOK, ToldOK
  <1>2. DOMAIN ts = Txs /\ ts[t] = over /\ \A u \in Txs \ {t} : ts[u] = txs[u]
    BY DEF OutcomeOK
  <1>3. /\ backend' = [backend EXCEPT !.modified = backend.original, !.level = freed.level]
        /\ txs' = freed.txs /\ waiting' = freed.waiting
    BY DEF Abort
  <1>. HIDE DEF ts, over
  <1>4. OwnedOK(backend.level, txs, waiting) /\ waiting \in Seq(Txs)
    BY OwnedIsOwners DEF OutcomeOK
  <1>5. AwaitedOK(backend.level, txs, waiting)
    BY AwaitedIsWaiters
  <1>6. \A u \in Txs : WaiterOK(ts[u]) /\ ToldOK(ts[u])
    BY <1>1, <1>2, <1>5 DEF WaiterOK, AwaitedOK, OutcomeOK
  <1>7. QueueOK(ts, waiting) /\ InQueue(ts, waiting)
    <2>1. \A n \in DOMAIN waiting : waiting[n] \in Txs
      BY <1>4
    <2>2. \A n \in DOMAIN waiting : waiting[n] # t
      BY <1>4 DEF OwnedOK, QueueOK
    <2>3. QueueOK(ts, waiting)
      BY <1>2, <1>4, <2>1, <2>2 DEF OwnedOK, QueueOK
    <2>4. InQueue(ts, waiting)
      BY <1>1, <1>2, <1>5 DEF AwaitedOK, InQueue
    <2>. QED
      BY <2>3, <2>4
  <1>8. AwaitedOK(freed.level, freed.txs, freed.waiting) /\ freed.level # "versionchange"
    BY <1>2, <1>4, <1>6, <1>7, FreedIsAwaited
  <1>. HIDE DEF freed
  <1>9. backend'.level = freed.level
    BY <1>3 DEF EmptyDatabase
  <1>. QED
    BY <1>3, <1>8, <1>9, AwaitedIsWaitersThen DEF UpgradesOK

LEMMA CommitIsAwaited ==
  ASSUME WaitersOK, OwnersOK, OutcomeOK, DOMAIN backend = DOMAIN EmptyDatabase, NEW t \in Txs, Commit(t)
  PROVE  WaitersOK'
  <1>. DEFINE readonly == txs[t].mode = "readonly"
              tx == [txs[t] EXCEPT !.state = "committing", !.task = "none", !.stored = readonly]
              ts == [txs EXCEPT ![t] = tx]
              freed == Freed("connected", ts, waiting)
  <1>1. /\ DOMAIN txs = Txs /\ waiting \in Seq(Txs) /\ txs[t].state = "active" /\ txs[t].requests = <<>>
        /\ DOMAIN txs[t] = DOMAIN NoTx /\ ToldOK(txs[t]) /\ \A u \in Txs : ToldOK(txs[u])
        /\ txs[t].task = "runs"
    BY DEF Commit, OutcomeOK, ToldOK
  <1>2. /\ txs' = freed.txs
        /\ backend' = [backend EXCEPT !.original = backend.modified, !.level = freed.level]
        /\ waiting' = freed.waiting /\ UNCHANGED conns
    <2>1. ts = [txs EXCEPT ![t].state = "committing", ![t].task = "none",
                           ![t].stored = txs[t].mode = "readonly"]
      BY <1>1 DEF NoTx
    <2>. QED
      BY <2>1 DEF Commit
  <1>3. /\ DOMAIN tx = DOMAIN NoTx /\ tx.state = "committing" /\ tx.requests = <<>> /\ tx.task = "none"
        /\ tx.aborting = txs[t].aborting /\ tx.promise = txs[t].promise /\ tx.mode = txs[t].mode
        /\ tx.stored = readonly
    BY <1>1 DEF NoTx
  <1>4. DOMAIN ts = Txs /\ ts[t] = tx /\ \A u \in Txs \ {t} : ts[u] = txs[u]
    BY <1>1
  <1>. HIDE DEF tx, ts
  <1>5. OwnedOK(backend.level, txs, waiting) /\ AwaitedOK(backend.level, txs, waiting)
    BY OwnedIsOwners, AwaitedIsWaiters
  <1>6. \A u \in Txs : WaiterOK(ts[u]) /\ ToldOK(ts[u])
    <2>1. ToldOK(tx) /\ WaiterOK(tx)
      BY <1>1, <1>3 DEF ToldOK, WaiterOK
    <2>. QED
      BY <1>1, <1>4, <1>5, <2>1 DEF AwaitedOK
  <1>7. QueueOK(ts, waiting) /\ InQueue(ts, waiting)
    <2>1. \A n \in DOMAIN waiting : waiting[n] \in Txs
      BY <1>1
    <2>2. \A n \in DOMAIN waiting : waiting[n] # t
      BY <1>1, <1>5 DEF OwnedOK, QueueOK
    <2>3. QueueOK(ts, waiting)
      BY <1>4, <1>5, <2>1, <2>2 DEF OwnedOK, QueueOK
    <2>4. InQueue(ts, waiting)
      BY <1>3, <1>4, <1>5 DEF AwaitedOK, InQueue
    <2>. QED
      BY <2>3, <2>4
  <1>8. AwaitedOK(freed.level, freed.txs, freed.waiting) /\ freed.level # "versionchange"
    BY <1>1, <1>4, <1>6, <1>7, FreedIsAwaited
  <1>. HIDE DEF freed
  <1>9. backend'.level = freed.level
    BY <1>2 DEF EmptyDatabase
  <1>. QED
    BY <1>2, <1>8, <1>9, AwaitedIsWaitersThen DEF UpgradesOK

\* As long as a transaction goes on, no connection but its own has the database.
LEMMA NobodyGoesOn ==
  ASSUME OutcomeOK, Exclusive, WaitersOK, NEW c \in Conns, conns[c].state \in {"connected", "upgrading"}
  PROVE  /\ \A t \in Txs : txs[t].state # "active"
         /\ backend.level \notin {"readonly", "readwrite"} /\ waiting = <<>>
  <1>1. ASSUME NEW t \in Txs, txs[t].state = "active"
        PROVE  FALSE
    <2>1. txs[t].conn \in Conns /\ conns[txs[t].conn].state \in {"open", "closing"}
      BY <1>1, LiveIsHeld DEF Live
    <2>. QED
      BY <2>1, HeldOnce DEF Holding
  <1>2. Begun = {}
    BY <1>1 DEF Begun
  <1>. QED
    BY <1>1, <1>2 DEF WaitersOK

LEMMA ConnectionAwaited ==
  ASSUME WaitersOK, OutcomeOK, Exclusive, NEW c \in Conns, Connection(c)
  PROVE  WaitersOK'
  <1>1. UNCHANGED <<txs, waiting>>
    BY DEF Connection, OpenDatabase, Connected, UpgradeCommits, CloseDatabase, CloseConnection
  <1>2. /\ DOMAIN backend = DOMAIN EmptyDatabase /\ opening \in Seq(Conns) /\ DOMAIN conns = Conns
        /\ \A d \in Conns : DOMAIN conns[d] = {"state", "wants"}
        /\ AwaitedOK(backend.level, txs, waiting) /\ UpgradesOK
    BY AwaitedIsWaiters DEF Exclusive
  <1>3. CASE Connected(c)
    <2>1. backend.level \notin {"readonly", "readwrite"} /\ waiting = <<>>
      BY <1>3, NobodyGoesOn DEF Connected
    <2>2. \A d \in Conns \ {c} : conns'[d] = conns[d]
      BY <1>2, <1>3 DEF Connected
    <2>3. \/ backend' = backend
          \/ backend'.level = "versionchange" /\ conns'[c].state = "upgrading"
      BY <1>2, <1>3 DEF Connected, EmptyDatabase
    <2>4. conns[c].state = "connected"
      BY <1>3 DEF Connected
    <2>5. AwaitedOK(backend'.level, txs', waiting')
      BY <1>1, <1>2, <2>1, <2>3 DEF AwaitedOK, Levels
    <2>6. UpgradesOK'
      BY <1>2, <2>2, <2>3, <2>4 DEF UpgradesOK
    <2>. QED
      BY <2>5, <2>6, AwaitedIsWaitersThen
  <1>4. CASE UpgradeCommits(c)
    <2>1. waiting = <<>>
      BY <1>4, NobodyGoesOn DEF UpgradeCommits
    <2>2. backend'.level = "connected"
      BY <1>2, <1>4 DEF UpgradeCommits, EmptyDatabase
    <2>. QED
      BY <1>1, <1>2, <2>1, <2>2, AwaitedIsWaitersThen DEF AwaitedOK, UpgradesOK, Levels
  <1>5. CASE OpenDatabase(c) \/ CloseDatabase(c) \/ CloseConnection(c)
    <2>1. \/ backend' = backend
          \/ backend.level = "disconnected" /\ backend'.level = "connected"
          \/ backend.level = "connected" /\ backend'.level = "disconnected"
      <3>1. CASE OpenDatabase(c)
        BY <1>2, <3>1 DEF OpenDatabase, EmptyDatabase
      <3>2. CASE CloseDatabase(c)
        BY <3>2 DEF CloseDatabase
      <3>3. CASE CloseConnection(c)
        BY <1>2, <3>3 DEF CloseConnection, EmptyDatabase
      <3>. QED
        BY <1>5, <3>1, <3>2, <3>3
    <2>2. \A d \in Conns : conns[d].state = "upgrading" => conns'[d].state = "upgrading"
      <3>1. CASE OpenDatabase(c)
        BY <1>2, <3>1 DEF OpenDatabase
      <3>2. CASE CloseDatabase(c)
        BY <1>2, <3>2 DEF CloseDatabase
      <3>3. CASE CloseConnection(c) /\ opening = <<>>
        BY <1>2, <3>3 DEF CloseConnection
      <3>4. CASE CloseConnection(c) /\ opening # <<>>
        <4>1. Head(opening) = opening[1] /\ 1 \in DOMAIN opening /\ Head(opening) \in Conns
          BY <1>2, <3>4
        <4>2. conns[Head(opening)].state = "opening"
          BY <4>1 DEF Exclusive, HoldersOK
        <4>3. \A d \in Conns \ {c, Head(opening)} : conns'[d] = conns[d]
          BY <1>2, <3>4 DEF CloseConnection
        <4>. QED
          BY <3>4, <4>2, <4>3 DEF CloseConnection
      <3>. QED
        BY <1>5, <3>1, <3>2, <3>3, <3>4
    <2>3. AwaitedOK(backend'.level, txs', waiting')
      BY <1>1, <1>2, <2>1 DEF AwaitedOK, Levels
    <2>4. UpgradesOK'
      BY <1>2, <2>1, <2>2 DEF UpgradesOK
    <2>. QED
      BY <2>3, <2>4, AwaitedIsWaitersThen
  <1>. QED
    BY <1>3, <1>4, <1>5 DEF Connection

LEMMA TransactionAwaited ==
  ASSUME WaitersOK, OutcomeOK, NEW t \in Txs, Transaction(t)
  PROVE  WaitersOK'
  <1>1. PICK c \in Conns, mode \in {"readonly", "readwrite"} :
          txs' = [txs EXCEPT ![t] = [NoTx EXCEPT !.conn = c, !.mode = mode, !.state = "active",
                                       !.task = "queued", !.f = "running", !.promise = "pending"]]
    BY DEF Transaction
  <1>2. /\ \A u \in Txs \ {t} : txs'[u] = txs[u]
        /\ txs'[t].state = "active" /\ txs'[t].task = "queued"
    BY <1>1 DEF OutcomeOK, NoTx
  <1>3. txs[t].state = "none" /\ UNCHANGED <<backend, waiting, conns>>
    BY DEF Transaction
  <1>4. \A u \in Txs : WaiterOK(txs[u])
    BY AwaitedIsWaiters DEF AwaitedOK
  <1>5. WaiterOK(txs'[t])
    BY <1>2 DEF WaiterOK
  <1>. QED
    BY <1>2, <1>3, <1>4, <1>5, WaitersStay

\* The queue is for those that come while another goes on.
LEMMA StartAwaited ==
  ASSUME WaitersOK, OwnersOK, OutcomeOK, Exclusive, NEW t \in Txs, Start(t)
  PROVE  WaitersOK'
  <1>1. /\ DOMAIN txs = Txs /\ DOMAIN txs[t] = DOMAIN NoTx /\ waiting \in Seq(Txs)
        /\ txs[t].task = "queued" /\ ToldOK(txs[t]) /\ UNCHANGED conns
        /\ DOMAIN backend = DOMAIN EmptyDatabase
    BY DEF Start, OutcomeOK, ToldOK, Exclusive
  <1>2. AwaitedOK(backend.level, txs, waiting) /\ UpgradesOK /\ \A u \in Txs : WaiterOK(txs[u])
    BY AwaitedIsWaiters DEF AwaitedOK
  <1>3. CASE txs[t].begun
    <2>1. txs' = [txs EXCEPT ![t].task = "runs"] /\ UNCHANGED <<backend, waiting>>
      BY <1>3 DEF Start
    <2>2. /\ \A u \in Txs \ {t} : txs'[u] = txs[u]
          /\ txs'[t].task = "runs" /\ txs'[t].begun = txs[t].begun /\ txs'[t].state = txs[t].state
          /\ txs'[t].promise = txs[t].promise /\ txs'[t].aborting = txs[t].aborting
      BY <1>1, <2>1 DEF NoTx
    <2>3. WaiterOK(txs'[t])
      BY <1>2, <2>2 DEF WaiterOK
    <2>. QED
      BY <1>1, <1>2, <2>1, <2>2, <2>3, WaitersStay
  <1>4. ASSUME ~txs[t].begun
        PROVE  txs[t].state = "active"
    BY <1>1, <1>2, <1>4 DEF WaiterOK
  <1>5. CASE ~txs[t].begun /\ backend.level = "connected"
    <2>1. /\ txs' = [txs EXCEPT ![t].task = "runs", ![t].begun = TRUE] /\ UNCHANGED waiting
          /\ backend' = [backend EXCEPT !.level = txs[t].mode]
      BY <1>5 DEF Start
    <2>2. /\ \A u \in Txs \ {t} : txs'[u] = txs[u]
          /\ txs'[t].task = "runs" /\ txs'[t].begun = TRUE /\ txs'[t].state = "active"
          /\ txs'[t].promise = txs[t].promise /\ txs'[t].aborting = txs[t].aborting
          /\ backend'.level = txs[t].mode
      BY <1>1, <1>4, <1>5, <2>1 DEF NoTx, EmptyDatabase
    <2>3. backend'.level \in {"readonly", "readwrite"}
      BY <1>1, <1>4, <1>5, <2>2 DEF ToldOK
    <2>4. t \in Ongoing(txs')
      BY <2>2 DEF Ongoing
    <2>5. \A u \in Txs : WaiterOK(txs'[u])
      BY <1>2, <2>2 DEF WaiterOK
    <2>6. InQueue(txs', waiting)
      BY <1>2, <2>2 DEF InQueue, AwaitedOK
    <2>7. AwaitedOK(backend'.level, txs', waiting')
      BY <2>1, <2>3, <2>4, <2>5, <2>6 DEF AwaitedOK, Levels
    <2>. QED
      BY <2>3, <2>7, AwaitedIsWaitersThen DEF UpgradesOK
  <1>6. CASE ~txs[t].begun /\ backend.level # "connected"
    <2>1. /\ txs' = [txs EXCEPT ![t].task = "waits"] /\ UNCHANGED backend
          /\ waiting' = Append(waiting, t)
      BY <1>6 DEF Start
    <2>2. /\ \A u \in Txs \ {t} : txs'[u] = txs[u]
          /\ txs'[t].task = "waits" /\ txs'[t].begun = txs[t].begun /\ txs'[t].state = "active"
          /\ txs'[t].promise = txs[t].promise /\ txs'[t].aborting = txs[t].aborting
      BY <1>1, <1>4, <1>6, <2>1 DEF NoTx
    <2>3. backend.level \in {"readonly", "readwrite"}
      <3>1. txs[t].conn \in Conns /\ conns[txs[t].conn].state \in {"open", "closing"}
        BY <1>4, <1>6, LiveIsHeld DEF Live
      <3>2. backend.level # "disconnected"
        BY <3>1 DEF Exclusive, HoldersOK, Holding
      <3>3. backend.level # "versionchange"
        <4>1. \A c \in Conns : conns[c].state # "upgrading"
          BY <1>4, <1>6, NobodyGoesOn
        <4>. QED
          BY <1>2, <4>1 DEF UpgradesOK
      <3>. QED
        BY <1>2, <1>6, <3>2, <3>3 DEF Levels, AwaitedOK
    <2>4. Ongoing(txs) \subseteq Ongoing(txs')
      BY <1>6, <2>2 DEF Ongoing
    <2>5. InQueue(txs', waiting')
      <3>1. /\ DOMAIN waiting' = 1..(Len(waiting) + 1) /\ waiting'[Len(waiting) + 1] = t
            /\ DOMAIN waiting = 1..Len(waiting) /\ \A n \in 1..Len(waiting) : waiting'[n] = waiting[n]
            /\ Len(waiting) \in Nat
        BY <1>1, <2>1
      <3>2. ASSUME NEW u \in Txs, u # t, txs'[u].task = "waits"
            PROVE  \E n \in DOMAIN waiting' : waiting'[n] = u
        <4>1. PICK n \in DOMAIN waiting : waiting[n] = u
          BY <1>2, <2>2, <3>2 DEF AwaitedOK, InQueue
        <4>. QED
          BY <3>1, <4>1
      <3>. QED
        BY <3>1, <3>2 DEF InQueue
    <2>6. \A u \in Txs : WaiterOK(txs'[u])
      BY <1>2, <2>2 DEF WaiterOK
    <2>7. AwaitedOK(backend'.level, txs', waiting')
      BY <1>2, <2>1, <2>3, <2>4, <2>5, <2>6 DEF AwaitedOK
    <2>. QED
      BY <2>1, <2>3, <2>7, AwaitedIsWaitersThen DEF UpgradesOK
  <1>. QED
    BY <1>3, <1>5, <1>6

LEMMA RunRequestAwaited ==
  ASSUME WaitersOK, OwnersOK, OutcomeOK, DOMAIN backend = DOMAIN EmptyDatabase, NEW t \in Txs, RunRequest(t)
  PROVE  WaitersOK'
  <1>. DEFINE req == Head(txs[t].requests)
              result == Performed(backend.modified, req)
  <1>1. /\ txs[t].state = "active" /\ DOMAIN txs[t] = DOMAIN NoTx /\ txs[t].task = "runs" /\ DOMAIN txs = Txs
        /\ txs[t].begun /\ UNCHANGED conns
    BY DEF RunRequest, OutcomeOK, ToldOK, OwnersOK
  <1>2. CASE Abort(t, "queued")
    BY <1>1, <1>2, AbortIsAwaited
  <1>3. CASE ~Abort(t, "queued")
    <2>1. /\ txs' = [txs EXCEPT ![t].requests = Tail(@), ![t].f = Heard(@), ![t].after = result.after,
                        ![t].history = Append(@, [req |-> req, answer |-> result.answer]),
                        ![t].task = IF Len(txs[t].requests) > 1 THEN "runs" ELSE "queued"]
          /\ waiting' = waiting /\ backend' = [backend EXCEPT !.modified = result.store]
      BY <1>3 DEF RunRequest
    <2>. HIDE DEF result
    <2>2. /\ \A u \in Txs \ {t} : txs'[u] = txs[u]
          /\ txs'[t].task \in {"runs", "queued"} /\ txs'[t].begun = txs[t].begun
          /\ txs'[t].state = txs[t].state /\ backend'.level = backend.level
      BY <1>1, <2>1 DEF NoTx, EmptyDatabase
    <2>3. \A u \in Txs : WaiterOK(txs[u])
      BY AwaitedIsWaiters DEF AwaitedOK
    <2>4. WaiterOK(txs'[t])
      BY <1>1, <2>2 DEF WaiterOK
    <2>. QED
      BY <1>1, <2>1, <2>2, <2>3, <2>4, WaitersStay
  <1>. QED
    BY <1>2, <1>3

\* What a function and the end of a transaction change.
LEMMA OthersAwaited ==
  ASSUME WaitersOK, OwnersOK, OutcomeOK, NEW t \in Txs,
         \/ MakeRequest(t) \/ Returns(t) \/ GoesElsewhere(t) \/ ThrowsTransactionAbort(t) \/ ComesBack(t)
         \/ StartOfFinished(t) \/ Complete(t) \/ AbortEvent(t)
  PROVE  WaitersOK'
  <1>1. DOMAIN txs = Txs /\ DOMAIN txs[t] = DOMAIN NoTx
    BY DEF OutcomeOK, ToldOK
  <1>2. \A u \in Txs : WaiterOK(txs[u])
    BY AwaitedIsWaiters DEF AwaitedOK
  <1>3. UNCHANGED <<waiting, backend, conns>>
    BY DEF MakeRequest, Returns, GoesElsewhere, ThrowsTransactionAbort, ComesBack, StartOfFinished,
           Complete, AbortEvent
  <1>4. CASE \/ MakeRequest(t) \/ Returns(t) \/ GoesElsewhere(t) \/ ThrowsTransactionAbort(t)
             \/ ComesBack(t)
    <2>1. /\ \A u \in Txs \ {t} : txs'[u] = txs[u]
          /\ txs'[t].task = txs[t].task /\ txs'[t].begun = txs[t].begun
          /\ txs'[t].state = txs[t].state /\ txs'[t].promise = txs[t].promise
          /\ txs'[t].aborting = txs[t].aborting
      <3>1. CASE MakeRequest(t)
        BY <1>1, <3>1 DEF NoTx, MakeRequest
      <3>2. CASE Returns(t) \/ GoesElsewhere(t) \/ ThrowsTransactionAbort(t) \/ ComesBack(t)
        BY <1>1, <3>2 DEF NoTx, Returns, GoesElsewhere, ThrowsTransactionAbort, ComesBack
      <3>. QED
        BY <1>4, <3>1, <3>2
    <2>2. WaiterOK(txs'[t])
      BY <1>2, <2>1 DEF WaiterOK
    <2>. QED
      BY <1>2, <1>3, <2>1, <2>2, WaitersStay
  <1>5. CASE AbortEvent(t)
    <2>1. /\ \A u \in Txs \ {t} : txs'[u] = txs[u]
          /\ txs'[t].task = txs[t].task /\ txs'[t].begun = txs[t].begun
          /\ txs'[t].state = txs[t].state /\ txs'[t].promise # "pending"
      BY <1>1, <1>5 DEF NoTx, AbortEvent
    <2>2. WaiterOK(txs'[t])
      BY <1>2, <2>1 DEF WaiterOK
    <2>. QED
      BY <1>2, <1>3, <2>1, <2>2, WaitersStay
  <1>6. CASE StartOfFinished(t)
    <2>1. /\ \A u \in Txs \ {t} : txs'[u] = txs[u]
          /\ txs'[t].task = "none" /\ txs'[t].state = "finished" /\ txs[t].state = "finished"
          /\ txs'[t].promise = txs[t].promise /\ txs'[t].aborting = txs[t].aborting
      BY <1>1, <1>6 DEF NoTx, StartOfFinished
    <2>2. WaiterOK(txs'[t])
      BY <1>2, <2>1 DEF WaiterOK
    <2>. QED
      BY <1>2, <1>3, <2>1, <2>2, WaitersStay
  <1>7. CASE Complete(t)
    <2>1. \A promise : /\ Over(txs[t], promise).task = "none" /\ Over(txs[t], promise).state = "finished"
                       /\ Over(txs[t], promise).promise = promise
      BY DEF Over, NoTx
    <2>2. /\ \A u \in Txs \ {t} : txs'[u] = txs[u]
          /\ txs'[t].task = "none" /\ txs'[t].state = "finished" /\ txs[t].state = "committing"
          /\ txs'[t].promise # "pending"
      BY <1>1, <1>7, <2>1 DEF Complete
    <2>3. WaiterOK(txs'[t])
      BY <2>2 DEF WaiterOK
    <2>. QED
      BY <1>2, <1>3, <2>2, <2>3, WaitersStay
  <1>. QED
    BY <1>4, <1>5, <1>6, <1>7

LEMMA WaitersInductive ==
  ASSUME ~EarlyThrow
  PROVE  OutcomeOK /\ Exclusive /\ OwnersOK /\ WaitersOK /\ [Next]_vars => WaitersOK'
  <1>1. ASSUME OutcomeOK, Exclusive, OwnersOK, WaitersOK, Next
        PROVE  WaitersOK'
    <2>1. /\ DOMAIN backend = DOMAIN EmptyDatabase
          /\ \A u \in Txs : WaiterOK(txs[u]) /\ DOMAIN txs[u] = DOMAIN NoTx
      BY <1>1, AwaitedIsWaiters DEF Exclusive, AwaitedOK, OutcomeOK, ToldOK
    <2>2. ASSUME NEW t \in Txs, Function(t) \/ ComesBack(t) \/ Started(t) \/ Complete(t) \/ AbortEvent(t)
          PROVE  WaitersOK'
      <3>1. CASE Throws(t)
        <4>1. /\ txs[t].state = "active" /\ txs[t].begun /\ Abort(t, txs[t].task) /\ UNCHANGED conns
          BY <3>1 DEF Throws
        <4>2. txs[t].task # "waits"
          <5>1. ASSUME txs[t].task = "waits"
                PROVE  FALSE
            <6>1. PICK n \in DOMAIN waiting : waiting[n] = t
              BY <1>1, <5>1 DEF WaitersOK
            <6>. QED
              BY <1>1, <4>1, <6>1 DEF OwnersOK
          <5>. QED
            BY <5>1
        <4>. QED
          BY <1>1, <2>1, <4>1, <4>2, AbortIsAwaited
      <3>. QED
        BY <1>1, <2>1, <2>2, <3>1, StartAwaited, RunRequestAwaited, CommitIsAwaited, OthersAwaited
           DEF Function, Started
    <2>3. CASE Dump
      <3>1. \A u \in Txs : txs'[u] = [txs[u] EXCEPT !.stored = @ \/ u = dumping]
        BY <2>3 DEF Dump
      <3>2. \A u \in Txs : /\ txs'[u].state = txs[u].state /\ txs'[u].task = txs[u].task
                            /\ txs'[u].begun = txs[u].begun /\ txs'[u].promise = txs[u].promise
                            /\ txs'[u].aborting = txs[u].aborting
        BY <2>1, <3>1 DEF NoTx
      <3>3. \A u \in Txs : WaiterOK(txs'[u])
        BY <2>1, <3>2 DEF WaiterOK
      <3>. QED
        BY <1>1, <2>3, <3>2, <3>3, WaitersStay DEF Dump
    <2>4. CASE Crash
      <3>1. \A u \in Txs : txs'[u].task = "none" /\ txs'[u].state # "active" /\ txs'[u].promise # "pending"
        BY <2>4 DEF Crash, Over, NoTx
      <3>2. waiting' = <<>> /\ backend'.level = "disconnected"
        BY <2>4 DEF Crash, EmptyDatabase
      <3>3. AwaitedOK(backend'.level, txs', waiting')
        BY <3>1, <3>2 DEF AwaitedOK, WaiterOK, InQueue, Levels
      <3>. QED
        BY <3>2, <3>3, AwaitedIsWaitersThen DEF UpgradesOK
    <2>. QED
      BY <1>1, <2>2, <2>3, <2>4, ConnectionAwaited, TransactionAwaited DEF Next
  <1>2. ASSUME WaitersOK, UNCHANGED vars
        PROVE  WaitersOK'
    BY <1>2 DEF vars, WaitersOK, Begun
  <1>. QED
    BY <1>1, <1>2

LEMMA InitWaiters == Init => WaitersOK
  BY DEF Init, NoTx, EmptyDatabase, WaitersOK, Begun, Levels

\* Who waits for an answer has a task, or waits for one that has.
LEMMA WaitersWork == OutcomeOK /\ OwnersOK /\ WaitersOK => SomebodyWorks
  <1>1. SUFFICES ASSUME OutcomeOK, OwnersOK, WaitersOK, NEW t \in Txs, txs[t].promise = "pending"
                 PROVE  AtWork
    BY DEF SomebodyWorks
  <1>2. ASSUME NEW u \in Txs, txs[u].task \in {"queued", "runs"}
        PROVE  AtWork
    BY <1>2 DEF AtWork, Quiet
  <1>3. CASE txs[t].aborting \/ txs[t].state = "committing"
    BY <1>3 DEF AtWork, Quiet
  <1>4. CASE txs[t].state = "active" /\ txs[t].task # "waits"
    BY <1>1, <1>2, <1>4 DEF WaitersOK
  <1>5. CASE txs[t].task = "waits"
    <2>1. waiting # <<>>
      BY <1>1, <1>5 DEF WaitersOK
    <2>2. PICK u \in Begun : TRUE
      BY <1>1, <2>1 DEF WaitersOK
    <2>3. u \in Txs /\ txs[u].state = "active" /\ txs[u].begun
      BY <2>2 DEF Begun
    <2>4. txs[u].task # "waits"
      BY <1>1, <2>3 DEF WaitersOK, OwnersOK
    <2>. QED
      BY <1>1, <1>2, <2>3, <2>4 DEF WaitersOK
  <1>. QED
    BY <1>1, <1>3, <1>4, <1>5 DEF WaitersOK

-----------------------------------------------------------------------------
(* Histories                                                               *)

After(before, history) == Serial!After(before, history)
Effect(records, req) == Serial!Effect(records, req)
Answer(records, req) == Serial!Answer(records, req)
StepsOf(g, before, history) ==
  [n \in 0..Len(history) |-> IF n = 0 THEN before ELSE Effect(g[n - 1], history[n].req)]

LEMMA AfterIs ==
  ASSUME NEW before, NEW history
  PROVE  After(before, history) = CHOOSE g : g = StepsOf(g, before, history)
  BY DEF After, Serial!After, StepsOf, Effect

\* What After says of a history, and that there is such a function.
Steps(before, history) ==
  LET g == After(before, history)
  IN g[0] = before /\ \A n \in 1..Len(history) : g[n] = Effect(g[n - 1], history[n].req)

LEMMA StepsFrom ==
  ASSUME NEW before, NEW S, NEW history \in Seq(S), NEW g, g = StepsOf(g, before, history)
  PROVE  /\ g[0] = before /\ \A n \in 1..Len(history) : g[n] = Effect(g[n - 1], history[n].req)
         /\ Steps(before, history)
  <1>1. After(before, history) = StepsOf(After(before, history), before, history)
    BY AfterIs
  <1>2. \A f, h : f = StepsOf(h, before, history) =>
           /\ f[0] = before
           /\ \A n \in 1..Len(history) : f[n] = Effect(h[n - 1], history[n].req)
    BY DEF StepsOf
  <1>. QED
    BY <1>1, <1>2 DEF Steps

\* Two functions that take the same steps agree.
Takes(f, before, history, k) ==
  f[0] = before /\ \A n \in 1..k : f[n] = Effect(f[n - 1], history[n].req)

LEMMA StepsAgree ==
  ASSUME NEW before, NEW history, NEW k \in Nat,
         NEW f, Takes(f, before, history, k), NEW g, Takes(g, before, history, k)
  PROVE  \A n \in 0..k : f[n] = g[n]
  <1>. DEFINE T == {n \in 0..k : f[n] # g[n]}
  <1>1. SUFFICES ASSUME T # {}
                 PROVE  FALSE
    OBVIOUS
  <1>2. T \subseteq 0..k
    OBVIOUS
  <1>3. PICK n \in T : \A m \in T : n <= m
    <2>. HIDE DEF T
    <2>. QED
      BY <1>1, <1>2, LeastNumber
  <1>4. n \in 1..k /\ n - 1 \in 0..k /\ n - 1 \notin T
    BY <1>3 DEF Takes
  <1>5. f[n - 1] = g[n - 1]
    BY <1>4
  <1>6. f[n] = Effect(f[n - 1], history[n].req) /\ g[n] = Effect(g[n - 1], history[n].req)
    BY <1>4 DEF Takes
  <1>. QED
    BY <1>5, <1>6

\* A history with one request more.
LEMMA StepsMore ==
  ASSUME NEW before, NEW S, NEW history \in Seq(S), NEW entry, Steps(before, history)
  PROVE  LET longer == Append(history, entry)
         IN /\ Steps(before, longer)
            /\ \A n \in 0..Len(history) : After(before, longer)[n] = After(before, history)[n]
            /\ After(before, longer)[Len(longer)]
                 = Effect(After(before, history)[Len(history)], entry.req)
  <1>. DEFINE longer == Append(history, entry)
              g == After(before, history)
              k == Len(history)
              h == [n \in 0..k + 1 |-> IF n = k + 1 THEN Effect(g[k], entry.req) ELSE g[n]]
  <1>1. /\ k \in Nat /\ Len(longer) = k + 1 /\ longer \in Seq(S \cup {entry}) /\ longer[k + 1] = entry
        /\ \A n \in 1..k : longer[n] = history[n]
    <2>1. history \in Seq(S \cup {entry}) /\ entry \in S \cup {entry}
      OBVIOUS
    <2>. QED
      BY <2>1
  <1>. HIDE DEF longer, g
  <1>2. /\ h[0] = before /\ \A n \in 0..k : h[n] = g[n]
        /\ \A n \in 1..k + 1 : h[n] = Effect(h[n - 1], longer[n].req)
    <2>1. g[0] = before /\ \A n \in 1..k : g[n] = Effect(g[n - 1], history[n].req)
      BY DEF Steps, g
    <2>. HIDE DEF k
    <2>2. \A n \in 0..k : h[n] = g[n]
      BY <1>1
    <2>3. h[k + 1] = Effect(g[k], entry.req)
      BY <1>1
    <2>. HIDE DEF h
    <2>4. ASSUME NEW n \in 1..k + 1
          PROVE  h[n] = Effect(h[n - 1], longer[n].req)
      <3>1. CASE n = k + 1
        BY <1>1, <2>2, <2>3, <3>1
      <3>2. CASE n \in 1..k
        BY <1>1, <2>1, <2>2, <3>2
      <3>. QED
        BY <1>1, <3>1, <3>2
    <2>. QED
      BY <1>1, <2>1, <2>2, <2>4
  <1>3. h = StepsOf(h, before, longer)
    <2>1. \A n \in 0..k + 1 : h[n] = IF n = 0 THEN before ELSE Effect(h[n - 1], longer[n].req)
      <3>. HIDE DEF h, k
      <3>. QED
        BY <1>1, <1>2
    <2>2. h = [n \in 0..k + 1 |-> h[n]]
      OBVIOUS
    <2>. HIDE DEF h, k
    <2>. QED
      BY <1>1, <2>1, <2>2 DEF StepsOf
  <1>. HIDE DEF h
  <1>. DEFINE a == After(before, longer)
  <1>4. Steps(before, longer)
    BY <1>1, <1>3, StepsFrom
  <1>5. /\ a[0] = before
        /\ \A n \in 1..k + 1 : a[n] = Effect(a[n - 1], longer[n].req)
    BY <1>1, <1>4 DEF Steps
  <1>. HIDE DEF a, k
  <1>6. \A n \in 0..k + 1 : a[n] = h[n]
    <2>. DEFINE l == k + 1
    <2>1. l \in Nat /\ Takes(a, before, longer, l) /\ Takes(h, before, longer, l)
      BY <1>1, <1>2, <1>5 DEF Takes
    <2>. HIDE DEF l
    <2>2. \A n \in 0..l : a[n] = h[n]
      BY <2>1, StepsAgree
    <2>. QED
      BY <2>2 DEF l
  <1>7. ASSUME NEW n \in 0..k
        PROVE  a[n] = g[n]
    <2>1. k \in Nat
      BY <1>1
    <2>2. n \in 0..k + 1
      BY <2>1
    <2>3. h[n] = g[n]
      BY <1>2
    <2>. QED
      BY <1>6, <2>2, <2>3
  <1>8. a[k + 1] = Effect(g[k], entry.req)
    BY <1>1, <1>5, <1>7
  <1>. QED
    BY <1>1, <1>4, <1>7, <1>8 DEF a, g, k, longer

LEMMA StepsOfNone ==
  ASSUME NEW before
  PROVE  Steps(before, <<>>) /\ After(before, <<>>)[0] = before
  <1>. DEFINE g == [n \in 0..0 |-> before]
  <1>1. g = StepsOf(g, before, <<>>)
    BY DEF StepsOf
  <1>2. <<>> \in Seq({})
    OBVIOUS
  <1>. HIDE DEF g
  <1>. DEFINE none == <<>>
  <1>. SUFFICES Steps(before, none) /\ After(before, none)[0] = before
    OBVIOUS
  <1>3. none \in Seq({}) /\ g = StepsOf(g, before, none)
    BY <1>1, <1>2
  <1>. HIDE DEF none
  <1>4. Steps(before, none)
    BY <1>3, StepsFrom
  <1>. QED
    BY <1>4 DEF Steps

\* A history explains how the records came about.
Replayed(before, history, after) ==
  /\ Steps(before, history) /\ LeadsTo(before, history, after)
  /\ \E S : history \in Seq(S)

LEMMA NothingReplayed ==
  ASSUME NEW before
  PROVE  Replayed(before, <<>>, before)
  <1>1. <<>> \in Seq({}) /\ DOMAIN <<>> = {} /\ Len(<<>>) = 0
    OBVIOUS
  <1>2. \E S : <<>> \in Seq(S)
    BY <1>1
  <1>3. Serial!Explained(before, <<>>)
    BY <1>1 DEF Serial!Explained
  <1>4. before = Serial!After(before, <<>>)[Len(<<>>)]
    BY <1>1, StepsOfNone DEF After
  <1>. QED
    BY <1>2, <1>3, <1>4, StepsOfNone DEF Replayed, LeadsTo

LEMMA OneMoreReplayed ==
  ASSUME NEW before, NEW history, NEW after, Replayed(before, history, after), NEW entry,
         entry.answer = Answer(after, entry.req),
         entry.req.op = "add" => entry.req.value.key \notin DOMAIN after
  PROVE  Replayed(before, Append(history, entry), Effect(after, entry.req))
  <1>. DEFINE longer == Append(history, entry)
              k == Len(history)
  <1>1. PICK S : history \in Seq(S)
    BY DEF Replayed
  <1>2. /\ k \in Nat /\ Len(longer) = k + 1 /\ longer \in Seq(S \cup {entry}) /\ longer[k + 1] = entry
        /\ \A n \in 1..k : longer[n] = history[n]
        /\ DOMAIN longer = 1..k + 1 /\ DOMAIN history = 1..k
    <2>1. history \in Seq(S \cup {entry}) /\ entry \in S \cup {entry}
      BY <1>1
    <2>. QED
      BY <2>1
  <1>3. Steps(before, history) /\ after = After(before, history)[k]
    BY DEF Replayed, LeadsTo, After
  <1>4. /\ Steps(before, longer)
        /\ \A n \in 0..k : After(before, longer)[n] = After(before, history)[n]
        /\ After(before, longer)[k + 1] = Effect(after, entry.req)
    BY <1>1, <1>2, <1>3, StepsMore
  <1>5. \A n \in 1..k : /\ history[n].answer = Answer(After(before, history)[n - 1], history[n].req)
                        /\ history[n].req.op = "add" =>
                             history[n].req.value.key \notin DOMAIN After(before, history)[n - 1]
    BY <1>2 DEF Replayed, LeadsTo, Serial!Explained, After, Answer
  <1>. HIDE DEF longer, k
  <1>6. ASSUME NEW n \in 1..k + 1
        PROVE  /\ longer[n].answer = Answer(After(before, longer)[n - 1], longer[n].req)
               /\ longer[n].req.op = "add" =>
                    longer[n].req.value.key \notin DOMAIN After(before, longer)[n - 1]
    <2>1. CASE n = k + 1
      <3>1. n - 1 = k /\ k \in 0..k
        BY <1>2, <2>1
      <3>2. After(before, longer)[n - 1] = after
        BY <1>3, <1>4, <3>1
      <3>. QED
        BY <1>2, <2>1, <3>2
    <2>2. CASE n \in 1..k
      <3>1. After(before, longer)[n - 1] = After(before, history)[n - 1]
        BY <1>2, <1>4, <2>2
      <3>. QED
        BY <1>2, <1>5, <2>2, <3>1
    <2>. QED
      BY <1>2, <2>1, <2>2
  <1>7. Serial!Explained(before, longer)
    BY <1>2, <1>6 DEF Serial!Explained, After, Answer
  <1>8. LeadsTo(before, longer, Effect(after, entry.req))
    BY <1>2, <1>4, <1>7 DEF LeadsTo, After
  <1>. QED
    BY <1>2, <1>4, <1>8 DEF Replayed, longer

-----------------------------------------------------------------------------
(* What a request reads                                                    *)

LEMMA LeastKey ==
  ASSUME NEW S, IsFiniteSet(S), S # {}, \A x \in S : x \in Int
  PROVE  Min(S) \in S /\ \A x \in S : Min(S) <= x
  <1>. DEFINE below(x) == {y \in S : y <= x}
              T == {below(x) : x \in S}
  <1>1. T \subseteq SUBSET S /\ T # {}
    OBVIOUS
  <1>. HIDE DEF T
  <1>2. PICK t \in T : \A u \in T : u \subseteq t => u = t
    BY <1>1, MinimalSubset
  <1>3. PICK n \in S : t = below(n)
    BY DEF T
  <1>4. \A m \in S : n <= m
    <2>1. SUFFICES ASSUME NEW m \in S, m < n
                   PROVE  FALSE
      OBVIOUS
    <2>2. below(m) \subseteq below(n) /\ n \in below(n) /\ n \notin below(m) /\ below(m) \in T
      BY <2>1 DEF T
    <2>. QED
      BY <1>2, <1>3, <2>2
  <1>5. \E x \in S : \A y \in S : x <= y
    BY <1>4
  <1>. QED
    BY <1>5 DEF Min

LEMMA OneIsLeast ==
  ASSUME NEW x \in Int
  PROVE  Min({x}) = x
  <1>. DEFINE S == {x}
  <1>1. IsFiniteSet(S) /\ S # {} /\ \A y \in S : y \in Int
    BY FS_Singleton
  <1>. HIDE DEF S
  <1>2. Min(S) \in S
    BY <1>1, LeastKey
  <1>. QED
    BY <1>2 DEF S

\* The records are a function with finitely many keys.
Plain(data) == data = [k \in DOMAIN data |-> data[k]] /\ IsFiniteSet(DOMAIN data)

\* A request for one key finds its record, and no other.
LEMMA FoundInStore ==
  ASSUME OneIndexKey, NEW store, StoreOK(store), Plain(store.data), NEW key \in Keys
  PROVE  GetFromStore(store, Query(Only(key), "next")) = IF key \in DOMAIN store.data THEN key ELSE Undef
  <1>. DEFINE keys == DOMAIN store.data
              req == Query(Only(key), "next")
              start == StorePosition(keys, req)
              found == {k \in keys : ~Beyond(start, k, TRUE) /\ Includes(req.range, k)}
  <1>1. key \in Int /\ key # Undef /\ IsFiniteSet(keys)
    BY DEF OneIndexKey, Plain
  <1>2. \A k \in keys : k \in Int /\ k # Undef
    BY IndexKeyIs DEF StoreOK, Indexable
  <1>3. /\ req.range = Only(key) /\ Forward(req.direction) = TRUE
        /\ req.lastPrimary = Undef /\ req.advance = Undef
    BY DEF Query, Forward
  <1>4. /\ req.range.lower = key /\ req.range.upper = key
        /\ req.range.lowerOpen = FALSE /\ req.range.upperOpen = FALSE
    BY <1>3 DEF Only, Bound
  <1>5. \A k \in Int : Includes(req.range, k) <=> k = key
    <2>. HIDE DEF req
    <2>. QED
      BY <1>1, <1>4 DEF Includes
  <1>6. start = IF key \in keys THEN key ELSE NextHigherKey(keys, key)
    <2>. HIDE DEF req, keys
    <2>. QED
      BY <1>1, <1>3, <1>4 DEF StorePosition, FurthestKey
  <1>7. GetFromStore(store, req) =
          IF start = Undef \/ ~Includes(req.range, start) THEN Undef ELSE MinKey(found)
    <2>1. Forward(req.direction) = TRUE
      BY <1>3
    <2>. HIDE DEF req
    <2>. QED
      BY <2>1 DEF GetFromStore, FirstKey, keys
  <1>. HIDE DEF req, keys, start
  <1>8. CASE key \in keys
    <2>1. start = key
      BY <1>6, <1>8
    <2>2. found = {key}
      <3>1. \A k \in keys : ~Beyond(start, k, TRUE) /\ Includes(req.range, k) <=> k = key
        BY <1>1, <1>2, <1>5, <2>1 DEF Beyond
      <3>. QED
        BY <1>8, <3>1
    <2>3. MinKey({key}) = key
      BY <1>1, OneIsLeast DEF MinKey
    <2>. QED
      BY <1>1, <1>5, <1>7, <1>8, <2>1, <2>2, <2>3 DEF req, keys
  <1>9. CASE key \notin keys
    <2>. DEFINE above == {x \in keys : x > key}
    <2>1. start = MinKey(above)
      BY <1>6, <1>9 DEF NextHigherKey
    <2>2. start = Undef \/ start \in above
      <3>1. IsFiniteSet(above)
        BY <1>1, FS_Subset
      <3>2. \A x \in above : x \in Int
        BY <1>2
      <3>. HIDE DEF above
      <3>. QED
        BY <2>1, <3>1, <3>2, LeastKey DEF MinKey
    <2>3. start = Undef \/ ~Includes(req.range, start)
      BY <1>1, <1>2, <1>5, <2>2
    <2>. QED
      BY <1>7, <1>9, <2>3 DEF req, keys
  <1>. QED
    BY <1>8, <1>9

LEMMA FiniteImage ==
  ASSUME NEW S, IsFiniteSet(S), NEW f
  PROVE  IsFiniteSet({f[x] : x \in S})
  <1>. DEFINE image(T) == {f[x] : x \in T}
              Good == {T \in SUBSET S : IsFiniteSet(image(T))}
  <1>1. {} \in Good
    BY FS_EmptySet
  <1>2. ASSUME NEW T \in Good, NEW x \in S
        PROVE  T \cup {x} \in Good
    <2>1. image(T \cup {x}) = image(T) \cup {f[x]}
      OBVIOUS
    <2>2. IsFiniteSet(image(T))
      OBVIOUS
    <2>. DEFINE i == image(T)
                y == f[x]
    <2>3. IsFiniteSet(i)
      BY <2>2
    <2>. HIDE DEF i, y
    <2>4. IsFiniteSet(i \cup {y})
      BY <2>3, FS_AddElement
    <2>. QED
      BY <2>1, <2>4 DEF i, y
  <1>. HIDE DEF Good
  <1>3. S \in Good
    BY <1>1, <1>2, SubsetInduction
  <1>. QED
    BY <1>3 DEF Good

\* The records above a cursor's that have an index key.
EntriesAbove(data, i, last) == {k \in DOMAIN data : data[k].by = <<i>> /\ (last # Undef => k > last)}

\* A request for one index key, alone or through a cursor, finds the least of them.
LEMMA FoundInIndex ==
  ASSUME OneIndexKey, NEW store, StoreOK(store), Plain(store.data), NEW i \in IndexKeyValues, NEW last,
         NEW req, req.range = Only(i), req.direction = "next", req.advance = Undef,
         req.lastIndex = (IF last = Undef THEN Undef ELSE i), req.lastPrimary = last
  PROVE  LET S == EntriesAbove(store.data, i, last)
         IN /\ GetFromIndex(store, req) = IF S = {} THEN <<>> ELSE <<i, Min(S)>>
            /\ S # {} => Min(S) \in S
  <1>. DEFINE data == store.data
              keys == DOMAIN store.index
              start == IndexPosition(keys, req)
              S == EntriesAbove(data, i, last)
              Entries(j) == {p \in store.index[j] :
                               j = req.lastIndex => /\ Beyond(p, req.lastPrimary, TRUE)
                                                    /\ ~Unique(req.direction)}
              found == {j \in keys : ~Beyond(start, j, TRUE) /\ Includes(req.range, j) /\ Entries(j) # {}}
  <1>1. i \in Int /\ i # Undef
    <2>1. PICK v \in Values : i \in ToSet(v.by)
      BY DEF IndexKeyValues
    <2>2. PICK j \in Int : j # Undef /\ v.by = <<j>>
      BY DEF OneIndexKey
    <2>. QED
      BY <2>1, <2>2, SetOfOne
  <1>2. Indexable(data)
    BY DEF StoreOK, Indexable
  <1>3. store.index = [j \in {IndexKey(data, k) : k \in DOMAIN data} |->
                         {k \in DOMAIN data : IndexKey(data, k) = j}]
    <2>1. store.index = IndexOf(data)
      BY DEF StoreOK
    <2>. HIDE DEF data
    <2>. QED
      BY <1>2, <2>1, IndexOfIs
  <1>4. \A k \in DOMAIN data : k \in Int /\ k # Undef /\ data[k].by = <<IndexKey(data, k)>>
    <2>. HIDE DEF data
    <2>. QED
      BY <1>2, IndexKeyIs
  <1>5. keys = {IndexKey(data, k) : k \in DOMAIN data} /\ \A j \in keys : j \in Int /\ j # Undef
    <2>1. keys = {IndexKey(data, k) : k \in DOMAIN data}
      BY <1>3
    <2>2. ASSUME NEW k \in DOMAIN data
          PROVE  IndexKey(data, k) \in Int /\ IndexKey(data, k) # Undef
      <3>1. PICK v \in Values : v.key = k /\ v.by = data[k].by
        BY <1>2 DEF Indexable
      <3>2. PICK j \in Int : j # Undef /\ v.by = <<j>>
        BY DEF OneIndexKey
      <3>. QED
        BY <3>1, <3>2 DEF IndexKey
    <2>. QED
      BY <2>1, <2>2
  <1>a. \A j \in keys : j \in Int /\ j # Undef
    BY <1>5
  <1>6. \A k \in DOMAIN data : data[k].by = <<i>> <=> IndexKey(data, k) = i
    BY <1>4
  <1>7. S = {k \in DOMAIN data : IndexKey(data, k) = i /\ (last # Undef => k > last)}
    BY <1>6 DEF EntriesAbove
  <1>8. IsFiniteSet(S) /\ \A k \in S : k \in Int
    <2>1. IsFiniteSet(DOMAIN data)
      BY DEF Plain
    <2>2. S \subseteq DOMAIN data
      BY DEF EntriesAbove
    <2>. HIDE DEF S, data
    <2>. QED
      BY <1>4, <2>1, <2>2, FS_Subset
  <1>9. \A j \in Int : Includes(req.range, j) <=> j = i
    BY <1>1 DEF Includes, Only, Bound
  <1>10. start = IF i \in keys THEN i ELSE NextHigherKey(keys, i)
    <2>1. Forward(req.direction) = TRUE /\ req.range.lower = i
      BY DEF Forward, Only, Bound
    <2>. HIDE DEF keys
    <2>. QED
      BY <1>1, <2>1 DEF IndexPosition
  <1>11. i \in keys => Entries(i) = S
    <2>1. i \in keys => store.index[i] = {k \in DOMAIN data : IndexKey(data, k) = i}
      BY <1>3
    <2>2. ~Unique(req.direction)
      BY DEF Unique
    <2>. HIDE DEF data, keys, S
    <2>. QED
      BY <1>1, <1>7, <2>1, <2>2 DEF Beyond
  <1>12. i \notin keys => S = {}
    BY <1>5, <1>7
  <1>13. GetFromIndex(store, req) = IF start = Undef \/ ~Includes(req.range, start) \/ found = {} THEN <<>>
                                    ELSE <<MinKey(found), MinKey(Entries(MinKey(found)))>>
    <2>1. Forward(req.direction) = TRUE
      BY DEF Forward
    <2>. QED
      BY <2>1 DEF GetFromIndex, FirstKey
  <1>14. S # {} => Min(S) \in S
    <2>. HIDE DEF S
    <2>. QED
      BY <1>8, LeastKey
  <1>. HIDE DEF start, keys, data, S, Entries
  <1>15. CASE i \in keys
    <2>1. start = i
      BY <1>10, <1>15
    <2>2. found = IF S = {} THEN {} ELSE {i}
      <3>1. \A j \in keys : ~Beyond(start, j, TRUE) /\ Includes(req.range, j) <=> j = i
        BY <1>1, <1>a, <1>9, <2>1 DEF Beyond
      <3>. QED
        BY <1>11, <1>15, <3>1
    <2>3. MinKey({i}) = i /\ (S # {} => MinKey(S) = Min(S))
      BY <1>1, OneIsLeast DEF MinKey
    <2>. HIDE DEF found
    <2>4. GetFromIndex(store, req) = IF S = {} THEN <<>> ELSE <<i, Min(S)>>
      BY <1>1, <1>9, <1>11, <1>13, <1>15, <2>1, <2>2, <2>3
    <2>. QED
      BY <1>14, <2>4 DEF S, data
  <1>16. CASE i \notin keys
    <2>. DEFINE above == {x \in keys : x > i}
    <2>1. start = MinKey(above)
      BY <1>10, <1>16 DEF NextHigherKey
    <2>2. start = Undef \/ start \in above
      <3>1. IsFiniteSet(above)
        <4>1. IsFiniteSet(DOMAIN data)
          BY DEF Plain, data
        <4>. DEFINE f == [k \in DOMAIN data |-> IndexKey(data, k)]
        <4>2. keys = {f[k] : k \in DOMAIN data}
          BY <1>5
        <4>. HIDE DEF f
        <4>3. IsFiniteSet(keys)
          BY <4>1, <4>2, FiniteImage
        <4>. QED
          BY <4>3, FS_Subset
      <3>2. \A x \in above : x \in Int
        BY <1>a
      <3>. HIDE DEF above
      <3>. QED
        BY <2>1, <3>1, <3>2, LeastKey DEF MinKey
    <2>3. start = Undef \/ ~Includes(req.range, start)
      <3>1. \A x \in above : ~Includes(req.range, x)
        BY <1>1, <1>a, <1>9
      <3>. QED
        BY <2>2, <3>1
    <2>. HIDE DEF found
    <2>4. GetFromIndex(store, req) = <<>> /\ S = {}
      BY <1>12, <1>13, <1>16, <2>3
    <2>. QED
      BY <2>4 DEF S, data
  <1>. QED
    BY <1>15, <1>16

-----------------------------------------------------------------------------
(* What a request answers and does                                         *)

LEMMA AnswerIs ==
  ASSUME NEW data, NEW req
  PROVE  /\ req.op = "get" => Answer(data, req) = IF req.key \in DOMAIN data THEN data[req.key] ELSE Undef
         /\ req.op \in {"getIndexed", "next"} =>
              LET S == EntriesAbove(data, req.by, IF req.op = "next" THEN req.after ELSE Undef)
              IN Answer(data, req) = IF S = {} THEN Undef ELSE data[Min(S)]
         /\ req.op \in {"put", "add"} => Answer(data, req) = req.value.key
         /\ req.op \in {"delete", "mutate"} => Answer(data, req) = Undef
  <1>1. \A S : Serial!Min(S) = Min(S)
    BY DEF Serial!Min, Min
  <1>2. req.op = "get" => Answer(data, req) = IF req.key \in DOMAIN data THEN data[req.key] ELSE Undef
    BY DEF Answer, Serial!Answer, Serial!Value
  <1>3. \A last : Serial!NextBy(data, req.by, last) =
                    LET S == EntriesAbove(data, req.by, last) IN IF S = {} THEN Undef ELSE data[Min(S)]
    BY <1>1 DEF Serial!NextBy, EntriesAbove
  <1>4. req.op = "next" => Answer(data, req) = Serial!NextBy(data, req.by, req.after)
    BY DEF Answer, Serial!Answer
  <1>5. req.op = "getIndexed" => Answer(data, req) = Serial!NextBy(data, req.by, Undef)
    BY DEF Answer, Serial!Answer
  <1>6. /\ req.op \in {"put", "add"} => Answer(data, req) = req.value.key
        /\ req.op \in {"delete", "mutate"} => Answer(data, req) = Undef
    BY DEF Answer, Serial!Answer
  <1>. QED
    BY <1>2, <1>3, <1>4, <1>5, <1>6

LEMMA EffectIs ==
  ASSUME NEW data, NEW req
  PROVE  /\ req.op \in {"put", "add"} => Effect(data, req) = With(data, req.value.key, req.value)
         /\ req.op = "delete" => Effect(data, req) = [k \in DOMAIN data \ {req.key} |-> data[k]]
         /\ req.op = "mutate" =>
              Effect(data, req) = [k \in DOMAIN data |->
                                     IF k = req.key THEN [data[k] EXCEPT !.body = req.body] ELSE data[k]]
         /\ req.op \in {"get", "getIndexed", "next"} => Effect(data, req) = data
  BY DEF Effect, Serial!Effect, With

\* The record that a request stores is there, and all others stay.
LEMMA WithRecordIs ==
  ASSUME OneIndexKey, NEW store, StoreOK(store), NEW key, NEW value, NEW gen,
         DOMAIN value = {"key", "by", "body"}, NEW v \in Values, v.key = key, v.by = value.by
  PROVE  LET r == WithRecord(store, Schema, key, value, gen)
         IN r.error = "none" /\ r.store.data = With(store.data, key, value)
  <1>. DEFINE inserted == InsertIntoIndex(store.index, Schema, key, value)
  <1>1. PICK i \in Int : value.by = <<i>> /\ i # Undef
    BY DEF OneIndexKey
  <1>2. inserted.error = "none"
    BY <1>1, InsertedIs
  <1>. QED
    BY <1>2 DEF WithRecord, Gives

LEMMA StoreRecordIs ==
  ASSUME OneIndexKey, NEW store, StoreOK(store), NEW value \in Values,
         NEW level \in {"AllowOverwrite", "NoOverwrite"}
  PROVE  LET r == StoreRecord(store, Schema, level, value, Undef)
         IN r.error = "none" => /\ r.store.data = With(store.data, value.key, value)
                                /\ level = "NoOverwrite" => value.key \notin DOMAIN store.data
  <1>. DEFINE k == StoreKey(Schema, value, Undef, store.gen)
              w == WithRecord(store, Schema, value.key, value, store.gen)
              r == StoreRecord(store, Schema, level, value, Undef)
  <1>1. value.key \in Keys /\ value.key # Undef /\ DOMAIN value = {"key", "by", "body"}
    BY DEF OneIndexKey, Keys
  <1>2. k = [error |-> "none", key |-> value.key, gen |-> store.gen]
    <2>1. Schema.keyPath = TRUE /\ Schema.autoIncrement = FALSE
      BY DEF Schema
    <2>. QED
      BY <1>1, <2>1 DEF StoreKey
  <1>3. w.error = "none" /\ w.store.data = With(store.data, value.key, value)
    BY <1>1, WithRecordIs
  <1>4. r = IF level = "NoOverwrite" /\ value.key \in DOMAIN store.data
            THEN Fails("refusing to overwrite") ELSE w
    <2>1. level # "UpdateExisting" /\ k.error = "none" /\ k.key = value.key /\ k.gen = store.gen
      BY <1>2
    <2>2. r = CASE level = "UpdateExisting" ->
                     IF Undef \notin DOMAIN store.data THEN Fails("record does not exist")
                     ELSE WithRecord(store, Schema, Undef, value, store.gen)
                [] level # "UpdateExisting" /\ k.error # "none" -> k
                [] level = "NoOverwrite" /\ k.error = "none" /\ k.key \in DOMAIN store.data ->
                     Fails("refusing to overwrite")
                [] OTHER -> WithRecord(store, Schema, k.key, value, k.gen)
      BY DEF StoreRecord
    <2>. HIDE DEF k, r
    <2>. QED
      BY <2>1, <2>2
  <1>. HIDE DEF r, w
  <1>5. Fails("refusing to overwrite").error = "refusing to overwrite"
    BY DEF Fails
  <1>6. r.error = "none" => /\ r.store.data = With(store.data, value.key, value)
                            /\ level = "NoOverwrite" => value.key \notin DOMAIN store.data
    BY <1>3, <1>4, <1>5
  <1>. QED
    BY <1>6 DEF r

LEMMA DeleteLeaves ==
  ASSUME OneIndexKey, NEW store, StoreOK(store), NEW key \in Keys
  PROVE  LET r == DeleteRecord(store, Schema, Only(key))
         IN r.error = "none" => r.store.data = [k \in DOMAIN store.data \ {key} |-> store.data[k]]
  <1>. DEFINE data == store.data
              gone == DeletedKeys(DOMAIN data, Only(key))
              emptied == Emptied(store, gone)
              r == DeleteRecord(store, Schema, Only(key))
  <1>1. gone = DOMAIN data \cap {key}
    <2>1. key \in Int /\ key # Undef
      BY DEF OneIndexKey
    <2>2. Indexable(data)
      BY DEF StoreOK, Indexable
    <2>. HIDE DEF data
    <2>3. \A k \in DOMAIN data : k \in Int
      BY <2>2, IndexKeyIs
    <2>. QED
      BY <2>1, <2>3, DeletedIs
  <1>2. r = IF emptied.error # "none" THEN emptied
            ELSE Gives([store EXCEPT !.data = [k \in DOMAIN data \ gone |-> data[k]],
                                     !.index = emptied.index])
    BY DeleteRecordIs
  <1>3. DOMAIN data \ gone = DOMAIN data \ {key} /\ "data" \in DOMAIN store
    BY <1>1 DEF StoreOK
  <1>. HIDE DEF r, emptied, gone
  <1>4. r.error = "none" => r.store.data = [k \in DOMAIN data \ {key} |-> data[k]]
    BY <1>2, <1>3 DEF Gives
  <1>. QED
    BY <1>4 DEF r

\* What Performed says of a store, in the words of SerialStore.
RightFor(store, req) ==
  LET r == Performed(store, req)
  IN r.error = "none" =>
       /\ r.answer = Answer(store.data, req) /\ r.store.data = Effect(store.data, req)
       /\ req.op = "add" => req.value.key \notin DOMAIN store.data

LEMMA GetIsRight ==
  ASSUME OneIndexKey, NEW store, StoreOK(store), Plain(store.data), NEW req, RequestOK(req), req.op = "get"
  PROVE  RightFor(store, req)
  <1>. DEFINE found == GetFromStore(store, Query(Only(req.key), "next"))
  <1>1. req.key \in Keys /\ req.key # Undef
    BY DEF RequestOK, OneIndexKey
  <1>2. found = IF req.key \in DOMAIN store.data THEN req.key ELSE Undef
    BY <1>1, FoundInStore
  <1>3. Get(store, req.key) = IF found = Undef THEN Undef ELSE ValueOf(store, found)
    BY DEF Get
  <1>. HIDE DEF found
  <1>4. Get(store, req.key) = Answer(store.data, req)
    BY <1>1, <1>2, <1>3, AnswerIs DEF ValueOf
  <1>5. Performed(store, req) = [error |-> "none", answer |-> Get(store, req.key), store |-> store,
                                 after |-> Undef]
    BY DEF Performed
  <1>6. Effect(store.data, req) = store.data
    BY EffectIs
  <1>. QED
    BY <1>4, <1>5, <1>6 DEF RightFor

LEMMA GetIndexedIsRight ==
  ASSUME OneIndexKey, NEW store, StoreOK(store), Plain(store.data), NEW req, RequestOK(req),
         req.op = "getIndexed"
  PROVE  RightFor(store, req)
  <1>. DEFINE q == Query(Only(req.by), "next")
              found == GetFromIndex(store, q)
              S == EntriesAbove(store.data, req.by, Undef)
  <1>1. req.by \in IndexKeyValues
    BY DEF RequestOK
  <1>2. /\ q.range = Only(req.by) /\ q.direction = "next" /\ q.advance = Undef
        /\ q.lastIndex = Undef /\ q.lastPrimary = Undef
    BY DEF Query
  <1>3. found = (IF S = {} THEN <<>> ELSE <<req.by, Min(S)>>) /\ (S # {} => Min(S) \in S)
    <2>. HIDE DEF q
    <2>. QED
      BY <1>1, <1>2, FoundInIndex
  <1>4. GetIndexed(store, req.by) = IF found = <<>> THEN Undef ELSE ValueOf(store, found[2])
    BY DEF GetIndexed
  <1>5. S \subseteq DOMAIN store.data
    BY DEF EntriesAbove
  <1>6. Answer(store.data, req) = IF S = {} THEN Undef ELSE store.data[Min(S)]
    BY AnswerIs
  <1>. HIDE DEF found, S
  <1>7. GetIndexed(store, req.by) = Answer(store.data, req)
    BY <1>3, <1>4, <1>5, <1>6 DEF ValueOf
  <1>8. Performed(store, req) = [error |-> "none", answer |-> GetIndexed(store, req.by), store |-> store,
                                 after |-> Undef]
    BY DEF Performed
  <1>9. Effect(store.data, req) = store.data
    BY EffectIs
  <1>. QED
    BY <1>7, <1>8, <1>9 DEF RightFor

LEMMA NextIsRight ==
  ASSUME OneIndexKey, NEW store, StoreOK(store), Plain(store.data), NEW req, RequestOK(req), req.op = "next"
  PROVE  RightFor(store, req)
  <1>. DEFINE cursor == [NewCursor(TRUE, Only(req.by), "next") EXCEPT
                           !.query.lastIndex = IF req.after = Undef THEN Undef ELSE req.by,
                           !.query.lastPrimary = req.after]
              q == cursor.query
              next == Iterate(store, cursor)
              found == GetFromIndex(store, q)
              S == EntriesAbove(store.data, req.by, req.after)
  <1>1. req.by \in IndexKeyValues
    BY DEF RequestOK
  <1>2. /\ q.range = Only(req.by) /\ q.direction = "next" /\ q.advance = Undef
        /\ q.lastIndex = (IF req.after = Undef THEN Undef ELSE req.by) /\ q.lastPrimary = req.after
        /\ cursor.byIndex = TRUE
    BY DEF Query, NewCursor
  <1>3. found = (IF S = {} THEN <<>> ELSE <<req.by, Min(S)>>) /\ (S # {} => Min(S) \in S)
    <2>. HIDE DEF q
    <2>. QED
      BY <1>1, <1>2, FoundInIndex
  <1>4. next.key = IF found = <<>> THEN Undef ELSE found[2]
    <2>1. cursor.byIndex = TRUE
      BY <1>2
    <2>. HIDE DEF cursor
    <2>. QED
      BY <2>1 DEF Iterate
  <1>5. S \subseteq DOMAIN store.data /\ \A k \in DOMAIN store.data : k # Undef
    BY IndexKeyIs DEF EntriesAbove, StoreOK, Indexable
  <1>6. Answer(store.data, req) = IF S = {} THEN Undef ELSE store.data[Min(S)]
    BY AnswerIs
  <1>7. Performed(store, req) = [[error |-> "none",
                                  answer |-> IF next.key = Undef THEN Undef ELSE ValueOf(store, next.key),
                                  store |-> store, after |-> Undef] EXCEPT !.after = next.key]
    BY DEF Performed
  <1>. HIDE DEF found, S, next
  <1>8. (IF next.key = Undef THEN Undef ELSE ValueOf(store, next.key)) = Answer(store.data, req)
    BY <1>3, <1>4, <1>5, <1>6 DEF ValueOf
  <1>. QED
    BY <1>7, <1>8, EffectIs DEF RightFor

LEMMA PutIsRight ==
  ASSUME OneIndexKey, NEW store, StoreOK(store), NEW req, RequestOK(req), req.op \in {"put", "add"}
  PROVE  RightFor(store, req)
  <1>. DEFINE level == IF req.op = "put" THEN "AllowOverwrite" ELSE "NoOverwrite"
              r == StoreRecord(store, Schema, level, req.value, Undef)
  <1>1. level \in {"AllowOverwrite", "NoOverwrite"} /\ req.value \in Values
        /\ (req.op = "add" => level = "NoOverwrite")
    BY DEF RequestOK
  <1>2. Performed(store, req) = IF r.error # "none" THEN r
                                ELSE [error |-> "none", answer |-> req.value.key, store |-> r.store,
                                      after |-> Undef]
    BY DEF Performed
  <1>. HIDE DEF level
  <1>3. r.error = "none" => /\ r.store.data = With(store.data, req.value.key, req.value)
                            /\ level = "NoOverwrite" => req.value.key \notin DOMAIN store.data
    BY <1>1, StoreRecordIs
  <1>. HIDE DEF r
  <1>4. /\ Effect(store.data, req) = With(store.data, req.value.key, req.value)
        /\ Answer(store.data, req) = req.value.key
    BY EffectIs, AnswerIs
  <1>. QED
    BY <1>1, <1>2, <1>3, <1>4 DEF RightFor

LEMMA DeleteIsRight ==
  ASSUME OneIndexKey, NEW store, StoreOK(store), NEW req, RequestOK(req), req.op = "delete"
  PROVE  RightFor(store, req)
  <1>. DEFINE r == DeleteRecord(store, Schema, Only(req.key))
  <1>1. Performed(store, req) = IF r.error # "none" THEN r
                                ELSE [error |-> "none", answer |-> Undef, store |-> r.store, after |-> Undef]
    BY DEF Performed
  <1>2. r.error = "none" => r.store.data = [k \in DOMAIN store.data \ {req.key} |-> store.data[k]]
    BY DeleteLeaves DEF RequestOK
  <1>. HIDE DEF r
  <1>. QED
    BY <1>1, <1>2, EffectIs, AnswerIs DEF RightFor

LEMMA MutateIsRight ==
  ASSUME OneIndexKey, NEW store, StoreOK(store), Plain(store.data), NEW req, RequestOK(req), req.op = "mutate"
  PROVE  RightFor(store, req)
  <1>. DEFINE data == store.data
              cursor == NewCursor(FALSE, Only(req.key), "next")
              found == Iterate(store, cursor)
              value == [data[found.key] EXCEPT !.body = req.body]
              r == StoreRecord(store, Schema, "UpdateExisting", value, found.key)
  <1>1. req.key \in Keys /\ req.key # Undef
    BY DEF RequestOK, OneIndexKey
  <1>2. found.key = IF req.key \in DOMAIN data THEN req.key ELSE Undef
    <2>1. cursor.byIndex = FALSE /\ cursor.query = Query(Only(req.key), "next")
      BY DEF NewCursor
    <2>. HIDE DEF cursor
    <2>2. found.key = GetFromStore(store, cursor.query)
      BY <2>1 DEF Iterate
    <2>. QED
      BY <1>1, <2>1, <2>2, FoundInStore
  <1>3. Performed(store, req) = IF found.key = Undef
                                THEN [error |-> "none", answer |-> Undef, store |-> store, after |-> Undef]
                                ELSE IF r.error # "none" THEN r
                                ELSE [error |-> "none", answer |-> Undef, store |-> r.store, after |-> Undef]
    BY DEF Performed
  <1>4. Effect(data, req) = [k \in DOMAIN data |->
                               IF k = req.key THEN [data[k] EXCEPT !.body = req.body] ELSE data[k]]
    BY EffectIs
  <1>5. Answer(data, req) = Undef
    BY AnswerIs
  <1>6. CASE req.key \notin DOMAIN data
    <2>1. Effect(data, req) = [k \in DOMAIN data |-> data[k]]
      BY <1>4, <1>6
    <2>2. Effect(data, req) = data
      BY <2>1 DEF Plain
    <2>. HIDE DEF found, r
    <2>. QED
      BY <1>2, <1>3, <1>5, <1>6, <2>2 DEF RightFor
  <1>7. CASE req.key \in DOMAIN data
    <2>. DEFINE w == WithRecord(store, Schema, req.key, value, store.gen)
    <2>1. found.key = req.key
      BY <1>2, <1>7
    <2>2. r = w
      <3>. HIDE DEF value, found
      <3>. QED
        BY <1>7, <2>1 DEF StoreRecord
    <2>3. PICK v \in Values : v.key = req.key /\ v.by = data[req.key].by
      BY <1>7 DEF StoreOK
    <2>4. DOMAIN value = {"key", "by", "body"} /\ v.by = value.by
      <3>. HIDE DEF found
      <3>. QED
        BY <1>7, <2>1, <2>3 DEF StoreOK
    <2>5. w.store.data = With(data, req.key, value)
      <3>. HIDE DEF value
      <3>. QED
        BY <2>3, <2>4, WithRecordIs
    <2>6. With(data, req.key, value) = Effect(data, req)
      <3>1. DOMAIN data \cup {req.key} = DOMAIN data
        BY <1>7
      <3>2. value = [data[req.key] EXCEPT !.body = req.body]
        BY <2>1
      <3>. HIDE DEF value, data
      <3>. QED
        BY <1>4, <3>1, <3>2 DEF With
    <2>. HIDE DEF w, r, found
    <2>. QED
      BY <1>1, <1>3, <1>5, <2>1, <2>2, <2>5, <2>6 DEF RightFor
  <1>. QED
    BY <1>6, <1>7

\* Every request answers and does what SerialStore says.
LEMMA PerformedIsRight ==
  ASSUME OneIndexKey, NEW store, StoreOK(store), Plain(store.data), NEW req, RequestOK(req)
  PROVE  RightFor(store, req)
  BY GetIsRight, GetIndexedIsRight, NextIsRight, PutIsRight, DeleteIsRight, MutateIsRight DEF RequestOK

LEMMA EffectIsPlain ==
  ASSUME NEW data, Plain(data), NEW req, RequestOK(req)
  PROVE  Plain(Effect(data, req))
  <1>1. IsFiniteSet(DOMAIN data \cup {req.value.key}) /\ IsFiniteSet(DOMAIN data \ {req.key})
    BY FS_AddElement, FS_RemoveElement DEF Plain
  <1>2. CASE req.op \in {"put", "add"}
    <2>. DEFINE new == With(data, req.value.key, req.value)
    <2>1. new = [k \in DOMAIN new |-> new[k]] /\ DOMAIN new = DOMAIN data \cup {req.value.key}
      BY DEF With
    <2>2. Effect(data, req) = new
      BY <1>2, EffectIs
    <2>. HIDE DEF new
    <2>. QED
      BY <1>1, <2>1, <2>2 DEF Plain
  <1>3. CASE req.op = "delete"
    <2>. DEFINE new == [k \in DOMAIN data \ {req.key} |-> data[k]]
    <2>1. new = [k \in DOMAIN new |-> new[k]] /\ DOMAIN new = DOMAIN data \ {req.key}
      OBVIOUS
    <2>2. Effect(data, req) = new
      BY <1>3, EffectIs
    <2>. HIDE DEF new
    <2>. QED
      BY <1>1, <2>1, <2>2 DEF Plain
  <1>4. CASE req.op = "mutate"
    <2>. DEFINE new == [k \in DOMAIN data |->
                          IF k = req.key THEN [data[k] EXCEPT !.body = req.body] ELSE data[k]]
    <2>1. new = [k \in DOMAIN new |-> new[k]] /\ DOMAIN new = DOMAIN data
      OBVIOUS
    <2>2. Effect(data, req) = new
      BY <1>4, EffectIs
    <2>. HIDE DEF new
    <2>. QED
      BY <2>1, <2>2 DEF Plain
  <1>5. CASE req.op \in {"get", "getIndexed", "next"}
    <2>1. Effect(data, req) = data
      BY <1>5, EffectIs
    <2>. QED
      BY <2>1
  <1>. QED
    BY <1>2, <1>3, <1>4, <1>5 DEF RequestOK

-----------------------------------------------------------------------------
(* The histories through all steps                                         *)

ReadOps == {"get", "getIndexed", "next"}
OnlyReads(requests) == \E S : requests \in Seq(S) /\ \A req \in S : req.op \in ReadOps
ReadsOK(tx) == tx.state = "active" /\ tx.mode = "readonly" => OnlyReads(tx.requests)
FiledOK ==
  /\ dumping \in Txs => /\ ~txs[dumping].stored
                        /\ Replayed(disk.store.data, txs[dumping].history, backend.original.data)
  /\ dumping \notin Txs => disk.store.data = backend.original.data
  /\ Plain(disk.store.data)

\* ReplaysOK, with what its induction needs.
Replaying ==
  /\ \A t \in Begun : Replayed(backend.original.data, txs[t].history, backend.modified.data)
  /\ \A t \in Txs : ReadsOK(txs[t])
  /\ (\A t \in Begun : txs[t].mode = "readonly") => backend.modified.data = backend.original.data
  /\ FiledOK
  /\ Plain(backend.original.data) /\ Plain(backend.modified.data)

\* What the file has, in the words of SerialStore.
Done(ts) == [t \in Txs |-> IF ts[t].stored THEN {ts[t].history} ELSE {}]
Idle == disk'.store.data = disk.store.data /\ Done(txs') = Done(txs)
CommitsWhole(t) ==
  /\ Done(txs)[t] = {}
  /\ \E history \in Done(txs')[t] :
       /\ Serial!Explained(disk.store.data, history)
       /\ Done(txs') = [Done(txs) EXCEPT ![t] = {history}]
       /\ disk'.store.data = Serial!After(disk.store.data, history)[Len(history)]
Advances == Idle \/ \E t \in Txs : CommitsWhole(t)

LEMMA NothingIsRead == OnlyReads(<<>>)
  <1>. DEFINE nobody == {}
  <1>1. <<>> \in Seq(nobody) /\ \A req \in nobody : req.op \in ReadOps
    OBVIOUS
  <1>. HIDE DEF nobody
  <1>. QED
    BY <1>1 DEF OnlyReads

\* What a step keeps of a transaction that it does not commit.
Carries(tx, new) ==
  /\ new.stored = tx.stored
  /\ tx.stored => new.history = tx.history
  /\ new.state = "active" => \/ /\ tx.state = "active" /\ new.mode = tx.mode
                                /\ new.requests = tx.requests
                             \/ new.requests = <<>>
GoesOnIn(tx, new) ==
  /\ new.state = "active" /\ new.begun <=> tx.state = "active" /\ tx.begun
  /\ tx.state = "active" /\ tx.begun => new.history = tx.history /\ new.mode = tx.mode

LEMMA CarriesOn ==
  ASSUME Replaying, \A u \in Txs : Carries(txs[u], txs'[u])
  PROVE  (\A u \in Txs : ReadsOK(txs'[u])) /\ Done(txs') = Done(txs)
  <1>1. \A u \in Txs : ReadsOK(txs'[u])
    BY NothingIsRead DEF Carries, ReadsOK, Replaying
  <1>2. \A u \in Txs : (IF txs'[u].stored THEN {txs'[u].history} ELSE {})
                       = IF txs[u].stored THEN {txs[u].history} ELSE {}
    BY DEF Carries
  <1>3. Done(txs') = Done(txs)
    BY <1>2 DEF Done
  <1>. QED
    BY <1>1, <1>3

\* The same transaction goes on, with the same records.
LEMMA SameReplays ==
  ASSUME Replaying, \A u \in Txs : ReadsOK(txs'[u]), \A u \in Txs : GoesOnIn(txs[u], txs'[u]),
         backend'.original.data = backend.original.data, backend'.modified.data = backend.modified.data,
         FiledOK'
  PROVE  Replaying'
  <1>1. Begun' = Begun /\ \A t \in Begun : txs'[t].history = txs[t].history /\ txs'[t].mode = txs[t].mode
    BY DEF Begun, GoesOnIn
  <1>2. \A t \in Begun' : Replayed(backend'.original.data, txs'[t].history, backend'.modified.data)
    BY <1>1 DEF Replaying
  <1>3. (\A t \in Begun' : txs'[t].mode = "readonly") => backend'.modified.data = backend'.original.data
    BY <1>1 DEF Replaying
  <1>4. Plain(backend'.original.data) /\ Plain(backend'.modified.data)
    BY DEF Replaying
  <1>. QED
    BY <1>2, <1>3, <1>4 DEF Replaying

LEMMA SameFile ==
  ASSUME FiledOK, dumping' = dumping, disk'.store.data = disk.store.data,
         backend'.original.data = backend.original.data,
         dumping \in Txs => /\ txs'[dumping].history = txs[dumping].history
                            /\ txs'[dumping].stored = txs[dumping].stored
  PROVE  FiledOK'
  BY DEF FiledOK

LEMMA QuietReplays ==
  ASSUME Replaying, \A u \in Txs : Carries(txs[u], txs'[u]), \A u \in Txs : GoesOnIn(txs[u], txs'[u]),
         dumping' = dumping, disk'.store.data = disk.store.data,
         backend'.original.data = backend.original.data, backend'.modified.data = backend.modified.data,
         dumping \in Txs => txs'[dumping].history = txs[dumping].history
  PROVE  Replaying' /\ Idle
  <1>1. FiledOK /\ \A u \in Txs : txs'[u].stored = txs[u].stored
    BY DEF Replaying, Carries
  <1>2. FiledOK'
    BY <1>1, SameFile
  <1>. QED
    BY <1>2, CarriesOn, SameReplays DEF Idle

\* Whoever has begun has done nothing yet.
LEMMA FreshReplays ==
  ASSUME \A u \in Txs : ReadsOK(txs'[u]), \A u \in Txs : txs'[u].state = "active" => txs'[u].history = <<>>,
         backend'.modified.data = backend'.original.data, Plain(backend'.original.data), FiledOK'
  PROVE  Replaying'
  <1>1. \A u \in Begun' : Replayed(backend'.original.data, txs'[u].history, backend'.modified.data)
    BY NothingReplayed DEF Begun
  <1>. QED
    BY <1>1 DEF Replaying

\* The transaction that gets the database changes in nothing else.
LEMMA FreedBegins ==
  ASSUME NEW level, NEW ts, DOMAIN ts = Txs, NEW queue \in Seq(Txs), \A t \in Txs : DOMAIN ts[t] = DOMAIN NoTx
  PROVE  \A u \in Txs : LET new == Freed(level, ts, queue).txs[u]
                        IN /\ new.state = ts[u].state /\ new.mode = ts[u].mode
                           /\ new.requests = ts[u].requests
                           /\ new.history = ts[u].history /\ new.stored = ts[u].stored
  <1>1. CASE queue = <<>>
    BY <1>1 DEF Freed
  <1>2. CASE queue # <<>>
    <2>. DEFINE h == Head(queue)
    <2>1. h \in Txs
      BY <1>2
    <2>2. Freed(level, ts, queue).txs = [ts EXCEPT ![h].begun = TRUE, ![h].task = "runs"]
      BY <1>2 DEF Freed
    <2>. HIDE DEF h
    <2>. QED
      BY <2>1, <2>2 DEF NoTx
  <1>. QED
    BY <1>1, <1>2

\* What holds of every state, in the form that the steps use.
LEMMA States ==
  ASSUME OutcomeOK, OwnersOK
  PROVE  /\ DOMAIN txs = Txs /\ waiting \in Seq(Txs)
         /\ \A u \in Txs : /\ DOMAIN txs[u] = DOMAIN NoTx /\ ToldOK(txs[u]) /\ txs[u].stored \in BOOLEAN
                           /\ txs[u].state = "active" /\ txs[u].task = "runs" => txs[u].begun
                           /\ txs[u].state = "active" /\ ~txs[u].begun => txs[u].history = <<>>
                           /\ txs[u].state \in {"none", "active"} => ~txs[u].stored
         /\ dumping \in Txs => txs[dumping].state = "committing"
  BY DEF OutcomeOK, OwnersOK, ToldOK

LEMMA AbortReplays ==
  ASSUME OutcomeOK, OwnersOK, Replaying, DOMAIN backend = DOMAIN EmptyDatabase, NEW t \in Txs, NEW task,
         Abort(t, task), txs[t].state = "active", dumping' = dumping, disk' = disk
  PROVE  Replaying' /\ Idle
  <1>. DEFINE over == [Over(txs[t], "pending") EXCEPT !.aborting = TRUE, !.task = task,
                                             !.begun = txs[t].begun, !.mode = txs[t].mode]
              ts == [txs EXCEPT ![t] = over]
              freed == Freed("connected", ts, waiting)
  <1>1. /\ over.state = "finished" /\ over.stored = FALSE /\ over.requests = <<>> /\ DOMAIN over = DOMAIN NoTx
        /\ txs[t].stored = FALSE
    <2>1. txs[t].stored = FALSE
      BY States
    <2>. QED
      BY <2>1 DEF Over, NoTx
  <1>2. DOMAIN ts = Txs /\ ts[t] = over /\ (\A u \in Txs \ {t} : ts[u] = txs[u])
        /\ \A u \in Txs : DOMAIN ts[u] = DOMAIN NoTx
    BY <1>1, States
  <1>3. \/ /\ txs[t].begun
           /\ backend' = [backend EXCEPT !.modified = backend.original, !.level = freed.level]
           /\ txs' = freed.txs /\ waiting' = freed.waiting
        \/ ~txs[t].begun /\ txs' = ts /\ waiting' = waiting /\ backend' = backend
    BY DEF Abort
  <1>. HIDE DEF ts, over
  <1>4. dumping \in Txs => dumping # t
    BY States
  <1>5. CASE ~txs[t].begun
    <2>1. \A u \in Txs : Carries(txs[u], txs'[u]) /\ GoesOnIn(txs[u], txs'[u])
      BY <1>1, <1>2, <1>3, <1>5 DEF Carries, GoesOnIn
    <2>. QED
      BY <1>2, <1>3, <1>4, <1>5, <2>1, QuietReplays
  <1>6. CASE txs[t].begun
    <2>1. \A u \in Txs : /\ txs'[u].state = ts[u].state /\ txs'[u].mode = ts[u].mode
                         /\ txs'[u].requests = ts[u].requests
                         /\ txs'[u].history = ts[u].history /\ txs'[u].stored = ts[u].stored
      BY <1>2, <1>3, <1>6, FreedBegins, States
    <2>2. backend'.modified = backend.original /\ backend'.original = backend.original
      <3>. HIDE DEF freed
      <3>. QED
        BY <1>3, <1>6 DEF EmptyDatabase
    <2>3. \A u \in Txs : Carries(txs[u], txs'[u])
      <3>1. Carries(txs[t], txs'[t])
        BY <1>1, <1>2, <2>1 DEF Carries
      <3>2. \A u \in Txs \ {t} : Carries(txs[u], txs'[u])
        BY <1>2, <2>1 DEF Carries
      <3>. QED
        BY <3>1, <3>2
    <2>4. \A u \in Txs : txs'[u].state = "active" => txs'[u].history = <<>>
      <3>1. \A u \in Txs \ {t} : ~(txs[u].state = "active" /\ txs[u].begun)
        BY <1>6 DEF OwnersOK, Begun
      <3>. QED
        BY <1>1, <1>2, <2>1, <3>1, States
    <2>5. FiledOK'
      <3>1. FiledOK
        BY DEF Replaying
      <3>2. dumping \in Txs => /\ txs'[dumping].history = txs[dumping].history
                               /\ txs'[dumping].stored = txs[dumping].stored
        BY <1>2, <1>4, <2>1
      <3>. QED
        BY <2>2, <3>1, <3>2, SameFile
    <2>. QED
      BY <2>2, <2>3, <2>4, <2>5, CarriesOn, FreshReplays DEF Idle, Replaying
  <1>. QED
    BY <1>5, <1>6

LEMMA CommitReplays ==
  ASSUME OutcomeOK, OwnersOK, Replaying, DOMAIN backend = DOMAIN EmptyDatabase, NEW t \in Txs, Commit(t)
  PROVE  Replaying' /\ Advances
  <1>. DEFINE readonly == txs[t].mode = "readonly"
              tx == [txs[t] EXCEPT !.state = "committing", !.task = "none", !.stored = readonly]
              ts == [txs EXCEPT ![t] = tx]
              freed == Freed("connected", ts, waiting)
              history == txs[t].history
  <1>1. /\ t \in Begun /\ dumping = Undef /\ txs[t].requests = <<>> /\ disk' = disk
        /\ dumping' = IF txs[t].mode = "readwrite" THEN t ELSE Undef
        /\ txs[t].mode \in {"readonly", "readwrite"} /\ txs[t].stored = FALSE
    BY States DEF Commit, Begun, ToldOK
  <1>2. /\ tx.state = "committing" /\ tx.stored = readonly /\ DOMAIN tx = DOMAIN NoTx /\ tx.history = history
        /\ tx.requests = txs[t].requests
    BY States DEF NoTx
  <1>3. DOMAIN ts = Txs /\ ts[t] = tx /\ (\A u \in Txs \ {t} : ts[u] = txs[u])
        /\ \A u \in Txs : DOMAIN ts[u] = DOMAIN NoTx
    BY <1>2, States
  <1>4. /\ txs' = freed.txs
        /\ backend' = [backend EXCEPT !.original = backend.modified, !.level = freed.level]
    BY DEF Commit
  <1>. HIDE DEF ts, tx
  <1>5. \A u \in Txs : /\ txs'[u].state = ts[u].state /\ txs'[u].mode = ts[u].mode
                       /\ txs'[u].requests = ts[u].requests
                       /\ txs'[u].history = ts[u].history /\ txs'[u].stored = ts[u].stored
    BY <1>3, <1>4, FreedBegins, States
  <1>6. backend'.modified = backend.modified /\ backend'.original = backend.modified
    <2>. HIDE DEF freed
    <2>. QED
      BY <1>4 DEF EmptyDatabase
  <1>. HIDE DEF freed
  <1>7. \A u \in Txs : txs'[u].state = "active" => txs'[u].history = <<>>
    <2>1. \A u \in Txs \ {t} : ~(txs[u].state = "active" /\ txs[u].begun)
      BY <1>1 DEF OwnersOK, Begun
    <2>. QED
      BY <1>2, <1>3, <1>5, <2>1, States
  <1>8. \A u \in Txs : ReadsOK(txs'[u])
    <2>1. ReadsOK(txs'[t])
      BY <1>2, <1>3, <1>5 DEF ReadsOK
    <2>2. \A u \in Txs \ {t} : ReadsOK(txs'[u])
      BY <1>3, <1>5 DEF ReadsOK, Replaying
    <2>. QED
      BY <2>1, <2>2
  <1>9. /\ Replayed(disk.store.data, history, backend.modified.data)
        /\ readonly => disk.store.data = backend.modified.data
        /\ disk.store.data = backend.original.data /\ Plain(disk.store.data) /\ Plain(backend.modified.data)
    <2>1. disk.store.data = backend.original.data
      BY <1>1, DatabaseAssumption DEF Replaying, FiledOK
    <2>2. \A u \in Begun : u = t
      BY <1>1 DEF OwnersOK
    <2>. QED
      BY <1>1, <2>1, <2>2 DEF Replaying, FiledOK
  <1>10. txs'[t].stored = readonly /\ txs'[t].history = history
    BY <1>2, <1>3, <1>5
  <1>11. FiledOK'
    <2>1. CASE readonly
      BY <1>1, <1>6, <1>9, <2>1, DatabaseAssumption DEF FiledOK
    <2>2. CASE ~readonly
      BY <1>1, <1>6, <1>9, <1>10, <2>2 DEF FiledOK
    <2>. QED
      BY <2>1, <2>2
  <1>12. Replaying'
    BY <1>6, <1>7, <1>8, <1>9, <1>11, FreshReplays
  <1>13. Advances
    <2>1. \A u \in Txs \ {t} : txs'[u].stored = txs[u].stored /\ txs'[u].history = txs[u].history
      BY <1>3, <1>5
    <2>2. CASE ~readonly
      <3>1. \A u \in Txs : Done(txs')[u] = Done(txs)[u]
        BY <1>1, <1>10, <2>1, <2>2 DEF Done
      <3>2. Done(txs') = Done(txs)
        BY <3>1 DEF Done
      <3>. QED
        BY <1>1, <3>2 DEF Advances, Idle
    <2>3. CASE readonly
      <3>1. Done(txs)[t] = {} /\ Done(txs')[t] = {history}
        BY <1>1, <1>10, <2>3 DEF Done
      <3>2. Done(txs') = [Done(txs) EXCEPT ![t] = {history}]
        BY <2>1, <3>1 DEF Done
      <3>3. /\ Serial!Explained(disk.store.data, history)
            /\ disk'.store.data = Serial!After(disk.store.data, history)[Len(history)]
        BY <1>1, <1>9, <2>3 DEF Replayed, LeadsTo
      <3>. HIDE DEF history
      <3>4. CommitsWhole(t)
        BY <3>1, <3>2, <3>3 DEF CommitsWhole
      <3>. QED
        BY <3>4 DEF Advances
    <2>. QED
      BY <2>2, <2>3
  <1>. QED
    BY <1>12, <1>13

LEMMA DumpReplays ==
  ASSUME OutcomeOK, OwnersOK, Replaying, DOMAIN backend = DOMAIN EmptyDatabase, Dump
  PROVE  Replaying' /\ Advances
  <1>1. /\ dumping # Undef /\ dumping' = Undef /\ backend' = backend /\ disk'.store = backend.original
        /\ txs' = [u \in Txs |-> [txs[u] EXCEPT !.stored = @ \/ u = dumping]]
    BY DEF Dump
  <1>2. \A u \in Txs : /\ txs'[u].state = txs[u].state /\ txs'[u].mode = txs[u].mode
                       /\ txs'[u].requests = txs[u].requests /\ txs'[u].history = txs[u].history
                       /\ txs'[u].begun = txs[u].begun /\ txs'[u].stored = (txs[u].stored \/ u = dumping)
    BY <1>1, States DEF NoTx
  <1>3. Replaying'
    <2>1. FiledOK'
      BY <1>1, DatabaseAssumption DEF FiledOK, Replaying
    <2>2. \A u \in Txs : GoesOnIn(txs[u], txs'[u]) /\ ReadsOK(txs'[u])
      BY <1>2 DEF GoesOnIn, ReadsOK, Replaying
    <2>. QED
      BY <1>1, <2>1, <2>2, SameReplays
  <1>4. CASE dumping \in Txs
    <2>. DEFINE t == dumping
                history == txs[t].history
    <2>1. /\ ~txs[t].stored /\ Replayed(disk.store.data, history, backend.original.data)
      BY <1>4 DEF Replaying, FiledOK
    <2>2. Done(txs)[t] = {} /\ Done(txs')[t] = {history}
      BY <1>2, <1>4, <2>1 DEF Done
    <2>3. \A u \in Txs \ {t} : txs'[u].stored = txs[u].stored /\ txs'[u].history = txs[u].history
      BY <1>2, States
    <2>4. Done(txs') = [Done(txs) EXCEPT ![t] = {history}]
      BY <2>2, <2>3 DEF Done
    <2>5. /\ Serial!Explained(disk.store.data, history)
          /\ disk'.store.data = Serial!After(disk.store.data, history)[Len(history)]
      BY <1>1, <2>1 DEF Replayed, LeadsTo
    <2>. HIDE DEF history
    <2>6. CommitsWhole(t)
      BY <2>2, <2>4, <2>5 DEF CommitsWhole
    <2>. QED
      BY <1>3, <1>4, <2>6 DEF Advances
  <1>5. CASE dumping \notin Txs
    <2>1. \A u \in Txs : txs'[u].stored = txs[u].stored
      BY <1>2, <1>5, States
    <2>2. \A u \in Txs : Done(txs')[u] = Done(txs)[u]
      BY <1>2, <2>1 DEF Done
    <2>3. Done(txs') = Done(txs)
      BY <2>2 DEF Done
    <2>4. disk'.store.data = disk.store.data
      BY <1>1, <1>5 DEF Replaying, FiledOK
    <2>. QED
      BY <1>3, <2>3, <2>4 DEF Advances, Idle
  <1>. QED
    BY <1>4, <1>5

\* A crash loses what is not in the file, and the file stays as it is.
LEMMA CrashReplays ==
  ASSUME ~TornWrites, OutcomeOK, OwnersOK, Replaying, Crash
  PROVE  Replaying' /\ Idle
  <1>1. /\ disk' = disk /\ dumping' = Undef
        /\ backend' = [EmptyDatabase EXCEPT !.original = disk.store, !.modified = disk.store,
                                            !.version = disk.version]
    BY DEF Crash
  <1>2. backend'.original = disk.store /\ backend'.modified = disk.store
    BY <1>1 DEF EmptyDatabase
  <1>3. txs' = [u \in Txs |-> IF txs[u].state = "none" THEN NoTx
                              ELSE Over(txs[u], IF txs[u].promise = "pending" THEN "gone"
                                                ELSE txs[u].promise)]
    BY DEF Crash
  <1>4. \A u \in Txs : /\ txs'[u].state # "active" /\ txs'[u].stored = txs[u].stored
                       /\ txs[u].stored => txs'[u].history = txs[u].history
    <2>1. ASSUME NEW u \in Txs, txs[u].state = "none"
          PROVE  txs'[u].state # "active" /\ txs'[u].stored = txs[u].stored /\ ~txs[u].stored
      BY <1>3, <2>1, States DEF NoTx
    <2>2. ASSUME NEW u \in Txs, txs[u].state # "none"
          PROVE  /\ txs'[u].state # "active" /\ txs'[u].stored = txs[u].stored
                 /\ txs[u].stored => txs'[u].history = txs[u].history
      BY <1>3, <2>2 DEF Over, NoTx
    <2>. QED
      BY <2>1, <2>2
  <1>5. \A u \in Txs : Carries(txs[u], txs'[u])
    BY <1>4 DEF Carries
  <1>6. Plain(disk.store.data) /\ FiledOK'
    BY <1>1, <1>2, DatabaseAssumption DEF Replaying, FiledOK
  <1>. QED
    BY <1>1, <1>2, <1>4, <1>5, <1>6, CarriesOn, FreshReplays DEF Idle

LEMMA FewerReads ==
  ASSUME NEW requests, OnlyReads(requests), requests # <<>>
  PROVE  Head(requests).op \in ReadOps /\ OnlyReads(Tail(requests))
  <1>1. PICK S : requests \in Seq(S) /\ \A req \in S : req.op \in ReadOps
    BY DEF OnlyReads
  <1>2. Head(requests) \in S /\ Tail(requests) \in Seq(S)
    BY <1>1
  <1>. QED
    BY <1>1, <1>2 DEF OnlyReads

LEMMA RunRequestReplays ==
  ASSUME OneIndexKey, OutcomeOK, OwnersOK, Indexed, Replaying, NEW t \in Txs, RunRequest(t)
  PROVE  Replaying' /\ Idle
  <1>. DEFINE req == Head(txs[t].requests)
              result == Performed(backend.modified, req)
              entry == [req |-> req, answer |-> result.answer]
              history == txs[t].history
  <1>1. /\ txs[t].state = "active" /\ DOMAIN txs = Txs /\ DOMAIN txs[t] = DOMAIN NoTx /\ t \in Begun
        /\ txs[t].requests # <<>> /\ RequestsFit(txs[t].requests) /\ disk' = disk
        /\ dumping = Undef /\ dumping' = dumping /\ DOMAIN backend = DOMAIN EmptyDatabase
    BY States DEF RunRequest, ToldOK, Indexed, Begun
  <1>2. CASE Abort(t, "queued")
    BY <1>1, <1>2, AbortReplays
  <1>3. CASE ~Abort(t, "queued")
    <2>1. /\ backend' = [backend EXCEPT !.modified = result.store] /\ result.error = "none"
          /\ txs' = [txs EXCEPT ![t].requests = Tail(@), ![t].f = Heard(@), ![t].after = result.after,
                        ![t].history = Append(@, entry),
                        ![t].task = IF Len(txs[t].requests) > 1 THEN "runs" ELSE "queued"]
      BY <1>3 DEF RunRequest
    <2>2. RequestOK(req)
      BY <1>1, FewerRequestsFit
    <2>3. StoreOK(backend.modified) /\ Plain(backend.modified.data)
      BY DEF Indexed, IndexesOK, Replaying
    <2>4. entry.req = req /\ entry.answer = result.answer
      OBVIOUS
    <2>. HIDE DEF req, entry
    <2>5. RightFor(backend.modified, req)
      BY <2>2, <2>3, PerformedIsRight
    <2>6. /\ result.answer = Answer(backend.modified.data, req)
          /\ result.store.data = Effect(backend.modified.data, req)
          /\ req.op = "add" => req.value.key \notin DOMAIN backend.modified.data
      BY <2>1, <2>5 DEF RightFor
    <2>. HIDE DEF result
    <2>7. /\ \A u \in Txs \ {t} : txs'[u] = txs[u]
          /\ txs'[t].state = "active" /\ txs'[t].mode = txs[t].mode /\ txs'[t].begun = txs[t].begun
          /\ txs'[t].stored = txs[t].stored /\ txs'[t].requests = Tail(txs[t].requests)
          /\ txs'[t].history = Append(history, entry)
      BY <1>1, <2>1 DEF NoTx
    <2>8. backend'.modified = result.store /\ backend'.original = backend.original
      BY <1>1, <2>1 DEF EmptyDatabase
    <2>9. Replayed(backend.original.data, history, backend.modified.data)
      BY <1>1 DEF Replaying
    <2>. HIDE DEF history
    <2>10. Replayed(backend'.original.data, txs'[t].history, backend'.modified.data)
      BY <2>4, <2>6, <2>7, <2>8, <2>9, OneMoreReplayed
    <2>11. Begun' = {t} /\ \A u \in Begun : u = t
      BY <1>1, <2>7 DEF OwnersOK, Begun
    <2>12. \A u \in Txs : ReadsOK(txs'[u])
      <3>1. ReadsOK(txs'[t])
        BY <1>1, <2>7, FewerReads DEF ReadsOK, Replaying
      <3>. QED
        BY <2>7, <3>1 DEF Replaying
    <2>13. (\A u \in Begun' : txs'[u].mode = "readonly") => backend'.modified.data = backend'.original.data
      <3>1. SUFFICES ASSUME txs[t].mode = "readonly"
                     PROVE  backend'.modified.data = backend'.original.data
        BY <2>7, <2>11
      <3>2. backend.modified.data = backend.original.data
        BY <2>11, <3>1 DEF Replaying
      <3>3. req.op \in ReadOps
        BY <1>1, <3>1, FewerReads DEF ReadsOK, Replaying, req
      <3>4. Effect(backend.modified.data, req) = backend.modified.data
        BY <3>3, EffectIs DEF ReadOps
      <3>. QED
        BY <2>6, <2>8, <3>2, <3>4
    <2>14. Plain(backend'.original.data) /\ Plain(backend'.modified.data)
      BY <2>2, <2>3, <2>6, <2>8, EffectIsPlain DEF Replaying
    <2>15. FiledOK'
      <3>1. FiledOK /\ dumping \notin Txs
        BY <1>1, DatabaseAssumption DEF Replaying
      <3>. QED
        BY <1>1, <2>8, <3>1, SameFile
    <2>16. Replaying'
      BY <2>10, <2>11, <2>12, <2>13, <2>14, <2>15 DEF Replaying
    <2>17. Idle
      <3>1. ~txs[t].stored
        BY <1>1, States
      <3>2. \A u \in Txs : Done(txs')[u] = Done(txs)[u]
        BY <2>7, <3>1 DEF Done
      <3>. QED
        BY <1>1, <3>2 DEF Idle, Done
    <2>. QED
      BY <2>16, <2>17
  <1>. QED
    BY <1>2, <1>3

LEMMA MakeRequestReplays ==
  ASSUME OutcomeOK, OwnersOK, Replaying, NEW t \in Txs, MakeRequest(t)
  PROVE  Replaying' /\ Idle
  <1>1. PICK req \in RequestsOf(t), f \in {"waits", "returned"} :
          txs' = [txs EXCEPT ![t].requests = Append(@, req), ![t].f = f]
    BY DEF MakeRequest
  <1>2. /\ \A u \in Txs \ {t} : txs'[u] = txs[u]
        /\ txs'[t].state = txs[t].state /\ txs'[t].mode = txs[t].mode /\ txs'[t].begun = txs[t].begun
        /\ txs'[t].stored = txs[t].stored /\ txs'[t].requests = Append(txs[t].requests, req)
        /\ txs'[t].history = txs[t].history
    BY <1>1, States DEF NoTx
  <1>3. UNCHANGED <<backend, disk, dumping>>
    BY DEF MakeRequest
  <1>4. \A u \in Txs : GoesOnIn(txs[u], txs'[u])
    BY <1>2 DEF GoesOnIn
  <1>5. ReadsOK(txs'[t])
    <2>1. SUFFICES ASSUME txs[t].state = "active", txs[t].mode = "readonly"
                   PROVE  OnlyReads(Append(txs[t].requests, req))
      BY <1>2 DEF ReadsOK
    <2>2. req.op \in ReadOps
      <3>1. req \in Reads(t)
        BY <2>1 DEF RequestsOf
      <3>. QED
        BY <3>1 DEF Reads, ReadOps
    <2>3. PICK S : txs[t].requests \in Seq(S) /\ \A q \in S : q.op \in ReadOps
      BY <2>1 DEF Replaying, ReadsOK, OnlyReads
    <2>4. txs[t].requests \in Seq(S \cup {req})
      BY <2>3
    <2>5. Append(txs[t].requests, req) \in Seq(S \cup {req})
      BY <2>4
    <2>. QED
      BY <2>2, <2>3, <2>5 DEF OnlyReads
  <1>6. \A u \in Txs : ReadsOK(txs'[u])
    BY <1>2, <1>5 DEF Replaying
  <1>7. FiledOK'
    <2>1. FiledOK
      BY DEF Replaying
    <2>2. \A u \in Txs : txs'[u].history = txs[u].history /\ txs'[u].stored = txs[u].stored
      BY <1>2
    <2>. QED
      BY <1>3, <2>1, <2>2, SameFile
  <1>8. Done(txs') = Done(txs)
    <2>1. \A u \in Txs : Done(txs')[u] = Done(txs)[u]
      BY <1>2 DEF Done
    <2>. QED
      BY <2>1 DEF Done
  <1>. QED
    BY <1>3, <1>4, <1>6, <1>7, <1>8, SameReplays DEF Idle

LEMMA StartReplays ==
  ASSUME OutcomeOK, OwnersOK, Replaying, DOMAIN backend = DOMAIN EmptyDatabase, NEW t \in Txs, Start(t)
  PROVE  Replaying' /\ Idle
  <1>1. UNCHANGED <<disk, dumping>> /\ DOMAIN txs = Txs /\ DOMAIN txs[t] = DOMAIN NoTx
    BY States DEF Start
  <1>2. /\ \A u \in Txs \ {t} : txs'[u] = txs[u]
        /\ txs'[t].state = txs[t].state /\ txs'[t].mode = txs[t].mode
        /\ txs'[t].stored = txs[t].stored /\ txs'[t].requests = txs[t].requests
        /\ txs'[t].history = txs[t].history
    BY <1>1 DEF Start, NoTx
  <1>3. backend'.original = backend.original /\ backend'.modified = backend.modified
    <2>1. backend' = backend \/ backend' = [backend EXCEPT !.level = txs[t].mode]
      BY DEF Start
    <2>. QED
      BY <2>1 DEF EmptyDatabase
  <1>4. \A u \in Txs : Carries(txs[u], txs'[u])
    BY <1>2 DEF Carries
  <1>5. CASE ~txs[t].begun /\ backend.level = "connected"
    <2>1. Begun = {}
      BY <1>5 DEF OwnersOK
    <2>2. \A u \in Txs : txs'[u].state = "active" => txs'[u].history = <<>>
      BY <1>2, <2>1, States DEF Begun
    <2>3. backend'.modified.data = backend'.original.data /\ Plain(backend'.original.data)
      BY <1>3, <2>1 DEF Replaying
    <2>4. FiledOK'
      <3>1. FiledOK /\ \A u \in Txs : txs'[u].history = txs[u].history /\ txs'[u].stored = txs[u].stored
        BY <1>2 DEF Replaying
      <3>. QED
        BY <1>1, <1>3, <3>1, SameFile
    <2>. QED
      BY <1>1, <1>4, <2>2, <2>3, <2>4, CarriesOn, FreshReplays DEF Idle
  <1>6. CASE ~(~txs[t].begun /\ backend.level = "connected")
    <2>1. txs'[t].begun = txs[t].begun
      BY <1>1, <1>6 DEF Start, NoTx
    <2>2. \A u \in Txs : GoesOnIn(txs[u], txs'[u])
      BY <1>2, <2>1 DEF GoesOnIn
    <2>. QED
      BY <1>1, <1>2, <1>3, <1>4, <2>2, QuietReplays
  <1>. QED
    BY <1>5, <1>6

LEMMA TransactionReplays ==
  ASSUME OutcomeOK, OwnersOK, Replaying, NEW t \in Txs, Transaction(t)
  PROVE  Replaying' /\ Idle
  <1>1. PICK c \in Conns, mode \in {"readonly", "readwrite"} :
          txs' = [txs EXCEPT ![t] = [NoTx EXCEPT !.conn = c, !.mode = mode, !.state = "active",
                                                 !.task = "queued", !.f = "running", !.promise = "pending"]]
    BY DEF Transaction
  <1>2. txs[t].state = "none" /\ ~txs[t].stored /\ UNCHANGED <<backend, disk, dumping>> /\ dumping = Undef
        /\ txs[t].stored = FALSE
    BY States DEF Transaction, Quiet
  <1>3. /\ \A u \in Txs \ {t} : txs'[u] = txs[u]
        /\ txs'[t].begun = FALSE /\ txs'[t].stored = FALSE /\ txs'[t].requests = <<>>
    BY <1>1, States DEF NoTx
  <1>4. \A u \in Txs : Carries(txs[u], txs'[u]) /\ GoesOnIn(txs[u], txs'[u])
    BY <1>2, <1>3 DEF Carries, GoesOnIn
  <1>. QED
    BY <1>2, <1>4, QuietReplays, DatabaseAssumption

LEMMA OthersReplay ==
  ASSUME OutcomeOK, OwnersOK, Replaying, NEW t \in Txs,
         \/ Returns(t) \/ GoesElsewhere(t) \/ ThrowsTransactionAbort(t) \/ ComesBack(t)
         \/ StartOfFinished(t) \/ Complete(t) \/ AbortEvent(t)
  PROVE  Replaying' /\ Idle
  <1>1. DOMAIN txs = Txs /\ DOMAIN txs[t] = DOMAIN NoTx /\ UNCHANGED <<backend, disk, dumping>>
        /\ txs[t].stored \in BOOLEAN
    BY States DEF Returns, GoesElsewhere, ThrowsTransactionAbort, ComesBack, StartOfFinished, Complete,
                  AbortEvent
  <1>2. CASE Complete(t)
    <2>1. dumping = Undef
      BY <1>2 DEF Complete
    <2>2. txs'[t].state = "finished" /\ txs'[t].stored = txs[t].stored
          /\ (txs[t].stored => txs'[t].history = txs[t].history) /\ txs[t].state = "committing"
          /\ \A u \in Txs \ {t} : txs'[u] = txs[u]
      BY <1>1, <1>2 DEF Complete, Over, NoTx
    <2>3. \A u \in Txs : Carries(txs[u], txs'[u]) /\ GoesOnIn(txs[u], txs'[u])
      BY <2>2 DEF Carries, GoesOnIn
    <2>. QED
      BY <1>1, <2>1, <2>3, QuietReplays, DatabaseAssumption
  <1>3. CASE StartOfFinished(t)
    <2>1. txs'[t].state = "finished" /\ txs[t].state = "finished" /\ txs'[t].stored = txs[t].stored
          /\ txs'[t].history = txs[t].history /\ \A u \in Txs \ {t} : txs'[u] = txs[u]
      BY <1>1, <1>3 DEF StartOfFinished, NoTx
    <2>2. \A u \in Txs : Carries(txs[u], txs'[u]) /\ GoesOnIn(txs[u], txs'[u])
      BY <2>1 DEF Carries, GoesOnIn
    <2>. QED
      BY <1>1, <2>1, <2>2, QuietReplays
  <1>4. CASE Returns(t) \/ GoesElsewhere(t) \/ ThrowsTransactionAbort(t) \/ ComesBack(t) \/ AbortEvent(t)
    <2>1. /\ \A u \in Txs \ {t} : txs'[u] = txs[u]
          /\ txs'[t].state = txs[t].state /\ txs'[t].mode = txs[t].mode /\ txs'[t].begun = txs[t].begun
          /\ txs'[t].stored = txs[t].stored /\ txs'[t].requests = txs[t].requests
          /\ txs'[t].history = txs[t].history
      BY <1>1, <1>4 DEF Returns, GoesElsewhere, ThrowsTransactionAbort, ComesBack, AbortEvent, NoTx
    <2>2. \A u \in Txs : Carries(txs[u], txs'[u]) /\ GoesOnIn(txs[u], txs'[u])
      BY <2>1 DEF Carries, GoesOnIn
    <2>. QED
      BY <1>1, <2>1, <2>2, QuietReplays
  <1>. QED
    BY <1>2, <1>3, <1>4

LEMMA ConnectionReplays ==
  ASSUME OutcomeOK, OwnersOK, Replaying, DOMAIN backend = DOMAIN EmptyDatabase, NEW c \in Conns, Connection(c)
  PROVE  Replaying' /\ Idle
  <1>1. UNCHANGED <<txs, disk>>
    BY DEF Connection, OpenDatabase, Connected, UpgradeCommits, CloseDatabase, CloseConnection
  <1>2. dumping' = dumping \/ (dumping = Undef /\ dumping' = c)
    BY DEF Connection, OpenDatabase, Connected, UpgradeCommits, CloseDatabase, CloseConnection, Quiet
  <1>3. \/ backend' = backend
        \/ \E level : backend' = [backend EXCEPT !.level = level]
        \/ \E level, version : backend' = [backend EXCEPT !.version = version, !.level = level]
    BY DEF Connection, OpenDatabase, Connected, UpgradeCommits, CloseDatabase, CloseConnection
  <1>4. backend'.original = backend.original /\ backend'.modified = backend.modified
    BY <1>3 DEF EmptyDatabase
  <1>5. FiledOK'
    BY <1>1, <1>2, <1>4, DatabaseAssumption DEF FiledOK, Replaying
  <1>6. \A u \in Txs : GoesOnIn(txs[u], txs'[u]) /\ ReadsOK(txs'[u])
    BY <1>1 DEF GoesOnIn, Replaying
  <1>. QED
    BY <1>1, <1>4, <1>5, <1>6, SameReplays DEF Idle

LEMMA ReplayingInductive ==
  ASSUME OneIndexKey, ~TornWrites
  PROVE  OutcomeOK /\ Exclusive /\ OwnersOK /\ Indexed /\ Replaying /\ [Next]_vars => Replaying' /\ Advances
  <1>1. ASSUME OutcomeOK, Exclusive, OwnersOK, Indexed, Replaying, Next
        PROVE  Replaying' /\ Advances
    <2>1. DOMAIN backend = DOMAIN EmptyDatabase
      BY <1>1 DEF Indexed
    <2>2. ASSUME NEW t \in Txs, Throws(t)
          PROVE  Replaying' /\ Idle
      BY <1>1, <2>1, <2>2, AbortReplays DEF Throws
    <2>3. ASSUME NEW t \in Txs, Function(t) \/ ComesBack(t) \/ Started(t) \/ Complete(t) \/ AbortEvent(t)
          PROVE  Replaying' /\ Advances
      BY <1>1, <2>1, <2>2, <2>3, MakeRequestReplays, StartReplays, RunRequestReplays, CommitReplays,
         OthersReplay DEF Function, Started, Advances
    <2>4. ASSUME NEW t \in Txs, Transaction(t)
          PROVE  Replaying' /\ Advances
      BY <1>1, <2>4, TransactionReplays DEF Advances
    <2>5. ASSUME NEW c \in Conns, Connection(c)
          PROVE  Replaying' /\ Advances
      BY <1>1, <2>1, <2>5, ConnectionReplays DEF Advances
    <2>6. CASE Dump
      BY <1>1, <2>1, <2>6, DumpReplays
    <2>7. CASE Crash
      BY <1>1, <2>7, CrashReplays DEF Advances
    <2>. QED
      BY <1>1, <2>3, <2>4, <2>5, <2>6, <2>7 DEF Next
  <1>2. ASSUME OutcomeOK, Replaying, UNCHANGED vars
        PROVE  Replaying' /\ Advances
    <2>1. UNCHANGED <<backend, txs, dumping, disk>>
      BY <1>2 DEF vars
    <2>2. \A u \in Txs : GoesOnIn(txs[u], txs'[u]) /\ Carries(txs[u], txs'[u])
      BY <2>1 DEF GoesOnIn, Carries
    <2>3. Replaying' /\ Idle
      BY <1>2, <2>1, <2>2, QuietReplays
    <2>. QED
      BY <2>3 DEF Advances
  <1>. QED
    BY <1>1, <1>2

\* ReplaysOK is the part of Replaying that can be evaluated.
LEMMA ReplayingIsMore == Replaying => ReplaysOK
  <1>1. ASSUME Replaying, NEW t \in Txs, txs[t].state = "active", txs[t].mode = "readonly",
               NEW n \in DOMAIN txs[t].requests
        PROVE  txs[t].requests[n].op \in {"get", "getIndexed", "next"}
    <2>1. PICK S : txs[t].requests \in Seq(S) /\ \A req \in S : req.op \in ReadOps
      BY <1>1 DEF Replaying, ReadsOK, OnlyReads
    <2>2. txs[t].requests[n] \in S
      BY <2>1
    <2>. QED
      BY <2>1, <2>2 DEF ReadOps
  <1>2. \A before, history, after : Replayed(before, history, after) => LeadsTo(before, history, after)
    BY DEF Replayed
  <1>. QED
    BY <1>1, <1>2 DEF Replaying, FiledOK, ReplaysOK

LEMMA InitReplaying == Init => Replaying
  <1>1. ASSUME Init
        PROVE  Replaying
    <2>1. /\ backend.original = EmptyStore /\ backend.modified = EmptyStore /\ disk.store = EmptyStore
          /\ dumping = Undef /\ \A t \in Txs : txs[t].state = "none"
      BY <1>1 DEF Init, EmptyDatabase, NoFile, NoTx
    <2>2. Plain(EmptyStore.data)
      <3>1. EmptyStore.data = <<>>
        BY DEF EmptyStore
      <3>2. DOMAIN <<>> = {} /\ <<>> = [k \in {} |-> <<>>[k]]
        OBVIOUS
      <3>. QED
        BY <3>1, <3>2, FS_EmptySet DEF Plain
    <2>3. Begun = {}
      BY <2>1 DEF Begun
    <2>4. FiledOK
      BY <2>1, <2>2, DatabaseAssumption DEF FiledOK
    <2>. QED
      BY <2>1, <2>2, <2>3, <2>4 DEF Replaying, ReadsOK
  <1>. QED
    BY <1>1

-----------------------------------------------------------------------------
(* The theorems                                                            *)

\* For any number of connections and transactions, whatever their functions do and
\* whenever the process restarts: runWithTransaction resolves only when all changes are
\* in the file, and rejects with TransactionAbort only when none is.
THEOREM OutcomeIsTold == Spec => []PromiseTellsOutcome
  <1>1. OutcomeOK => PromiseTellsOutcome
    BY DEF OutcomeOK, ToldOK, PromiseTellsOutcome
  <1>. QED
    BY <1>1, InitOutcome, OutcomeInductive, PTL DEF Spec

\* The same for connections: one of them has the database, and it keeps it as long as a
\* transaction runs on it.
THEOREM OneHasTheDatabase == Spec => []ConnectionsExclude
  <1>1. Exclusive => ConnectionsExclude
    BY DEF Exclusive
  <1>. QED
    BY <1>1, InitOutcome, OutcomeInductive, InitExclusive, ExclusiveInductive, PTL DEF Spec

\* If a function throws only after its transaction has begun: as long as anybody waits for
\* the end of a transaction, the event loop has something to do, with any number of
\* transactions and connections, whatever aborts, closes, upgrades or restarts.
THEOREM NobodyWaitsForEver ==
  ASSUME ~EarlyThrow
  PROVE  Spec => []SomebodyWorks
  <1>1. Init => OutcomeOK /\ Exclusive /\ OwnersOK /\ WaitersOK
    BY InitOutcome, InitExclusive, InitOwners, InitWaiters
  <1>2. OutcomeOK /\ Exclusive /\ OwnersOK /\ WaitersOK /\ [Next]_vars =>
          OutcomeOK' /\ Exclusive' /\ OwnersOK' /\ WaitersOK'
    BY OutcomeInductive, ExclusiveInductive, OwnersInductive, WaitersInductive
  <1>. QED
    BY <1>1, <1>2, WaitersWork, PTL DEF Spec

\* If each record keeps its one index key, the index has the entries of the records
\* whenever no transaction is under way, after aborts and restarts too.
THEOREM IndexFollows ==
  ASSUME OneIndexKey
  PROVE  Spec => []IndexAgrees
  <1>1. Indexed => IndexAgrees
    BY DEF Indexed, IndexesOK, StoreOK, IndexOf, IndexAgrees
  <1>. QED
    BY <1>1, InitOutcome, OutcomeInductive, InitIndexed, IndexedInductive, PTL DEF Spec

\* If each record keeps its index key, and a dump is written as a whole or not at all:
\* the transactions that are in the file happened one after the other, each with the
\* answers that the records before it give, and with all its changes; no crash loses or
\* adds any.  This is what the operations of the wallet take a transaction for.
THEOREM TransactionsAreSerial ==
  ASSUME OneIndexKey, ~TornWrites
  PROVE  Spec => OneAfterTheOther
  <1>1. Init => Serial!SerialInit
    BY DEF Init, NoTx, NoFile, EmptyStore, Serial!SerialInit
  <1>2. Advances => [Serial!SerialNext]_<<disk.store.data,
                                          [t \in Txs |-> IF txs[t].stored THEN {txs[t].history} ELSE {}]>>
    BY DEF Advances, Idle, CommitsWhole, Done, Serial!SerialNext, Serial!CommitWhole
  <1>3. Init => OutcomeOK /\ Exclusive /\ OwnersOK /\ Indexed /\ Replaying
    BY InitOutcome, InitExclusive, InitOwners, InitIndexed, InitReplaying
  <1>4. OutcomeOK /\ Exclusive /\ OwnersOK /\ Indexed /\ Replaying /\ [Next]_vars =>
          /\ OutcomeOK' /\ Exclusive' /\ OwnersOK' /\ Indexed' /\ Replaying'
          /\ [Serial!SerialNext]_<<disk.store.data,
                                   [t \in Txs |-> IF txs[t].stored THEN {txs[t].history} ELSE {}]>>
    BY <1>2, OutcomeInductive, ExclusiveInductive, OwnersInductive, IndexedInductive, ReplayingInductive
  <1>. QED
    BY <1>1, <1>3, <1>4, PTL DEF Spec, OneAfterTheOther, Serial!SerialSpec
=============================================================================
