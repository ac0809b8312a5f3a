------------------------------ MODULE Database ------------------------------
(***************************************************************************)
(* Transactions of the wallet over the in-memory IndexedDB: the promises of *)
(* util/query.ts, the connections and transactions of packages/idb-bridge   *)
(* (BridgeIDBFactory, BridgeIDBDatabase, BridgeIDBTransaction), and the      *)
(* levels, copies and dumps of its MemoryBackend.                            *)
(*                                                                          *)
(* There is one thread: nothing but a crash comes between a commit and its  *)
(* dump (dumping).  A function that a transaction runs goes on in           *)
(* microtasks: no task (a _start that was queued, an abort event, a call of   *)
(* the host) begins while one is running (Quiet).  Module Records has what a  *)
(* request does to the records, SerialStore what all of this implements.      *)
(***************************************************************************)
EXTENDS Records

CONSTANTS
  Conns,       \* connections to the one database
  Txs,         \* transactions
  Values,      \* the records that are stored: [key, by, body]
  Versions,    \* the versions that openDatabase is called with
  Operations,  \* the requests that functions make
  MaxRequests, \* bound on the requests of a transaction
  EarlyThrow,  \* a function may throw before its transaction has begun
  Aborts,      \* a function may throw TransactionAbort
  TornWrites,  \* a crash may leave a part of the dump in the file
  MaxCrashes   \* bound on crashes

ASSUME DatabaseAssumption ==
  /\ Versions \subseteq Nat \ {0} /\ Versions # {}
  /\ Operations \subseteq {"get", "getIndexed", "next", "put", "add", "delete", "mutate"}
  /\ MaxRequests \in Nat /\ MaxCrashes \in Nat
  /\ EarlyThrow \in BOOLEAN /\ Aborts \in BOOLEAN /\ TornWrites \in BOOLEAN
  /\ Conns \cap Txs = {} /\ Undef \notin Conns \cup Txs /\ Undef # "disconnected"

VARIABLES
  backend,  \* the database: its level, original and modified store, version
  waiting,  \* the transactions that wait in beginTransaction, in order
  opening,  \* the connections that wait in connectDatabase, in order
  conns,    \* the connections
  txs,      \* the transactions and the functions they run
  dumping,  \* the transaction whose commit is writing the dump, or Undef
  disk,     \* the file with the last dump
  crashes

vars == <<backend, waiting, opening, conns, txs, dumping, disk, crashes>>

Schema == [keyPath |-> TRUE, autoIncrement |-> FALSE, multiEntry |-> FALSE, unique |-> FALSE]
Keys == {v.key : v \in Values}
IndexKeyValues == UNION {ToSet(v.by) : v \in Values}
Bodies == {v.body : v \in Values}

Levels == {"disconnected", "connected", "readonly", "readwrite", "versionchange"}
ConnStates == {"none", "opening", "connected", "upgrading", "open", "closing", "closed", "refused", "lost"}
Settled == {"resolved", "aborted", "BUG"}

NoTx == [conn |-> Undef, mode |-> Undef, state |-> "none", task |-> "none", begun |-> FALSE, requests |-> <<>>,
         f |-> "none", away |-> FALSE, after |-> Undef, history |-> <<>>, aborting |-> FALSE, promise |-> "none",
         stored |-> FALSE]

TypeOK ==
  /\ backend.level \in Levels /\ backend.version \in {0} \cup Versions
  /\ \A s \in {backend.original, backend.modified} :
       /\ DOMAIN s.data \subseteq Keys /\ ToSet(s.data) \subseteq Values
       /\ DOMAIN s.index \subseteq IndexKeyValues
  /\ ToSet(waiting) \subseteq Txs /\ ToSet(opening) \subseteq Conns
  /\ \A c \in Conns : conns[c].state \in ConnStates
  /\ \A t \in Txs : txs[t].task = "waits" <=> t \in ToSet(waiting)
  /\ \A c \in Conns : conns[c].state = "opening" <=> c \in ToSet(opening)
  /\ dumping \in {Undef} \cup Txs \cup Conns

EmptyDatabase == [level |-> "disconnected", original |-> EmptyStore, modified |-> EmptyStore, version |-> 0]
NoFile == [store |-> EmptyStore, version |-> 0]

Init ==
  /\ backend = EmptyDatabase
  /\ waiting = <<>> /\ opening = <<>>
  /\ conns = [c \in Conns |-> [state |-> "none", wants |-> Undef]]
  /\ txs = [t \in Txs |-> NoTx]
  /\ dumping = Undef
  /\ disk = NoFile
  /\ crashes = 0

\* No microtask is left: a task may begin.
Quiet == /\ dumping = Undef
         /\ \A t \in Txs : txs[t].f # "running" /\ txs[t].task # "runs" /\ txs[t].state # "committing"
         /\ \A c \in Conns : conns[c].state # "connected"

----------------------------------------------------------------------------
(* Connections.  connectDatabase waits until the database is disconnected;   *)
(* a refused open keeps the database, for it does not close what it got.      *)

OpenDatabase(c) ==
  /\ Quiet /\ conns[c].state = "none"
  /\ \E v \in Versions :
       IF backend.level = "disconnected"
       THEN /\ conns' = [conns EXCEPT ![c] = [state |-> "connected", wants |-> v]]
            /\ backend' = [backend EXCEPT !.level = "connected"]
            /\ UNCHANGED opening
       ELSE /\ conns' = [conns EXCEPT ![c] = [state |-> "opening", wants |-> v]]
            /\ opening' = Append(opening, c)
            /\ UNCHANGED backend
  /\ UNCHANGED <<waiting, txs, dumping, disk, crashes>>

\* The rest of BridgeIDBFactory.open.
Connected(c) ==
  /\ conns[c].state = "connected"
  /\ LET wants == conns[c].wants
         becomes == CASE wants < backend.version -> "refused"
                      [] wants = backend.version -> "open"
                      [] OTHER -> "upgrading"
     IN /\ conns' = [conns EXCEPT ![c].state = becomes]
        /\ backend' = IF becomes = "upgrading" THEN [backend EXCEPT !.level = "versionchange"] ELSE backend
  /\ UNCHANGED <<waiting, opening, txs, dumping, disk, crashes>>

\* The wallet can create its stores, and no more (db.ts).  The version change commits
\* in a task of its own, whatever became of the handler of upgradeneeded; when that one
\* threw, nobody answers the open request.
UpgradeCommits(c) ==
  /\ Quiet /\ conns[c].state = "upgrading"
  /\ backend' = [backend EXCEPT !.version = conns[c].wants, !.level = "connected"]
  /\ conns' = [conns EXCEPT ![c].state = IF backend.version = 0 THEN "open" ELSE "lost"]
  /\ dumping' = c
  /\ UNCHANGED <<waiting, opening, txs, disk, crashes>>

CloseDatabase(c) ==
  /\ Quiet /\ conns[c].state = "open"
  /\ conns' = [conns EXCEPT ![c].state = "closing"]
  /\ UNCHANGED <<backend, waiting, opening, txs, dumping, disk, crashes>>

TransactionsFinished(c) == \A t \in Txs : txs[t].conn = c => txs[t].state = "finished"

\* _closeConnection, again and again until every transaction has finished; the first
\* connection that waits gets the database.
CloseConnection(c) ==
  /\ Quiet /\ conns[c].state = "closing" /\ TransactionsFinished(c)
  /\ backend.level = "connected"
  /\ IF opening = <<>>
     THEN /\ conns' = [conns EXCEPT ![c].state = "closed"]
          /\ backend' = [backend EXCEPT !.level = "disconnected"]
          /\ UNCHANGED opening
     ELSE /\ conns' = [conns EXCEPT ![c].state = "closed", ![Head(opening)].state = "connected"]
          /\ opening' = Tail(opening)
          /\ UNCHANGED backend
  /\ UNCHANGED <<waiting, txs, dumping, disk, crashes>>

----------------------------------------------------------------------------
(* The function of a transaction *)

Transaction(t) ==
  /\ Quiet /\ txs[t].state = "none"
  /\ \E c \in Conns, mode \in {"readonly", "readwrite"} :
       /\ conns[c].state = "open"
       /\ txs' = [txs EXCEPT ![t] = [NoTx EXCEPT !.conn = c, !.mode = mode, !.state = "active", !.task = "queued",
                                                 !.f = "running", !.promise = "pending"]]
  /\ UNCHANGED <<backend, waiting, opening, conns, dumping, disk, crashes>>

Reads(t) == [op : {"get"}, key : Keys] \cup [op : {"getIndexed"}, by : IndexKeyValues]
            \cup [op : {"next"}, by : IndexKeyValues, after : {txs[t].after}]
Writes == [op : {"put", "add"}, value : Values] \cup [op : {"delete"}, key : Keys]
          \cup [op : {"mutate"}, key : Keys, body : Bodies]
RequestsOf(t) == {req \in Reads(t) \cup Writes : req.op \in Operations /\ (txs[t].mode = "readonly" => req \in Reads(t))}

\* A request, which the function awaits, or makes last and does not await.
MakeRequest(t) ==
  /\ txs[t].f = "running" /\ txs[t].state = "active"
  /\ Len(txs[t].history) + Len(txs[t].requests) < MaxRequests
  /\ \E req \in RequestsOf(t), f \in {"waits", "returned"} :
       txs' = [txs EXCEPT ![t].requests = Append(@, req), ![t].f = f]
  /\ UNCHANGED <<backend, waiting, opening, conns, dumping, disk, crashes>>

Returns(t) ==
  /\ txs[t].f = "running"
  /\ txs' = [txs EXCEPT ![t].f = "returned"]
  /\ UNCHANGED <<backend, waiting, opening, conns, dumping, disk, crashes>>

\* It awaits what is not a request of this transaction; once is the bound.
GoesElsewhere(t) ==
  /\ txs[t].f = "running" /\ ~txs[t].away
  /\ txs' = [txs EXCEPT ![t].f = "elsewhere", ![t].away = TRUE]
  /\ UNCHANGED <<backend, waiting, opening, conns, dumping, disk, crashes>>
ComesBack(t) ==
  /\ Quiet /\ txs[t].f = "elsewhere"
  /\ txs' = [txs EXCEPT ![t].f = "running"]
  /\ UNCHANGED <<backend, waiting, opening, conns, dumping, disk, crashes>>

\* TransactionAbort is logged, and that is all.
ThrowsTransactionAbort(t) ==
  /\ Aborts /\ txs[t].f = "running"
  /\ txs' = [txs EXCEPT ![t].f = "threw"]
  /\ UNCHANGED <<backend, waiting, opening, conns, dumping, disk, crashes>>

\* A transaction that has come to its end; what its function does afterwards changes nothing.
Over(tx, promise) ==
  [NoTx EXCEPT !.conn = tx.conn, !.state = "finished", !.promise = promise, !.stored = tx.stored,
               !.history = IF tx.stored THEN tx.history ELSE <<>>]

\* The level, the transactions and those that still wait, once the database is free:
\* the first one that waits gets it.
\* Mutant: nobody is woken.
WakesNobody(level, ts, queue) == [level |-> level, txs |-> ts, waiting |-> queue]
Freed(level, ts, queue) ==
  IF queue = <<>> THEN [level |-> level, txs |-> ts, waiting |-> queue]
  ELSE [level |-> ts[Head(queue)].mode,
        txs |-> [ts EXCEPT ![Head(queue)].begun = TRUE, ![Head(queue)].task = "runs"],
        waiting |-> Tail(queue)]

\* Mutant: what the transaction wrote stays.
AbortWithoutRollback(t, task) ==
  LET freed == Freed("connected", [txs EXCEPT ![t] = [Over(txs[t], "pending") EXCEPT
                                     !.aborting = TRUE, !.task = task, !.begun = txs[t].begun]], waiting)
  IN backend' = [backend EXCEPT !.level = freed.level] /\ txs' = freed.txs /\ waiting' = freed.waiting
\* _abort: requests are cancelled; there is a rollback only if the transaction has begun.  What _start was to do stays queued.
Abort(t, task) ==
  LET aborted == [txs EXCEPT ![t] = [Over(txs[t], "pending") EXCEPT !.aborting = TRUE, !.task = task,
                                                                    !.begun = txs[t].begun, !.mode = txs[t].mode]]
      freed == Freed("connected", aborted, waiting)
  IN IF txs[t].begun
     THEN /\ backend' = [backend EXCEPT !.modified = backend.original, !.level = freed.level]
          /\ txs' = freed.txs
          /\ waiting' = freed.waiting
     ELSE /\ txs' = aborted
          /\ UNCHANGED <<backend, waiting>>

\* Any other exception aborts.
Throws(t) ==
  /\ txs[t].f = "running" /\ txs[t].state = "active"
  /\ EarlyThrow \/ txs[t].begun
  /\ Abort(t, txs[t].task)
  /\ UNCHANGED <<opening, conns, dumping, disk, crashes>>

----------------------------------------------------------------------------
(* BridgeIDBTransaction._start, and what follows from it *)

\* The task that was queued: it needs the backend's transaction first.
Start(t) ==
  /\ Quiet /\ txs[t].task = "queued"
  /\ CASE txs[t].begun ->
            txs' = [txs EXCEPT ![t].task = "runs"] /\ UNCHANGED <<backend, waiting>>
       [] ~txs[t].begun /\ backend.level = "connected" ->
            /\ txs' = [txs EXCEPT ![t].task = "runs", ![t].begun = TRUE]
            /\ backend' = [backend EXCEPT !.level = txs[t].mode]
            /\ UNCHANGED waiting
       [] OTHER ->
            /\ txs' = [txs EXCEPT ![t].task = "waits"]
            /\ waiting' = Append(waiting, t)
            /\ UNCHANGED backend
  /\ UNCHANGED <<opening, conns, dumping, disk, crashes>>

\* What a request does: the answer, the store afterwards, and for a cursor its position.
Performed(store, req) ==
  LET Answers(a) == [error |-> "none", answer |-> a, store |-> store, after |-> Undef]
      Stored(result, a) == IF result.error # "none" THEN result
                           ELSE [error |-> "none", answer |-> a, store |-> result.store, after |-> Undef]
      cursor == [NewCursor(TRUE, Only(req.by), "next") EXCEPT
                   !.query.lastIndex = IF req.after = Undef THEN Undef ELSE req.by, !.query.lastPrimary = req.after]
      next == Iterate(store, cursor)
      found == Iterate(store, NewCursor(FALSE, Only(req.key), "next"))
  IN CASE req.op = "get" -> Answers(Get(store, req.key))
       [] req.op = "getIndexed" -> Answers(GetIndexed(store, req.by))
       [] req.op = "next" -> [Answers(IF next.key = Undef THEN Undef ELSE ValueOf(store, next.key))
                                EXCEPT !.after = next.key]
       [] req.op = "put" -> Stored(StoreRecord(store, Schema, "AllowOverwrite", req.value, Undef), req.value.key)
       [] req.op = "add" -> Stored(StoreRecord(store, Schema, "NoOverwrite", req.value, Undef), req.value.key)
       [] req.op = "delete" -> Stored(DeleteRecord(store, Schema, Only(req.key)), Undef)
       [] req.op = "mutate" ->
            IF found.key = Undef THEN Answers(Undef)
            ELSE Stored(StoreRecord(store, Schema, "UpdateExisting",
                                    [store.data[found.key] EXCEPT !.body = req.body], found.key), Undef)

Heard(f) == IF f = "waits" THEN "running" ELSE f

\* _start runs the next request; the function hears of the answer before anything else
\* happens.  After the last request, _start is queued once more.
RunRequest(t) ==
  /\ dumping = Undef /\ txs[t].task = "runs" /\ txs[t].requests # <<>>
  /\ LET req == Head(txs[t].requests)
         result == Performed(backend.modified, req)
     IN IF result.error # "none" \/ result.answer = Missing
        THEN Abort(t, "queued")
        ELSE /\ backend' = [backend EXCEPT !.modified = result.store]
             /\ txs' = [txs EXCEPT ![t].requests = Tail(@), ![t].f = Heard(@), ![t].after = result.after,
                                   ![t].history = Append(@, [req |-> req, answer |-> result.answer]),
                                   ![t].task = IF Len(txs[t].requests) > 1 THEN "runs" ELSE "queued"]
             /\ UNCHANGED waiting
  /\ UNCHANGED <<opening, conns, dumping, disk, crashes>>

\* Without requests it commits: MemoryBackend.commit frees the database, then has the
\* dump written if the transaction may have written.
Commit(t) ==
  /\ dumping = Undef /\ txs[t].task = "runs" /\ txs[t].requests = <<>> /\ txs[t].state = "active"
  /\ LET committing == [txs EXCEPT ![t].state = "committing", ![t].task = "none", ![t].stored = txs[t].mode = "readonly"]
         freed == Freed("connected", committing, waiting)
     IN /\ backend' = [backend EXCEPT !.original = backend.modified, !.level = freed.level]
        /\ txs' = freed.txs
        /\ waiting' = freed.waiting
  /\ dumping' = IF txs[t].mode = "readwrite" THEN t ELSE Undef
  /\ UNCHANGED <<opening, conns, disk, crashes>>

\* A transaction that was aborted has nothing to do any more.
StartOfFinished(t) ==
  /\ dumping = Undef /\ txs[t].task = "runs" /\ txs[t].requests = <<>> /\ txs[t].state = "finished"
  /\ txs' = [txs EXCEPT ![t].task = "none", ![t].mode = Undef]
  /\ UNCHANGED <<backend, waiting, opening, conns, dumping, disk, crashes>>

Dump ==
  /\ dumping # Undef
  /\ disk' = [store |-> backend.original, version |-> backend.version]
  /\ dumping' = Undef
  /\ txs' = [t \in Txs |-> [txs[t] EXCEPT !.stored = @ \/ t = dumping]]
  /\ UNCHANGED <<backend, waiting, opening, conns, crashes>>

\* Mutant: it comes before the dump.
CompleteBeforeDump(t) ==
  /\ txs[t].state = "committing"
  /\ txs' = [txs EXCEPT ![t] = Over(@, IF @.f = "returned" THEN "resolved" ELSE "BUG")]
  /\ UNCHANGED <<backend, waiting, opening, conns, dumping, disk, crashes>>
\* The complete event, which comes after the dump.
Complete(t) ==
  /\ dumping = Undef /\ txs[t].state = "committing"
  /\ txs' = [txs EXCEPT ![t] = Over(@, IF @.f = "returned" THEN "resolved" ELSE "BUG")]
  /\ UNCHANGED <<backend, waiting, opening, conns, dumping, disk, crashes>>

AbortEvent(t) ==
  /\ Quiet /\ txs[t].aborting
  /\ txs' = [txs EXCEPT ![t].aborting = FALSE, ![t].promise = IF @ = "pending" THEN "aborted" ELSE @]
  /\ UNCHANGED <<backend, waiting, opening, conns, dumping, disk, crashes>>

\* The process ends and starts again: importDump of what the file has, which is nothing
\* when the file cannot be read.
Crash ==
  /\ crashes < MaxCrashes
  /\ crashes' = crashes + 1
  /\ \E file \in {disk} \cup (IF TornWrites /\ dumping # Undef THEN {NoFile} ELSE {}) :
       /\ disk' = file
       /\ backend' = [EmptyDatabase EXCEPT !.original = file.store, !.modified = file.store, !.version = file.version]
  /\ waiting' = <<>> /\ opening' = <<>>
  /\ conns' = [c \in Conns |-> [state |-> "none", wants |-> Undef]]
  /\ txs' = [t \in Txs |-> IF txs[t].state = "none" THEN NoTx
                           ELSE Over(txs[t], IF txs[t].promise = "pending" THEN "gone" ELSE txs[t].promise)]
  /\ dumping' = Undef

Function(t) == MakeRequest(t) \/ Returns(t) \/ GoesElsewhere(t) \/ ThrowsTransactionAbort(t) \/ Throws(t)
Started(t) == Start(t) \/ RunRequest(t) \/ Commit(t) \/ StartOfFinished(t)
Connection(c) == OpenDatabase(c) \/ Connected(c) \/ UpgradeCommits(c) \/ CloseDatabase(c) \/ CloseConnection(c)

Next ==
  \/ \E c \in Conns : Connection(c)
  \/ \E t \in Txs : Transaction(t) \/ Function(t) \/ ComesBack(t) \/ Started(t) \/ Complete(t) \/ AbortEvent(t)
  \/ Dump
  \/ Crash

Spec == Init /\ [][Next]_vars

----------------------------------------------------------------------------
(* Fairness: the event loop does not rest while a task or a microtask is     *)
(* left, and a function comes to an end.  Nobody has to open, begin, close or   *)
(* crash; all of these are bounded, so no task waits for ever for another.      *)

EventLoop ==
  \/ \E t \in Txs : Function(t) \/ ComesBack(t) \/ Started(t) \/ Complete(t) \/ AbortEvent(t)
  \/ \E c \in Conns : Connected(c) \/ UpgradeCommits(c) \/ CloseConnection(c)
  \/ Dump

FairSpec == Spec /\ WF_vars(EventLoop)

----------------------------------------------------------------------------
(* Properties *)

\* Transactions happen one after the other, each as a whole or not at all, and what has
\* been committed survives: the history of every transaction is explained by the records
\* that the one before it left, through the index too.
Serial == INSTANCE SerialStore
            WITH data <- disk.store.data,
                 done <- [t \in Txs |-> IF txs[t].stored THEN {txs[t].history} ELSE {}]
OneAfterTheOther == Serial!SerialSpec

\* What runWithTransaction tells its caller: when it resolves, the function has returned
\* and all its changes are in the file; when it rejects with TransactionAbort, none is.
PromiseTellsOutcome ==
  \A t \in Txs : /\ txs[t].promise = "resolved" => txs[t].stored
                 /\ txs[t].promise = "aborted" => ~txs[t].stored

\* While no transaction has the database, the index has exactly the entries of the
\* records, as getIndexed and the cursors over indexes rely on.
IndexAgrees ==
  LET store == backend.original
  IN backend.level \in {"connected", "disconnected"} =>
       store.index = [i \in UNION {ToSet(v.by) : v \in ToSet(store.data)} |->
                        {k \in DOMAIN store.data : i \in ToSet(store.data[k].by)}]

\* A connection keeps the database until all its transactions are over; nothing runs on a
\* connection that is closed, and no two connections have the database.
ConnectionsExclude ==
  /\ \A t \in Txs : txs[t].state \in {"active", "committing"} => conns[txs[t].conn].state \in {"open", "closing"}
  /\ \A c, d \in Conns : {conns[c].state, conns[d].state} \subseteq {"connected", "upgrading", "open", "closing"} => c = d

\* Every transaction ends, and the promise of whoever asked for it is settled.
EveryPromiseSettles == \A t \in Txs : txs[t].promise = "pending" ~> txs[t].promise # "pending"

\* A microtask or a task is left: the event loop does not rest.
AtWork ==
  \/ ~Quiet
  \/ \E t \in Txs : txs[t].task = "queued" \/ txs[t].f = "elsewhere" \/ txs[t].aborting
  \/ \E c \in Conns : \/ conns[c].state = "upgrading"
                      \/ /\ conns[c].state = "closing" /\ TransactionsFinished(c)
                         /\ backend.level = "connected"
AtWorkIsEnabled == AtWork <=> ENABLED EventLoop

\* As long as a promise is pending, the event loop has something to do: no transaction waits
\* for a database that nobody will free.
SomebodyWorks == (\E t \in Txs : txs[t].promise = "pending") => AtWork

\* Every request to close a connection ends.
CloseEnds == \A c \in Conns : conns[c].state = "closing" ~> conns[c].state # "closing"
\* Whoever has got the database is told so.
OpenIsAnswered == \A c \in Conns : conns[c].state \in {"connected", "upgrading"} ~> conns[c].state \in {"open", "none"}

\* What a function has done that throws TransactionAbort never reaches the file.
TransactionAbortAborts == \A t \in Txs : txs[t].f = "threw" => ~txs[t].stored

----------------------------------------------------------------------------
(* Invariants that carry these.                                             *)

\* What is in the file, and what is told of it, follows the states of a transaction.
ToldOK(tx) ==
  /\ DOMAIN tx = DOMAIN NoTx
  /\ tx.stored \in BOOLEAN /\ tx.aborting \in BOOLEAN
  /\ tx.state \in {"none", "active"} => ~tx.stored /\ ~tx.aborting
  /\ tx.state = "none" => tx.promise = "none"
  /\ tx.state \in {"active", "committing"} => tx.promise = "pending"
  /\ tx.mode \in {Undef, "readonly", "readwrite"}
  /\ tx.state = "active" => tx.mode \in {"readonly", "readwrite"}
  /\ tx.requests # <<>> => tx.state = "active"
  /\ tx.state = "committing" => ~tx.aborting
  /\ tx.promise = "resolved" => tx.stored
  /\ tx.aborting \/ tx.promise = "aborted" => ~tx.stored

\* Whoever commits is in the file, or the dump is being written for it.
OutcomeOK ==
  /\ DOMAIN txs = Txs /\ waiting \in Seq(Txs)
  /\ \A t \in Txs : ToldOK(txs[t])
  /\ \A t \in Txs : txs[t].state = "committing" => txs[t].stored \/ dumping = t
  /\ dumping \in Txs => txs[dumping].state = "committing"
  /\ dumping \in Txs \cup Conns \cup {Undef}

\* An index has one key path, and what a record has there never changes.
OneIndexKey ==
  /\ Keys \subseteq Int /\ Undef \notin Keys
  /\ \A v \in Values : /\ DOMAIN v = {"key", "by", "body"}
                       /\ \E i \in Int : i # Undef /\ v.by = <<i>>
  /\ \A v, w \in Values : v.key = w.key => v.by = w.by

\* The index entries that the records call for.
IndexOf(data) == [i \in UNION {ToSet(v.by) : v \in ToSet(data)} |->
                    {k \in DOMAIN data : i \in ToSet(data[k].by)}]
StoreOK(store) ==
  /\ DOMAIN store = {"data", "index", "gen"}
  /\ \A k \in DOMAIN store.data : /\ DOMAIN store.data[k] = {"key", "by", "body"}
                                  /\ \E v \in Values : v.key = k /\ v.by = store.data[k].by
  /\ store.index = IndexOf(store.data)

\* Every request keeps the index in step, and what a rollback or a crash brings back is
\* in step too.
IndexesOK ==
  StoreOK(backend.original) /\ StoreOK(backend.modified) /\ StoreOK(disk.store)

\* One connection has the database, and none when it is disconnected.
Holding == {c \in Conns : conns[c].state \in {"connected", "upgrading", "open", "closing"}}
HoldersOK ==
  /\ backend.level = "disconnected" => Holding = {}
  /\ \A n \in DOMAIN opening : conns[opening[n]].state = "opening"
  /\ \A m, n \in DOMAIN opening : opening[m] = opening[n] => m = n

\* One transaction at a time has begun and goes on, and the level says so.  Any other has
\* had no request done; those that wait are there once.
Begun == {t \in Txs : txs[t].state = "active" /\ txs[t].begun}
OwnersOK ==
  /\ \A t, u \in Begun : t = u
  /\ Begun # {} => backend.level \in {"readonly", "readwrite"}
  /\ \A t \in Txs : /\ txs[t].state = "none" => txs[t].task = "none"
                    /\ txs[t].state = "active" /\ txs[t].task = "runs" => txs[t].begun
                    /\ txs[t].state = "committing" => txs[t].task = "none"
                    /\ txs[t].state = "active" /\ ~txs[t].begun => txs[t].history = <<>>
  /\ \A n \in DOMAIN waiting : txs[waiting[n]].task = "waits" /\ ~txs[waiting[n]].begun
  /\ \A m, n \in DOMAIN waiting : waiting[m] = waiting[n] => m = n

\* Whoever waits is in the queue, and a queue is there only as long as a transaction goes on
\* that will free the database.  Whatever is queued or waits without having begun is active.
WaitersOK ==
  /\ \A t \in Txs : /\ txs[t].promise = "pending" => txs[t].state \in {"active", "committing"} \/ txs[t].aborting
                    /\ txs[t].state = "active" => txs[t].task \in {"queued", "runs", "waits"}
                    /\ txs[t].task \in {"queued", "waits"} /\ ~txs[t].begun => txs[t].state = "active"
                    /\ txs[t].task = "waits" => \E n \in DOMAIN waiting : waiting[n] = t
  /\ backend.level \in Levels
  /\ waiting # <<>> => backend.level \in {"readonly", "readwrite"}
  /\ backend.level \in {"readonly", "readwrite"} => Begun # {}
  /\ backend.level = "versionchange" => \E c \in Conns : conns[c].state = "upgrading"

\* A history leads from the records before it to those after it.
LeadsTo(before, history, after) ==
  Serial!Explained(before, history) /\ after = Serial!After(before, history)[Len(history)]

\* The records in the database come from those of the last commit by the history of the
\* transaction that goes on, and these from the file by that of the transaction whose dump
\* is being written.
ReplaysOK ==
  /\ \A t \in Begun : LeadsTo(backend.original.data, txs[t].history, backend.modified.data)
  /\ \A t \in Txs : txs[t].state = "active" /\ txs[t].mode = "readonly" =>
                      \A n \in DOMAIN txs[t].requests : txs[t].requests[n].op \in {"get", "getIndexed", "next"}
  /\ (\A t \in Begun : txs[t].mode = "readonly") => backend.modified.data = backend.original.data
  /\ dumping \in Txs => /\ ~txs[dumping].stored
                        /\ LeadsTo(disk.store.data, txs[dumping].history, backend.original.data)
  /\ dumping \notin Txs => disk.store.data = backend.original.data
=============================================================================
