------------------------------ MODULE CryptoApi ------------------------------
(***************************************************************************)
(* CryptoApi of crypto/workers/cryptoApi.ts: calls are given to workers    *)
(* that run beside the wallet, or wait in a queue for each priority.  An   *)
(* event handler (a call, a message or an error of a worker, a timer, the  *)
(* stop) runs to its end without awaiting anything, so each is one action. *)
(*                                                                         *)
(* There are two kinds of workers.  A thread (nodeThreadWorker.ts, or the  *)
(* browser's) may die, and one that is terminated sends nothing any more.  *)
(* The synchronous worker (synchronousWorker.ts) does not die, there is    *)
(* one of it, and its terminate does nothing, so it answers all the same.  *)
(***************************************************************************)
EXTENDS Naturals, Sequences, FiniteSets

CONSTANTS
  Calls,        \* the calls of doRpc; a call is its rpcId
  Concurrency,  \* how many threads the factory asks for
  NumPrio,      \* NUM_PRIO
  Priority,     \* the priority of each call
  None,         \* no work item
  MaxErrors,    \* bound on the threads that die
  MaxThrows     \* bound on the operations that throw

ASSUME CallsAssumption ==
  /\ None \notin Calls /\ IsFiniteSet(Calls)
  /\ Priority \in [Calls -> 1..NumPrio]
ASSUME SizesAssumption ==
  /\ Concurrency \in Nat \ {0} /\ NumPrio \in Nat
  /\ MaxErrors \in Nat /\ MaxThrows \in Nat

VARIABLES
  synchronous,  \* which factory the host has given to the wallet
  worker,       \* CryptoApi.workers, and what each thread was asked
  queues,       \* CryptoApi.workQueues
  numBusy,      \* CryptoApi.numBusy
  stopped,      \* CryptoApi.stopped
  outcome,      \* the promise of each call
  threw,        \* the calls whose operation threw
  errors        \* how many threads have died

vars == <<synchronous, worker, queues, numBusy, stopped, outcome, threw, errors>>

Priorities == 1..NumPrio
\* workers.length
Length == IF synchronous THEN 1 ELSE Concurrency
Workers == 1..Length

\* item is currentWorkItem, started that w is not null, timer that the
\* termination timer is running, and asked are the requests on their way to
\* the worker or in work there.
Fresh == [item |-> None, started |-> FALSE, timer |-> FALSE, asked |-> {}]

Init ==
  /\ synchronous \in BOOLEAN
  /\ worker = [w \in Workers |-> Fresh]
  /\ queues = [p \in Priorities |-> <<>>]
  /\ numBusy = 0 /\ stopped = FALSE
  /\ outcome = [c \in Calls |-> "new"]
  /\ threw = {} /\ errors = 0

-----------------------------------------------------------------------------
(* wake, findWork and worker.terminate                                     *)

Idle(w) == worker[w].item = None

\* wake, in an API that is not stopped: start the worker unless it runs.
Woken(ws, c) ==
  [item |-> c, started |-> TRUE, timer |-> TRUE, asked |-> ws.asked \cup {c}]

\* Mutant: a worker that is replaced still answers.
NotTerminated(ws) == [ws EXCEPT !.started = FALSE]
Terminated(ws) ==
  [ws EXCEPT !.started = FALSE, !.asked = IF synchronous THEN @ ELSE {}]

Waiting == {p \in Priorities : queues[p] # <<>>}

\* Mutant: the queues are searched from the wrong end.
Last(p) == p \in Waiting /\ \A r \in Waiting : r >= p
First(p) == p \in Waiting /\ \A r \in Waiting : r <= p

\* What a stopped API takes out of a queue is dropped.
Take(w, ws, busy, c) ==
  IF stopped THEN worker' = [worker EXCEPT ![w] = ws] /\ numBusy' = busy
  ELSE /\ worker' = [worker EXCEPT ![w] = Woken(ws, c)]
       /\ numBusy' = busy + 1

NothingToDo(w, ws, busy) ==
  worker' = [worker EXCEPT ![w] = ws] /\ numBusy' = busy /\ UNCHANGED queues
\* findWork for a worker that is left as ws, with busy workers.
FindWork(w, ws, busy) ==
  \/ Waiting = {} /\ NothingToDo(w, ws, busy)
  \/ \E p \in Priorities :
       /\ First(p)
       /\ queues' = [queues EXCEPT ![p] = Tail(@)]
       /\ Take(w, ws, busy, Head(queues[p]))

Settle(c, how) ==
  outcome' = IF c = None THEN outcome ELSE [outcome EXCEPT ![c] = how]

-----------------------------------------------------------------------------
(* doRpc                                                                   *)

\* All workers are busy, as far as the counter goes.
Enqueue(c) ==
  /\ outcome[c] = "new"
  /\ numBusy = Length
  /\ queues' = [queues EXCEPT ![Priority[c]] = Append(@, c)]
  /\ Settle(c, "open")
  /\ UNCHANGED <<synchronous, worker, numBusy, stopped, threw, errors>>

\* The first idle worker gets the call.  A stopped API drops it.
Dispatch(c) ==
  /\ outcome[c] = "new"
  /\ numBusy # Length
  /\ Settle(c, "open")
  /\ \E w \in Workers :
       /\ Idle(w) /\ \A v \in 1..(w - 1) : ~Idle(v)
       /\ IF stopped THEN UNCHANGED <<worker, numBusy>>
          ELSE /\ worker' = [worker EXCEPT ![w] = Woken(@, c)]
               /\ numBusy' = numBusy + 1
  /\ UNCHANGED <<synchronous, queues, stopped, threw, errors>>

-----------------------------------------------------------------------------
(* Events                                                                  *)

\* A worker answers the call c.  The answer settles the item the worker is
\* at if it is the answer to that; the next item is taken in any case.
HandleWorkerMessage(w, c) ==
  LET ws == worker[w] IN
  /\ c \in ws.asked
  /\ FindWork(w, [ws EXCEPT !.item = None, !.asked = @ \ {c}], numBusy - 1)
  /\ Settle(IF ws.item = c THEN c ELSE None, "resolved")
  /\ UNCHANGED <<synchronous, stopped, threw, errors>>

\* Mutant: the item that failed still counts.
StaysBusy(w) == numBusy
BusyWithout(w) == IF Idle(w) THEN numBusy ELSE numBusy - 1

HandleWorkerError(w) ==
  /\ ~synchronous /\ errors < MaxErrors
  /\ worker[w].started
  /\ errors' = errors + 1
  /\ FindWork(w, [Terminated(worker[w]) EXCEPT !.item = None], BusyWithout(w))
  /\ Settle(worker[w].item, "rejected")
  /\ UNCHANGED <<synchronous, stopped, threw>>

\* The timer of resetWorkerTimeout, which runs once.
Destroy(w) ==
  /\ worker[w].timer
  /\ worker' = [worker EXCEPT ![w] =
       [(IF @.started /\ @.item = None THEN Terminated(@) ELSE @)
         EXCEPT !.timer = FALSE]]
  /\ UNCHANGED <<synchronous, queues, numBusy, stopped, outcome, threw, errors>>

\* stop and terminateWorkers.
Stop ==
  /\ ~stopped
  /\ stopped' = TRUE
  /\ worker' = [w \in Workers |->
       IF worker[w].started
       THEN [Terminated(worker[w]) EXCEPT !.item = None, !.timer = FALSE]
       ELSE worker[w]]
  /\ outcome' = [c \in Calls |->
       IF \E w \in Workers : worker[w].item = c THEN "rejected" ELSE outcome[c]]
  /\ UNCHANGED <<synchronous, queues, numBusy, threw, errors>>

\* An operation throws: the worker logs it and sends nothing.
OperationThrows(w, c) ==
  /\ c \in worker[w].asked
  /\ Cardinality(threw) < MaxThrows
  /\ threw' = threw \cup {c}
  /\ worker' = [worker EXCEPT ![w].asked = @ \ {c}]
  /\ UNCHANGED <<synchronous, queues, numBusy, stopped, outcome, errors>>

DoRpc(c) == Enqueue(c) \/ Dispatch(c)
Answer(w) ==
  \E c \in Calls : HandleWorkerMessage(w, c) \/ OperationThrows(w, c)

Next ==
  \/ \E c \in Calls : DoRpc(c)
  \/ \E w \in Workers : Answer(w) \/ HandleWorkerError(w) \/ Destroy(w)
  \/ Stop

Spec == Init /\ [][Next]_vars

\* A worker that was asked comes to an end, with an answer or an exception.
FairSpec == Spec /\ \A w \in 1..Concurrency : WF_vars(w \in Workers /\ Answer(w))

-----------------------------------------------------------------------------
(* Properties                                                              *)

States == [item : Calls \cup {None}, started : BOOLEAN, timer : BOOLEAN,
           asked : SUBSET Calls]
\* Every variable keeps its shape; in particular numBusy, which late answers
\* and errors lower, never falls below zero or exceeds workers.length.
TypeOK ==
  /\ synchronous \in BOOLEAN /\ stopped \in BOOLEAN
  /\ worker \in [Workers -> States]
  /\ queues \in [Priorities -> Seq(Calls)]
  /\ numBusy \in 0..Length
  /\ outcome \in [Calls -> {"new", "open", "resolved", "rejected"}]
  /\ threw \subseteq Calls /\ errors \in 0..MaxErrors

Busy == {w \in Workers : ~Idle(w)}
Queued == UNION {{queues[p][i] : i \in DOMAIN queues[p]} : p \in Priorities}

\* numBusy, which handlers of messages and errors lower and wake raises, is the
\* number of workers with an item.  doRpc relies on it ("assertion failed").
BusyIsCounted == ~stopped => numBusy = Cardinality(Busy)

\* A call waits only while every worker is at another call.
NothingWaitsIdly == ~stopped /\ Waiting # {} => Busy = Workers

\* Whatever a worker may still answer is the item it is at, through errors,
\* restarts of threads and idle terminations: no answer is dropped ("RPC with
\* id ... has no registry entry") or taken for that of another call.
AnswersMatch ==
  ~stopped => \A w \in Workers : worker[w].asked \subseteq {worker[w].item}

\* A call is open exactly while it is in a queue or at one worker.
OpenIsSomewhere ==
  ~stopped =>
    /\ {c \in Calls : outcome[c] = "open"} = Queued \cup {worker[w].item : w \in Busy}
    /\ \A w \in Busy : worker[w].item \notin Queued
    /\ \A v, w \in Busy : worker[v].item = worker[w].item => v = w

\* A call is answered, unless its own operation threw, the API was stopped, or
\* operations that threw hold every worker.
CallsAreAnswered ==
  \A c \in Calls :
    outcome[c] = "open" ~> \/ outcome[c] \in {"resolved", "rejected"}
                           \/ stopped \/ c \in threw
                           \/ \A w \in Workers : worker[w].item \in threw

ThePool == INSTANCE WorkerPool WITH
  size <- Length,
  open <- ~stopped,
  waiting <- IF stopped THEN [p \in Priorities |-> <<>>] ELSE queues,
  running <- {worker[w].item : w \in Busy},
  settled <- {c \in Calls : outcome[c] \in {"resolved", "rejected"}},
  forgotten <- IF stopped THEN {c \in Calls : outcome[c] = "open"} ELSE {}

\* However workers come and go, the callers see a pool that works at as many
\* calls as it has workers, the most urgent and then the oldest first.
ImplementsPool == ThePool!Spec

-----------------------------------------------------------------------------
(* Why the counter is right and no answer goes astray: an inductive        *)
(* invariant                                                               *)

\* Who is at an item, and a thread that was asked, was started.
BusyIsStarted ==
  \A w \in Workers :
    ~Idle(w) \/ (~synchronous /\ worker[w].asked # {}) => worker[w].started

\* After the stop only the synchronous worker may answer, once, and it is
\* still counted.
StoppedIsQuiet ==
  stopped => \A w \in Workers :
    /\ Idle(w) /\ ~worker[w].started
    /\ worker[w].asked # {} =>
         synchronous /\ numBusy = 1 /\ \E c \in Calls : worker[w].asked = {c}

\* Together they are inductive.
Pooled == /\ TypeOK /\ BusyIsCounted /\ NothingWaitsIdly /\ AnswersMatch
          /\ BusyIsStarted /\ StoppedIsQuiet
=============================================================================
