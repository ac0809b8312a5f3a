-------------------------- MODULE CryptoApiProofs --------------------------
(***************************************************************************)
(* However many workers and calls there are: the counter of busy workers   *)
(* is right, no call waits beside an idle worker, and an answer is always  *)
(* the answer to what its worker is at.                                    *)
(***************************************************************************)
EXTENDS CryptoApi, FiniteSetTheorems, TLAPS

Outcomes == {"new", "open", "resolved", "rejected"}

\* The parts of the type invariant that calls and workers change.
PoolTyped == worker \in [Workers -> States] /\ queues \in [Priorities -> Seq(Calls)]
RestTyped == /\ synchronous \in BOOLEAN /\ stopped \in BOOLEAN
             /\ outcome \in [Calls -> Outcomes]
             /\ threw \subseteq Calls /\ errors \in 0..MaxErrors

LEMMA TypedIsTypeOK == TypeOK <=> PoolTyped /\ RestTyped /\ numBusy \in 0..Length
  BY DEF TypeOK, PoolTyped, RestTyped, Outcomes

-----------------------------------------------------------------------------
(* Counting workers                                                        *)

LEMMA LengthIsPositive == Length \in Nat \ {0}
  BY SizesAssumption DEF Length

LEMMA WorkersAreCounted == IsFiniteSet(Workers) /\ Cardinality(Workers) = Length
  BY LengthIsPositive, FS_Interval DEF Workers

\* The number of a set of workers is at most Length, which only all have.
LEMMA SomeWorkers ==
  ASSUME NEW S, S \subseteq Workers
  PROVE  /\ IsFiniteSet(S) /\ Cardinality(S) \in 0..Length
         /\ Cardinality(S) = Length => S = Workers
  <1>1. /\ IsFiniteSet(S) /\ Cardinality(S) <= Cardinality(Workers)
        /\ Cardinality(Workers) = Cardinality(S) => Workers = S
    BY WorkersAreCounted, FS_Subset, S \in SUBSET Workers
  <1>2. Cardinality(S) \in Nat
    BY <1>1, FS_CardinalityType
  <1>. QED
    BY <1>1, <1>2, WorkersAreCounted, LengthIsPositive

\* One worker is replaced by ws: the others stay as they are, and the worker
\* is busy or not as ws says.
LEMMA OneWorkerChanges ==
  ASSUME PoolTyped, UNCHANGED synchronous,
         NEW w \in Workers, NEW ws \in States,
         worker' = [worker EXCEPT ![w] = ws]
  PROVE  /\ Workers' = Workers /\ Length' = Length
         /\ worker' \in [Workers -> States]
         /\ \A v \in Workers : worker'[v] = IF v = w THEN ws ELSE worker[v]
         /\ ws.item = None => Busy' = Busy \ {w}
         /\ ws.item # None => Busy' = Busy \cup {w}
  <1>1. Length' = Length /\ Workers' = Workers
    BY DEF Length, Workers
  <1>2. /\ worker' \in [Workers -> States]
        /\ \A v \in Workers : worker'[v] = IF v = w THEN ws ELSE worker[v]
    BY DEF PoolTyped
  <1>3. Busy' = {v \in Workers : worker'[v].item # None}
    BY <1>1 DEF Busy, Idle
  <1>4. Busy = {v \in Workers : worker[v].item # None}
    BY DEF Busy, Idle
  <1>. QED
    BY <1>1, <1>2, <1>3, <1>4

\* A worker more or less is one more or less to count.
LEMMA OneMoreOrLess ==
  ASSUME NEW w \in Workers
  PROVE  /\ Busy \subseteq Workers
         /\ Cardinality(Busy) \in Nat
         /\ Cardinality(Busy \cup {w}) =
              IF w \in Busy THEN Cardinality(Busy) ELSE Cardinality(Busy) + 1
         /\ Cardinality(Busy \ {w}) =
              IF w \in Busy THEN Cardinality(Busy) - 1 ELSE Cardinality(Busy)
  <1>1. Busy \subseteq Workers
    BY DEF Busy
  <1>2. IsFiniteSet(Busy) /\ Cardinality(Busy) \in Nat
    BY <1>1, SomeWorkers
  <1>. QED
    BY <1>1, <1>2, FS_AddElement, FS_RemoveElement

-----------------------------------------------------------------------------
(* findWork                                                                *)

LEMMA WokenTyped ==
  ASSUME NEW ws \in States, NEW c \in Calls
  PROVE  /\ Woken(ws, c) \in States
         /\ Woken(ws, c).item = c /\ Woken(ws, c).started
         /\ Woken(ws, c).asked = ws.asked \cup {c}
  BY DEF Woken, States

\* What is taken out of a queue is a call, and the queue stays one of calls.
LEMMA TakenIsACall ==
  ASSUME PoolTyped, NEW p \in Priorities, queues[p] # <<>>
  PROVE  /\ Head(queues[p]) \in Calls
         /\ [queues EXCEPT ![p] = Tail(@)] \in [Priorities -> Seq(Calls)]
  <1>1. queues[p] \in Seq(Calls)
    BY DEF PoolTyped
  <1>2. Head(queues[p]) \in Calls /\ Tail(queues[p]) \in Seq(Calls)
    BY <1>1
  <1>. QED
    BY <1>2 DEF PoolTyped

\* A worker that looks for work after it is free, as ws, stays so, with nothing
\* left in the queues or in a stopped API, or gets a call that was waiting.
LEMMA LooksForWork ==
  ASSUME PoolTyped, UNCHANGED stopped,
         NEW w \in Workers, NEW ws \in States, NEW busy, FindWork(w, ws, busy)
  PROVE  /\ queues' \in [Priorities -> Seq(Calls)]
         /\ \E new \in States :
              /\ worker' = [worker EXCEPT ![w] = new]
              /\ \/ /\ new = ws /\ numBusy' = busy
                    /\ stopped \/ Waiting' = {}
                 \/ /\ ~stopped /\ Waiting # {}
                    /\ numBusy' = busy + 1
                    /\ \E c \in Calls : new = Woken(ws, c)
  <1>1. CASE Waiting = {} /\ NothingToDo(w, ws, busy)
    BY <1>1 DEF NothingToDo, Waiting, PoolTyped
  <1>2. CASE \E p \in Priorities :
               /\ First(p)
               /\ queues' = [queues EXCEPT ![p] = Tail(@)]
               /\ Take(w, ws, busy, Head(queues[p]))
    <2>1. PICK p \in Priorities :
            /\ First(p)
            /\ queues' = [queues EXCEPT ![p] = Tail(@)]
            /\ Take(w, ws, busy, Head(queues[p]))
      BY <1>2
    <2>2. queues[p] # <<>> /\ Waiting # {}
      BY <2>1 DEF First, Waiting
    <2>3. Head(queues[p]) \in Calls /\ queues' \in [Priorities -> Seq(Calls)]
      BY <2>1, <2>2, TakenIsACall
    <2>4. CASE stopped
      BY <2>1, <2>3, <2>4 DEF Take
    <2>5. CASE ~stopped
      BY <2>1, <2>2, <2>3, <2>5, WokenTyped DEF Take
    <2>. QED
      BY <2>4, <2>5
  <1>. QED
    BY <1>1, <1>2 DEF FindWork

-----------------------------------------------------------------------------
(* One worker changes: in an API that runs, and in one that is stopped     *)

\* A worker that may stand in an API that runs.
Sound(ws) ==
  /\ ws.asked \subseteq {ws.item}
  /\ ws.item # None \/ (~synchronous /\ ws.asked # {}) => ws.started

LEMMA WorkerInRunningApi ==
  ASSUME Pooled, ~stopped, UNCHANGED <<synchronous, stopped>>,
         NEW w \in Workers, NEW new \in States,
         worker' = [worker EXCEPT ![w] = new], Sound(new),
         queues' \in [Priorities -> Seq(Calls)],
         numBusy' = IF Idle(w)
                    THEN IF new.item = None THEN numBusy ELSE numBusy + 1
                    ELSE IF new.item = None THEN numBusy - 1 ELSE numBusy,
         Waiting' = {} \/ (Busy = Workers /\ new.item # None)
  PROVE  /\ PoolTyped' /\ (numBusy \in 0..Length)'
         /\ BusyIsCounted' /\ NothingWaitsIdly' /\ AnswersMatch'
         /\ BusyIsStarted' /\ StoppedIsQuiet'
  <1>1. PoolTyped /\ numBusy = Cardinality(Busy)
    BY TypedIsTypeOK DEF Pooled, BusyIsCounted
  <1>2. /\ Workers' = Workers /\ Length' = Length
        /\ worker' \in [Workers -> States]
        /\ \A v \in Workers : worker'[v] = IF v = w THEN new ELSE worker[v]
        /\ new.item = None => Busy' = Busy \ {w}
        /\ new.item # None => Busy' = Busy \cup {w}
    BY <1>1, OneWorkerChanges
  <1>3. PoolTyped'
    BY <1>2 DEF PoolTyped, Priorities
  <1>4. w \in Busy <=> ~Idle(w)
    BY DEF Busy
  <1>5. numBusy' = Cardinality(Busy')
    BY <1>1, <1>2, <1>4, OneMoreOrLess
  <1>6. Busy' \subseteq Workers
    BY <1>2, OneMoreOrLess
  <1>7. (numBusy \in 0..Length)'
    BY <1>2, <1>5, <1>6, SomeWorkers
  <1>8. NothingWaitsIdly'
    BY <1>2 DEF NothingWaitsIdly
  <1>9. AnswersMatch'
    BY <1>2 DEF AnswersMatch, Pooled, Sound
  <1>10. BusyIsStarted'
    BY <1>2 DEF BusyIsStarted, Idle, Pooled, Sound
  <1>. QED
    BY <1>3, <1>5, <1>7, <1>8, <1>9, <1>10 DEF BusyIsCounted, StoppedIsQuiet

\* After the stop a worker can only get rid of the call it was asked.
LEMMA WorkerInStoppedApi ==
  ASSUME Pooled, stopped, UNCHANGED <<synchronous, stopped>>,
         NEW w \in Workers, NEW new \in States,
         worker' = [worker EXCEPT ![w] = new],
         new.item = None, ~new.started,
         \/ new.asked = {} /\ numBusy' \in 0..Length
         \/ new.asked = worker[w].asked /\ numBusy' = numBusy,
         queues' \in [Priorities -> Seq(Calls)]
  PROVE  /\ PoolTyped' /\ (numBusy \in 0..Length)'
         /\ BusyIsCounted' /\ NothingWaitsIdly' /\ AnswersMatch'
         /\ BusyIsStarted' /\ StoppedIsQuiet'
  <1>1. PoolTyped /\ numBusy \in 0..Length
    BY TypedIsTypeOK DEF Pooled
  <1>2. /\ Workers' = Workers /\ Length' = Length
        /\ worker' \in [Workers -> States]
        /\ \A v \in Workers : worker'[v] = IF v = w THEN new ELSE worker[v]
    BY <1>1, OneWorkerChanges
  <1>3. PoolTyped' /\ (numBusy \in 0..Length)'
    BY <1>1, <1>2 DEF PoolTyped, Priorities
  <1>4. \A v \in Workers : worker[v].asked # {} => synchronous
    BY DEF Pooled, StoppedIsQuiet
  <1>5. BusyIsStarted'
    BY <1>2, <1>4 DEF BusyIsStarted, Idle, Pooled, StoppedIsQuiet
  <1>6. StoppedIsQuiet'
    <2>1. synchronous => Workers = {1}
      BY DEF Workers, Length
    <2>. QED
      BY <1>2, <1>4, <2>1 DEF StoppedIsQuiet, Idle, Pooled
  <1>. QED
    BY <1>3, <1>5, <1>6 DEF BusyIsCounted, NothingWaitsIdly, AnswersMatch

-----------------------------------------------------------------------------
(* The actions                                                             *)

\* Of an API that runs, for each worker.
LEMMA RunningWorkers ==
  ASSUME Pooled, ~stopped, NEW w \in Workers
  PROVE  /\ worker[w] \in States
         /\ worker[w].asked \subseteq {worker[w].item}
         /\ worker[w].asked \subseteq Calls
         /\ Idle(w) => worker[w].asked = {}
         /\ ~Idle(w) => worker[w].started
  <1>1. worker[w] \in States /\ worker[w].asked \subseteq {worker[w].item}
    BY DEF Pooled, TypeOK, AnswersMatch
  <1>2. worker[w].asked \subseteq Calls
    BY <1>1 DEF States
  <1>3. Idle(w) => worker[w].asked = {}
    BY <1>1, <1>2, CallsAssumption DEF Idle
  <1>. QED
    BY <1>1, <1>2, <1>3 DEF Pooled, BusyIsStarted

LEMMA InitPooled == Init => Pooled
  <1>. SUFFICES ASSUME Init PROVE Pooled
    OBVIOUS
  <1>1. TypeOK
    <2>1. Fresh \in States
      BY DEF Fresh, States
    <2>2. PoolTyped
      BY <2>1 DEF Init, PoolTyped
    <2>3. RestTyped
      <3>1. outcome \in [Calls -> Outcomes]
        BY DEF Init, Outcomes
      <3>2. threw \subseteq Calls /\ errors \in 0..MaxErrors
        BY SizesAssumption DEF Init
      <3>3. synchronous \in BOOLEAN /\ stopped \in BOOLEAN
        BY DEF Init
      <3>. QED
        BY <3>1, <3>2, <3>3 DEF RestTyped
    <2>4. numBusy \in 0..Length
      BY LengthIsPositive DEF Init
    <2>. QED
      BY <2>2, <2>3, <2>4, TypedIsTypeOK
  <1>2. Busy = {} /\ Waiting = {}
    BY DEF Init, Busy, Idle, Fresh, Waiting
  <1>3. BusyIsCounted /\ NothingWaitsIdly
    BY <1>2, FS_EmptySet DEF Init, BusyIsCounted, NothingWaitsIdly
  <1>4. AnswersMatch /\ BusyIsStarted /\ StoppedIsQuiet
    BY DEF Init, Fresh, AnswersMatch, BusyIsStarted, StoppedIsQuiet, Idle
  <1>. QED
    BY <1>1, <1>3, <1>4 DEF Pooled

LEMMA SettleTyped ==
  ASSUME RestTyped, NEW c \in Calls \cup {None}, NEW how \in Outcomes, Settle(c, how)
  PROVE  outcome' \in [Calls -> Outcomes]
  BY DEF Settle, RestTyped

LEMMA EnqueuePooled ==
  ASSUME Pooled, NEW c \in Calls, Enqueue(c)
  PROVE  Pooled'
  <1>1. PoolTyped /\ RestTyped /\ numBusy \in 0..Length
    BY TypedIsTypeOK DEF Pooled
  <1>2. queues' \in [Priorities -> Seq(Calls)]
    BY <1>1, CallsAssumption DEF Enqueue, PoolTyped, Priorities
  <1>3. outcome' \in [Calls -> Outcomes]
    BY <1>1, SettleTyped DEF Enqueue, Outcomes
  <1>4. Workers' = Workers /\ Length' = Length /\ Busy' = Busy
    BY DEF Enqueue, Workers, Length, Busy, Idle
  <1>5. TypeOK'
    BY <1>1, <1>2, <1>3, <1>4, TypedIsTypeOK DEF Enqueue, PoolTyped, RestTyped, TypeOK,
       Outcomes, Priorities
  <1>6. NothingWaitsIdly'
    <2>1. ~stopped => Cardinality(Busy) = Length
      BY DEF Enqueue, Pooled, BusyIsCounted
    <2>. QED
      BY <1>4, <2>1, OneMoreOrLess, SomeWorkers DEF NothingWaitsIdly, Enqueue, Busy
  <1>7. BusyIsCounted' /\ AnswersMatch'
    BY <1>4 DEF Pooled, BusyIsCounted, AnswersMatch, Enqueue
  <1>8. BusyIsStarted' /\ StoppedIsQuiet'
    BY <1>4 DEF Pooled, BusyIsStarted, StoppedIsQuiet, Enqueue, Idle
  <1>. QED
    BY <1>5, <1>6, <1>7, <1>8 DEF Pooled

\* What an action that keeps the workers in order need still show.
LEMMA WhatElse ==
  ASSUME PoolTyped', (numBusy \in 0..Length)', RestTyped',
         BusyIsCounted', NothingWaitsIdly', AnswersMatch',
         BusyIsStarted', StoppedIsQuiet'
  PROVE  Pooled'
  BY DEF Pooled, TypeOK, PoolTyped, RestTyped, Outcomes

LEMMA DispatchPooled ==
  ASSUME Pooled, NEW c \in Calls, Dispatch(c)
  PROVE  Pooled'
  <1>1. PoolTyped /\ RestTyped /\ numBusy \in 0..Length
    BY TypedIsTypeOK DEF Pooled
  <1>2. outcome' \in [Calls -> Outcomes]
    BY <1>1, SettleTyped DEF Dispatch, Outcomes
  <1>3. RestTyped'
    BY <1>1, <1>2 DEF RestTyped, Dispatch
  <1>4. CASE stopped
    <2>1. /\ UNCHANGED <<synchronous, worker, queues, numBusy, stopped>>
      BY <1>4 DEF Dispatch
    <2>2. Workers' = Workers /\ Length' = Length
      BY <2>1 DEF Workers, Length
    <2>3. PoolTyped' /\ (numBusy \in 0..Length)'
      BY <1>1, <2>1, <2>2 DEF PoolTyped, Priorities
    <2>4. BusyIsStarted' /\ StoppedIsQuiet'
      BY <2>1, <2>2 DEF Pooled, BusyIsStarted, StoppedIsQuiet, Idle
    <2>. QED
      BY <1>3, <1>4, <2>1, <2>3, <2>4, WhatElse
      DEF BusyIsCounted, NothingWaitsIdly, AnswersMatch
  <1>5. CASE ~stopped
    <2>1. PICK w \in Workers :
            /\ Idle(w) /\ worker' = [worker EXCEPT ![w] = Woken(worker[w], c)]
            /\ numBusy' = numBusy + 1
      BY <1>5 DEF Dispatch
    <2>2. worker[w] \in States /\ worker[w].asked = {}
      BY <1>5, <2>1, RunningWorkers
    <2>3. /\ Woken(worker[w], c) \in States
          /\ Woken(worker[w], c).item = c /\ c # None
          /\ Sound(Woken(worker[w], c))
      BY <2>2, WokenTyped, CallsAssumption DEF Sound
    <2>4. Waiting' = {}
      <3>1. Busy # Workers
        BY <2>1 DEF Busy
      <3>. QED
        BY <1>5, <3>1 DEF Pooled, NothingWaitsIdly, Dispatch, Waiting, Priorities
    <2>5. /\ PoolTyped' /\ (numBusy \in 0..Length)'
          /\ BusyIsCounted' /\ NothingWaitsIdly' /\ AnswersMatch'
          /\ BusyIsStarted' /\ StoppedIsQuiet'
      BY <1>1, <1>5, <2>1, <2>3, <2>4, WorkerInRunningApi DEF Dispatch, PoolTyped
    <2>. QED
      BY <1>3, <2>5, WhatElse
  <1>. QED
    BY <1>4, <1>5

LEMMA HandleWorkerMessagePooled ==
  ASSUME Pooled, NEW w \in Workers, NEW c \in Calls, HandleWorkerMessage(w, c)
  PROVE  Pooled'
  <1>. DEFINE ws == [worker[w] EXCEPT !.item = None, !.asked = @ \ {c}]
  <1>1. PoolTyped /\ RestTyped /\ numBusy \in 0..Length
    BY TypedIsTypeOK DEF Pooled
  <1>2. RestTyped'
    <2>1. outcome' \in [Calls -> Outcomes]
      BY <1>1, SettleTyped DEF HandleWorkerMessage, Outcomes
    <2>. QED
      BY <1>1, <2>1 DEF RestTyped, HandleWorkerMessage
  <1>3. worker[w] \in States
    BY <1>1 DEF PoolTyped
  <1>4. /\ ws \in States /\ ws.item = None /\ ws.started = worker[w].started
        /\ ws.asked = worker[w].asked \ {c}
    BY <1>3 DEF States
  <1>5. FindWork(w, ws, numBusy - 1) /\ UNCHANGED <<synchronous, stopped>>
        /\ c \in worker[w].asked
    BY DEF HandleWorkerMessage
  <1>. HIDE DEF ws
  <1>6. PICK new \in States :
          /\ queues' \in [Priorities -> Seq(Calls)]
          /\ worker' = [worker EXCEPT ![w] = new]
          /\ \/ /\ new = ws /\ numBusy' = numBusy - 1
                /\ stopped \/ Waiting' = {}
             \/ /\ ~stopped /\ Waiting # {} /\ numBusy' = numBusy
                /\ \E d \in Calls : new = Woken(ws, d)
    BY <1>1, <1>4, <1>5, LooksForWork
  <1>7. CASE stopped
    <2>1. /\ ~worker[w].started /\ numBusy = 1 /\ worker[w].asked = {c}
      BY <1>5, <1>7 DEF Pooled, StoppedIsQuiet
    <2>2. new.item = None /\ ~new.started /\ new.asked = {}
      BY <1>4, <1>6, <1>7, <2>1
    <2>3. numBusy' \in 0..Length
      BY <1>6, <1>7, <2>1, LengthIsPositive
    <2>. QED
      BY <1>2, <1>5, <1>6, <1>7, <2>2, <2>3, WorkerInStoppedApi, WhatElse
  <1>8. CASE ~stopped
    <2>1. ~Idle(w) /\ worker[w].asked = {c}
      BY <1>5, <1>8, RunningWorkers
    <2>2. CASE new = ws /\ numBusy' = numBusy - 1 /\ Waiting' = {}
      <3>1. new.item = None /\ Sound(new)
        BY <1>4, <2>1, <2>2 DEF Sound
      <3>. QED
        BY <1>2, <1>5, <1>6, <1>8, <2>1, <2>2, <3>1, WorkerInRunningApi, WhatElse
    <2>3. CASE /\ Waiting # {} /\ numBusy' = numBusy
               /\ \E d \in Calls : new = Woken(ws, d)
      <3>1. new.item # None /\ Sound(new)
        BY <1>4, <2>1, <2>3, WokenTyped, CallsAssumption DEF Sound
      <3>2. Busy = Workers
        BY <1>8, <2>3 DEF Pooled, NothingWaitsIdly
      <3>. QED
        BY <1>2, <1>5, <1>6, <1>8, <2>1, <2>3, <3>1, <3>2, WorkerInRunningApi, WhatElse
    <2>. QED
      BY <1>6, <1>8, <2>2, <2>3
  <1>. QED
    BY <1>7, <1>8

LEMMA TerminatedTyped ==
  ASSUME NEW ws \in States
  PROVE  /\ Terminated(ws) \in States /\ ~Terminated(ws).started
         /\ Terminated(ws).item = ws.item
         /\ Terminated(ws).asked = IF synchronous THEN ws.asked ELSE {}
  BY DEF Terminated, States

LEMMA HandleWorkerErrorPooled ==
  ASSUME Pooled, NEW w \in Workers, HandleWorkerError(w)
  PROVE  Pooled'
  <1>. DEFINE ws == [Terminated(worker[w]) EXCEPT !.item = None]
  <1>1. PoolTyped /\ RestTyped /\ numBusy \in 0..Length
    BY TypedIsTypeOK DEF Pooled
  <1>2. worker[w] \in States
    BY <1>1 DEF PoolTyped
  <1>3. RestTyped'
    <2>1. worker[w].item \in Calls \cup {None}
      BY <1>2 DEF States
    <2>2. outcome' \in [Calls -> Outcomes]
      BY <1>1, <2>1, SettleTyped DEF HandleWorkerError, Outcomes
    <2>3. errors' \in 0..MaxErrors
      BY <1>1, SizesAssumption DEF RestTyped, HandleWorkerError
    <2>. QED
      BY <1>1, <2>2, <2>3 DEF RestTyped, HandleWorkerError
  <1>4. ~synchronous /\ UNCHANGED <<synchronous, stopped>> /\ ~stopped
    BY DEF HandleWorkerError, Pooled, StoppedIsQuiet
  <1>5. ws \in States /\ ws.item = None /\ ws.asked = {}
    <2>1. Terminated(worker[w]) \in States /\ Terminated(worker[w]).asked = {}
      BY <1>2, <1>4, TerminatedTyped
    <2>. QED
      BY <2>1 DEF States
  <1>6. FindWork(w, ws, BusyWithout(w))
    BY DEF HandleWorkerError
  <1>. HIDE DEF ws
  <1>7. PICK new \in States :
          /\ queues' \in [Priorities -> Seq(Calls)]
          /\ worker' = [worker EXCEPT ![w] = new]
          /\ \/ /\ new = ws /\ numBusy' = BusyWithout(w)
                /\ stopped \/ Waiting' = {}
             \/ /\ ~stopped /\ Waiting # {} /\ numBusy' = BusyWithout(w) + 1
                /\ \E d \in Calls : new = Woken(ws, d)
    BY <1>1, <1>4, <1>5, <1>6, LooksForWork
  <1>8. CASE new = ws /\ numBusy' = BusyWithout(w) /\ Waiting' = {}
    <2>1. new.item = None /\ Sound(new)
      BY <1>5, <1>8 DEF Sound
    <2>. QED
      BY <1>3, <1>4, <1>7, <1>8, <2>1, WorkerInRunningApi, WhatElse DEF BusyWithout
  <1>9. CASE /\ Waiting # {} /\ numBusy' = BusyWithout(w) + 1
             /\ \E d \in Calls : new = Woken(ws, d)
    <2>1. new.item # None /\ Sound(new)
      BY <1>5, <1>9, WokenTyped, CallsAssumption DEF Sound
    <2>2. Busy = Workers /\ ~Idle(w)
      BY <1>4, <1>9 DEF Pooled, NothingWaitsIdly, Busy
    <2>3. numBusy' = numBusy
      BY <1>1, <1>9, <2>2, LengthIsPositive DEF BusyWithout
    <2>. QED
      BY <1>3, <1>4, <1>7, <1>9, <2>1, <2>2, <2>3, WorkerInRunningApi, WhatElse
  <1>. QED
    BY <1>4, <1>7, <1>8, <1>9

\* A worker changes, but what it is at stays, and so do the queues.
LEMMA SameItemPooled ==
  ASSUME Pooled, RestTyped', NEW w \in Workers, NEW new \in States,
         worker' = [worker EXCEPT ![w] = new], new.item = worker[w].item,
         UNCHANGED <<synchronous, queues, numBusy, stopped>>,
         ~stopped => Sound(new),
         stopped => ~new.started /\ new.asked \in {{}, worker[w].asked}
  PROVE  Pooled'
  <1>1. PoolTyped /\ numBusy \in 0..Length /\ numBusy' = numBusy
    BY TypedIsTypeOK DEF Pooled
  <1>2. queues' \in [Priorities -> Seq(Calls)] /\ Waiting' = Waiting
    BY <1>1 DEF PoolTyped, Waiting, Priorities
  <1>3. CASE stopped
    <2>1. new.item = None
      BY <1>3 DEF Pooled, StoppedIsQuiet, Idle
    <2>. QED
      BY <1>1, <1>2, <1>3, <2>1, WorkerInStoppedApi, WhatElse
  <1>4. CASE ~stopped
    <2>1. Waiting = {} \/ (Busy = Workers /\ new.item # None)
      BY <1>4 DEF Pooled, NothingWaitsIdly, Busy, Idle
    <2>2. Idle(w) <=> new.item = None
      BY DEF Idle
    <2>. QED
      BY <1>1, <1>2, <1>4, <2>1, <2>2, WorkerInRunningApi, WhatElse
  <1>. QED
    BY <1>3, <1>4

LEMMA DestroyPooled ==
  ASSUME Pooled, NEW w \in Workers, Destroy(w)
  PROVE  Pooled'
  <1>. DEFINE kept == IF worker[w].started /\ worker[w].item = None
                      THEN Terminated(worker[w]) ELSE worker[w]
              new == [kept EXCEPT !.timer = FALSE]
  <1>1. PoolTyped /\ RestTyped /\ worker[w] \in States
    BY TypedIsTypeOK DEF Pooled, PoolTyped
  <1>2. /\ kept \in States /\ kept.item = worker[w].item
        /\ kept.asked \in {{}, worker[w].asked}
        /\ kept.started <=> worker[w].started /\ worker[w].item # None
    <2>1. worker[w].started \in BOOLEAN
      BY <1>1 DEF States
    <2>2. CASE worker[w].started /\ worker[w].item = None
      <3>1. kept = Terminated(worker[w])
        BY <2>2
      <3>. HIDE DEF kept
      <3>2. /\ kept \in States /\ kept.item = worker[w].item /\ ~kept.started
            /\ kept.asked \in {{}, worker[w].asked}
        BY <1>1, <3>1, TerminatedTyped
      <3>. QED
        BY <2>2, <3>2
    <2>3. CASE ~(worker[w].started /\ worker[w].item = None)
      BY <1>1, <2>1, <2>3
    <2>. QED
      BY <2>2, <2>3
  <1>3. worker' = [worker EXCEPT ![w] = new]
    BY DEF Destroy
  <1>. HIDE DEF kept
  <1>4. /\ new \in States /\ new.item = worker[w].item
        /\ new.asked \in {{}, worker[w].asked}
        /\ new.started <=> worker[w].started /\ worker[w].item # None
    BY <1>2 DEF States
  <1>. HIDE DEF new
  <1>5. RestTyped'
    BY <1>1 DEF RestTyped, Destroy
  <1>6. ~stopped => Sound(new)
    <2>1. ~stopped => /\ worker[w].asked \subseteq {worker[w].item}
                      /\ Idle(w) => worker[w].asked = {}
                      /\ ~Idle(w) => worker[w].started
      BY RunningWorkers
    <2>. QED
      BY <1>4, <2>1 DEF Sound, Idle
  <1>7. stopped => ~new.started
    BY <1>4 DEF Pooled, StoppedIsQuiet
  <1>. QED
    BY <1>3, <1>4, <1>5, <1>6, <1>7, SameItemPooled DEF Destroy

LEMMA OperationThrowsPooled ==
  ASSUME Pooled, NEW w \in Workers, NEW c \in Calls, OperationThrows(w, c)
  PROVE  Pooled'
  <1>. DEFINE new == [worker[w] EXCEPT !.asked = @ \ {c}]
  <1>1. PoolTyped /\ RestTyped /\ worker[w] \in States
    BY TypedIsTypeOK DEF Pooled, PoolTyped
  <1>2. /\ new \in States /\ new.item = worker[w].item
        /\ new.asked = worker[w].asked \ {c} /\ new.started = worker[w].started
    BY <1>1 DEF States
  <1>3. /\ worker' = [worker EXCEPT ![w] = new] /\ c \in worker[w].asked
        /\ UNCHANGED <<synchronous, queues, numBusy, stopped>>
    BY DEF OperationThrows
  <1>. HIDE DEF new
  <1>4. RestTyped'
    BY <1>1 DEF RestTyped, OperationThrows
  <1>5. ~stopped => Sound(new)
    BY <1>2, <1>3, RunningWorkers DEF Sound, Idle
  <1>6. stopped => ~new.started /\ new.asked = {}
    BY <1>2, <1>3 DEF Pooled, StoppedIsQuiet
  <1>. QED
    BY <1>2, <1>3, <1>4, <1>5, <1>6, SameItemPooled

LEMMA StopPooled ==
  ASSUME Pooled, Stop
  PROVE  Pooled'
  <1>1. PoolTyped /\ RestTyped /\ numBusy \in 0..Length
    BY TypedIsTypeOK DEF Pooled
  <1>2. /\ stopped' /\ ~stopped /\ numBusy' = numBusy
        /\ UNCHANGED <<synchronous, queues, threw, errors>>
        /\ Workers' = Workers /\ Length' = Length
    BY DEF Stop, Workers, Length
  <1>3. \A w \in Workers :
          /\ worker'[w] \in States
          /\ worker'[w].item = None /\ ~worker'[w].started
          /\ worker'[w].asked \in {{}, worker[w].asked}
          /\ worker'[w].asked # {} => synchronous /\ ~Idle(w)
    <2>. SUFFICES ASSUME NEW w \in Workers
                  PROVE  /\ worker'[w] \in States
                         /\ worker'[w].item = None /\ ~worker'[w].started
                         /\ worker'[w].asked \in {{}, worker[w].asked}
                         /\ worker'[w].asked # {} => synchronous /\ ~Idle(w)
      OBVIOUS
    <2>1. /\ worker[w] \in States
          /\ Idle(w) => worker[w].asked = {}
          /\ ~Idle(w) => worker[w].started
      BY <1>2, RunningWorkers
    <2>2. CASE worker[w].started
      <3>1. worker'[w] = [Terminated(worker[w]) EXCEPT !.item = None, !.timer = FALSE]
        BY <2>2 DEF Stop
      <3>2. /\ Terminated(worker[w]) \in States /\ ~Terminated(worker[w]).started
            /\ Terminated(worker[w]).asked = IF synchronous THEN worker[w].asked ELSE {}
        BY <2>1, TerminatedTyped
      <3>3. /\ worker'[w] \in States /\ worker'[w].item = None
            /\ ~worker'[w].started
            /\ worker'[w].asked = IF synchronous THEN worker[w].asked ELSE {}
        BY <3>1, <3>2 DEF States
      <3>. QED
        BY <2>1, <3>3
    <2>3. CASE ~worker[w].started
      <3>1. worker'[w] = worker[w]
        BY <2>3 DEF Stop
      <3>. QED
        BY <2>1, <2>3, <3>1 DEF Idle
    <2>. QED
      BY <2>2, <2>3
  <1>4. PoolTyped'
    <2>1. worker' \in [Workers -> States]
      BY <1>3 DEF Stop
    <2>. QED
      BY <1>1, <1>2, <2>1 DEF PoolTyped, Priorities
  <1>5. RestTyped'
    BY <1>1 DEF RestTyped, Stop, Outcomes
  <1>6. BusyIsStarted'
    BY <1>2, <1>3 DEF BusyIsStarted, Idle
  <1>7. StoppedIsQuiet'
    <2>. SUFFICES ASSUME NEW w \in Workers, worker'[w].asked # {}
                  PROVE  synchronous /\ numBusy = 1 /\ \E c \in Calls : worker'[w].asked = {c}
      BY <1>2, <1>3 DEF StoppedIsQuiet, Idle
    <2>1. synchronous /\ ~Idle(w) /\ worker'[w].asked = worker[w].asked
      BY <1>3
    <2>2. Workers = {1} /\ Busy = {1}
      BY <2>1 DEF Workers, Length, Busy
    <2>3. numBusy = 1
      BY <1>2, <2>2, FS_Singleton DEF Pooled, BusyIsCounted
    <2>4. \E c \in Calls : worker[w].asked = {c}
      BY <1>2, <2>1, RunningWorkers
    <2>. QED
      BY <2>1, <2>3, <2>4
  <1>. QED
    BY <1>1, <1>2, <1>4, <1>5, <1>6, <1>7, WhatElse
    DEF BusyIsCounted, NothingWaitsIdly, AnswersMatch

-----------------------------------------------------------------------------
(* Where the calls are                                                     *)

\* No call is in the queues twice.
QueuedOnce ==
  \A p, r \in Priorities : \A i \in DOMAIN queues[p] : \A j \in DOMAIN queues[r] :
    queues[p][i] = queues[r][j] => p = r /\ i = j
Served == ~stopped => OpenIsSomewhere /\ QueuedOnce

Open == {c \in Calls : outcome[c] = "open"}
Running == {worker[w].item : w \in Busy}
\* Two workers are not at one call.
ItemsDiffer == \A v, w \in Busy : worker[v].item = worker[w].item => v = w

LEMMA ServedIs ==
  ~stopped => (Served <=> /\ Open = Queued \cup Running /\ Running \cap Queued = {}
                          /\ ItemsDiffer /\ QueuedOnce)
  BY DEF Served, OpenIsSomewhere, Open, Running, ItemsDiffer

\* There are as many calls in work as workers that are at one.
LEMMA RunningAreCounted ==
  ASSUME Pooled, ~stopped, ItemsDiffer
  PROVE  Cardinality(Running) = numBusy /\ (numBusy = Length => Busy = Workers)
  <1>. DEFINE f == [w \in Busy |-> worker[w].item]
  <1>1. f \in Bijection(Busy, Running)
    BY DEF Bijection, Injection, Surjection, IsInjective, Running, ItemsDiffer
  <1>2. IsFiniteSet(Busy)
    BY SomeWorkers DEF Busy
  <1>3. Cardinality(Running) = Cardinality(Busy)
    BY <1>1, <1>2, FS_Bijection DEF ExistsBijection
  <1>. QED
    BY <1>3, SomeWorkers DEF Pooled, BusyIsCounted, Busy

\* A worker goes from its item, if it has one, to another one.
LEMMA ItemChanges ==
  ASSUME PoolTyped, UNCHANGED synchronous, NEW w \in Workers, NEW ws \in States,
         worker' = [worker EXCEPT ![w] = ws], ItemsDiffer,
         ws.item = None \/ ws.item = worker[w].item \/ ws.item \notin Running
  PROVE  /\ Running' = (Running \ {worker[w].item}) \cup ({ws.item} \ {None})
         /\ ItemsDiffer'
  <1>1. /\ Workers' = Workers
        /\ \A v \in Workers : worker'[v] = IF v = w THEN ws ELSE worker[v]
    BY OneWorkerChanges
  <1>2. Busy' = {v \in Workers : worker'[v].item # None}
    BY <1>1 DEF Busy, Idle
  <1>3. Busy = {v \in Workers : worker[v].item # None}
    BY DEF Busy, Idle
  <1>4. ASSUME NEW v \in Busy', v # w
        PROVE  v \in Busy /\ worker'[v] = worker[v]
    BY <1>1, <1>2, <1>3, <1>4
  <1>5. ASSUME NEW v \in Busy, v # w
        PROVE  v \in Busy' /\ worker'[v] = worker[v] /\ worker[v].item # worker[w].item
    <2>1. v \in Busy' /\ worker'[v] = worker[v]
      BY <1>1, <1>2, <1>3, <1>5
    <2>2. worker[v].item # worker[w].item
      BY <1>3, <1>5 DEF ItemsDiffer
    <2>. QED
      BY <2>1, <2>2
  <1>6. worker'[w] = ws /\ (w \in Busy' <=> ws.item # None)
    BY <1>1, <1>2
  <1>7. Running' \subseteq (Running \ {worker[w].item}) \cup ({ws.item} \ {None})
    <2>1. ASSUME NEW v \in Busy', v # w
          PROVE  worker'[v].item \in Running \ {worker[w].item}
      BY <1>4, <1>5, <2>1 DEF Running
    <2>. QED
      BY <1>6, <2>1 DEF Running
  <1>8. (Running \ {worker[w].item}) \cup ({ws.item} \ {None}) \subseteq Running'
    <2>1. ASSUME NEW c \in Running, c # worker[w].item
          PROVE  c \in Running'
      <3>1. PICK v \in Busy : c = worker[v].item
        BY DEF Running
      <3>. QED
        BY <1>5, <2>1, <3>1 DEF Running
    <2>. QED
      BY <1>6, <2>1 DEF Running
  <1>9. ItemsDiffer'
    <2>1. ASSUME NEW v \in Busy', v # w
          PROVE  worker'[v].item # ws.item \/ ws.item = None
      BY <1>3, <1>4, <1>5, <2>1 DEF Running
    <2>2. ASSUME NEW u \in Busy', NEW v \in Busy', worker'[u].item = worker'[v].item
          PROVE  u = v
      <3>1. CASE u # w /\ v # w
        BY <1>4, <2>2, <3>1 DEF ItemsDiffer
      <3>2. CASE u = w \/ v = w
        BY <1>6, <2>1, <2>2, <3>2
      <3>. QED
        BY <3>1, <3>2
    <2>. QED
      BY <2>2 DEF ItemsDiffer
  <1>. QED
    BY <1>7, <1>8, <1>9

\* A call that was nowhere joins a queue.
LEMMA CallWaits ==
  ASSUME PoolTyped, NEW c \in Calls, NEW p \in Priorities, c \notin Queued, QueuedOnce,
         queues' = [queues EXCEPT ![p] = Append(@, c)]
  PROVE  Queued' = Queued \cup {c} /\ QueuedOnce'
  <1>1. queues[p] \in Seq(Calls) /\ Priorities' = Priorities
    BY DEF PoolTyped, Priorities
  <1>2. PICK q \in Seq(Calls) : q = Append(queues[p], c)
    <2>1. PICK s \in Seq(Calls) : s = queues[p]
      BY <1>1
    <2>2. Append(s, c) \in Seq(Calls)
      OBVIOUS
    <2>. QED
      BY <2>1, <2>2
  <1>3. PICK n \in Nat : n = Len(queues[p])
    BY <1>1
  <1>4. /\ DOMAIN queues[p] = 1..n /\ DOMAIN q = 1..(n + 1) /\ q[n + 1] = c
        /\ \A i \in 1..n : q[i] = queues[p][i]
    BY <1>1, <1>2, <1>3
  <1>5. \A r \in Priorities : queues'[r] = IF r = p THEN q ELSE queues[r]
    BY <1>2 DEF PoolTyped
  <1>6. ASSUME NEW r \in Priorities, NEW i \in DOMAIN queues'[r]
        PROVE  \/ i \in DOMAIN queues[r] /\ queues'[r][i] = queues[r][i]
               \/ r = p /\ i = n + 1 /\ queues'[r][i] = c
    BY <1>3, <1>4, <1>5
  <1>7. ASSUME NEW r \in Priorities, NEW i \in DOMAIN queues[r]
        PROVE  i \in DOMAIN queues'[r] /\ queues'[r][i] = queues[r][i]
    BY <1>3, <1>4, <1>5
  <1>8. n + 1 \in DOMAIN queues'[p] /\ queues'[p][n + 1] = c
    BY <1>3, <1>4, <1>5
  <1>9. ASSUME NEW d
        PROVE  d \in Queued' <=> d \in Queued \cup {c}
    <2>1. d \in Queued <=> \E r \in Priorities : \E i \in DOMAIN queues[r] : d = queues[r][i]
      BY DEF Queued
    <2>2. d \in Queued' <=> \E r \in Priorities : \E i \in DOMAIN queues'[r] : d = queues'[r][i]
      BY <1>1 DEF Queued
    <2>3. d \in Queued' => d \in Queued \cup {c}
      BY <1>6, <2>1, <2>2
    <2>4. d \in Queued => d \in Queued'
      BY <1>7, <2>1, <2>2
    <2>5. c \in Queued'
      BY <1>1, <1>8 DEF Queued
    <2>. QED
      BY <2>3, <2>4, <2>5
  <1>10. ASSUME NEW r \in Priorities, NEW i \in DOMAIN queues[r]
         PROVE  queues[r][i] # c
    BY DEF Queued
  <1>11. QueuedOnce'
    <2>1. ASSUME NEW r \in Priorities, NEW s \in Priorities, NEW i \in DOMAIN queues'[r],
                 NEW j \in DOMAIN queues'[s], queues'[r][i] = queues'[s][j]
          PROVE  r = s /\ i = j
      <3>1. CASE i \in DOMAIN queues[r] /\ queues'[r][i] = queues[r][i]
        <4>1. queues'[s][j] # c
          BY <1>10, <2>1, <3>1
        <4>2. j \in DOMAIN queues[s] /\ queues'[s][j] = queues[s][j]
          BY <1>6, <4>1
        <4>. QED
          BY <2>1, <3>1, <4>2 DEF QueuedOnce
      <3>2. CASE r = p /\ i = n + 1 /\ queues'[r][i] = c
        <4>1. ~(j \in DOMAIN queues[s] /\ queues'[s][j] = queues[s][j])
          BY <1>10, <2>1, <3>2
        <4>. QED
          BY <1>6, <3>2, <4>1
      <3>. QED
        BY <1>6, <3>1, <3>2
    <2>. QED
      BY <1>1, <2>1 DEF QueuedOnce
  <1>. QED
    BY <1>9, <1>11

\* The first call leaves a queue.
LEMMA CallLeaves ==
  ASSUME PoolTyped, NEW p \in Priorities, queues[p] # <<>>, QueuedOnce,
         queues' = [queues EXCEPT ![p] = Tail(@)]
  PROVE  /\ Head(queues[p]) \in Queued /\ Queued' = Queued \ {Head(queues[p])}
         /\ QueuedOnce'
  <1>1. queues[p] \in Seq(Calls) /\ Priorities' = Priorities
    BY DEF PoolTyped, Priorities
  <1>2. PICK s \in Seq(Calls) : s = queues[p] /\ s # <<>>
    BY <1>1
  <1>3. PICK q \in Seq(Calls), n \in Nat : q = Tail(s) /\ n = Len(q) /\ Len(s) = n + 1
    <2>1. Tail(s) \in Seq(Calls) /\ Len(Tail(s)) \in Nat /\ Len(s) = Len(Tail(s)) + 1
      BY <1>2
    <2>. QED
      BY <2>1
  <1>4. /\ DOMAIN q = 1..n /\ DOMAIN queues[p] = 1..(n + 1)
        /\ \A i \in 1..n : q[i] = queues[p][i + 1]
        /\ Head(queues[p]) = queues[p][1]
    BY <1>2, <1>3
  <1>5. \A r \in Priorities : queues'[r] = IF r = p THEN q ELSE queues[r]
    BY <1>2, <1>3 DEF PoolTyped
  <1>. DEFINE c == Head(queues[p])
              At(r, i) == IF r = p THEN i + 1 ELSE i
  <1>6. ASSUME NEW r \in Priorities, NEW i \in DOMAIN queues'[r]
        PROVE  /\ At(r, i) \in DOMAIN queues[r] /\ queues'[r][i] = queues[r][At(r, i)]
               /\ queues[r][At(r, i)] # c
    <2>1. CASE r = p
      <3>1. i \in 1..n /\ i + 1 \in 1..(n + 1) /\ 1 \in 1..(n + 1) /\ i + 1 # 1
        BY <1>4, <1>5, <2>1
      <3>2. queues'[r][i] = queues[p][i + 1]
        BY <1>4, <1>5, <2>1, <3>1
      <3>3. queues[p][i + 1] # queues[p][1]
        BY <1>4, <3>1 DEF QueuedOnce
      <3>. QED
        BY <1>4, <2>1, <3>1, <3>2, <3>3
    <2>2. CASE r # p
      <3>1. i \in DOMAIN queues[r] /\ queues'[r][i] = queues[r][i]
        BY <1>5, <2>2
      <3>2. queues[r][i] # queues[p][1]
        <4>1. 1 \in DOMAIN queues[p]
          BY <1>4
        <4>. QED
          BY <2>2, <3>1, <4>1 DEF QueuedOnce
      <3>. QED
        BY <1>4, <2>2, <3>1, <3>2
    <2>. QED
      BY <2>1, <2>2
  <1>7. ASSUME NEW r \in Priorities, NEW i \in DOMAIN queues[r], queues[r][i] # c
        PROVE  \E j \in DOMAIN queues'[r] : queues'[r][j] = queues[r][i]
    <2>1. CASE r = p
      <3>1. i \in 1..(n + 1) /\ i # 1
        BY <1>4, <1>7, <2>1
      <3>2. i - 1 \in 1..n /\ (i - 1) + 1 = i
        BY <3>1
      <3>. QED
        BY <1>4, <1>5, <2>1, <3>2
    <2>2. CASE r # p
      BY <1>5, <2>2
    <2>. QED
      BY <2>1, <2>2
  <1>8. c \in Queued
    <2>1. 1 \in DOMAIN queues[p] /\ c = queues[p][1]
      BY <1>4
    <2>. QED
      BY <2>1 DEF Queued
  <1>9. Queued' = Queued \ {c}
    <2>. HIDE DEF c
    <2>1. ASSUME NEW d
          PROVE  /\ d \in Queued <=> \E r \in Priorities : \E i \in DOMAIN queues[r] : d = queues[r][i]
                 /\ d \in Queued' <=> \E r \in Priorities : \E i \in DOMAIN queues'[r] : d = queues'[r][i]
      BY <1>1 DEF Queued
    <2>2. ASSUME NEW d \in Queued'
          PROVE  d \in Queued /\ d # c
      <3>1. PICK r \in Priorities : \E i \in DOMAIN queues'[r] : d = queues'[r][i]
        BY <2>1
      <3>2. PICK i \in DOMAIN queues'[r] : d = queues'[r][i]
        BY <3>1
      <3>3. PICK k \in DOMAIN queues[r] : d = queues[r][k] /\ d # c
        BY <1>6, <3>2
      <3>. QED
        BY <2>1, <3>3
    <2>3. ASSUME NEW d \in Queued, d # c
          PROVE  d \in Queued'
      BY <1>7, <2>1, <2>3
    <2>. QED
      BY <2>2, <2>3
  <1>10. QueuedOnce'
    <2>1. ASSUME NEW r \in Priorities, NEW o \in Priorities, NEW i \in DOMAIN queues'[r],
                 NEW j \in DOMAIN queues'[o], queues'[r][i] = queues'[o][j]
          PROVE  r = o /\ i = j
      <3>1. r = o /\ At(r, i) = At(o, j)
        BY <1>6, <2>1 DEF QueuedOnce
      <3>2. r = p => i \in Int /\ j \in Int
        BY <1>4, <1>5, <3>1
      <3>. QED
        BY <3>1, <3>2
    <2>. QED
      BY <1>1, <2>1 DEF QueuedOnce
  <1>. QED
    BY <1>8, <1>9, <1>10

-----------------------------------------------------------------------------
(* What the steps do to the calls.                                         *)

\* findWork of an API that runs: there is no call, or the first one goes to the worker.
LEMMA FindsWork ==
  ASSUME PoolTyped, ~stopped, NEW w, NEW ws, NEW busy, FindWork(w, ws, busy)
  PROVE  \/ Waiting = {} /\ queues' = queues /\ worker' = [worker EXCEPT ![w] = ws]
         \/ \E p \in Priorities : \E d \in Calls :
              /\ First(p) /\ queues[p] # <<>> /\ d = Head(queues[p])
              /\ queues' = [queues EXCEPT ![p] = Tail(@)]
              /\ worker' = [worker EXCEPT ![w] = Woken(ws, d)]
  <1>1. CASE Waiting = {} /\ NothingToDo(w, ws, busy)
    BY <1>1 DEF NothingToDo
  <1>2. CASE \E p \in Priorities :
               /\ First(p)
               /\ queues' = [queues EXCEPT ![p] = Tail(@)]
               /\ Take(w, ws, busy, Head(queues[p]))
    <2>1. PICK p \in Priorities :
            /\ First(p)
            /\ queues' = [queues EXCEPT ![p] = Tail(@)]
            /\ Take(w, ws, busy, Head(queues[p]))
      BY <1>2
    <2>2. queues[p] # <<>>
      BY <2>1 DEF First, Waiting
    <2>3. Head(queues[p]) \in Calls
      BY <2>2, TakenIsACall
    <2>. QED
      BY <2>1, <2>2, <2>3 DEF Take
  <1>. QED
    BY <1>1, <1>2 DEF FindWork

\* A call ends and the first that waits takes its place.
Ends(c) ==
  /\ c \in Running
  /\ Open' = Open \ {c}
  /\ \/ Waiting = {} /\ Running' = Running \ {c} /\ UNCHANGED queues
     \/ \E p \in Priorities : \E d \in Calls :
          /\ First(p) /\ queues[p] # <<>> /\ d = Head(queues[p])
          /\ queues' = [queues EXCEPT ![p] = Tail(@)]
          /\ Running' = (Running \ {c}) \cup {d}

\* It keeps every call in its place.
LEMMA WorkerEnds ==
  ASSUME Pooled, ~stopped, Served, UNCHANGED <<synchronous, stopped>>,
         NEW w \in Workers, ~Idle(w), NEW ws \in States, ws.item = None, NEW busy,
         FindWork(w, ws, busy), Open' = Open \ {worker[w].item}
  PROVE  Ends(worker[w].item) /\ Served'
  <1>1. PoolTyped /\ /\ Open = Queued \cup Running /\ Running \cap Queued = {}
                     /\ ItemsDiffer /\ QueuedOnce
    BY ServedIs, TypedIsTypeOK DEF Pooled
  <1>2. worker[w].item \in Running
    BY DEF Running, Busy
  <1>3. CASE Waiting = {} /\ queues' = queues /\ worker' = [worker EXCEPT ![w] = ws]
    <2>1. Running' = Running \ {worker[w].item} /\ ItemsDiffer'
      <3>1. /\ Running' = (Running \ {worker[w].item}) \cup ({ws.item} \ {None})
            /\ ItemsDiffer'
        BY <1>1, <1>3, ItemChanges
      <3>. QED
        BY <3>1
    <2>2. Queued' = Queued /\ QueuedOnce'
      BY <1>1, <1>3 DEF Queued, QueuedOnce, Priorities
    <2>3. Open' = Queued' \cup Running' /\ Running' \cap Queued' = {}
      BY <1>1, <1>2, <2>1, <2>2
    <2>4. Served'
      BY <2>1, <2>2, <2>3 DEF Served, OpenIsSomewhere, Open, Running, ItemsDiffer
    <2>. QED
      BY <1>2, <1>3, <2>1, <2>4 DEF Ends
  <1>4. ASSUME NEW p \in Priorities, NEW d \in Calls,
               First(p), queues[p] # <<>>, d = Head(queues[p]),
               queues' = [queues EXCEPT ![p] = Tail(@)],
               worker' = [worker EXCEPT ![w] = Woken(ws, d)]
        PROVE  Ends(worker[w].item) /\ Served'
    <2>1. d \in Queued /\ Queued' = Queued \ {d} /\ QueuedOnce'
      BY <1>1, <1>4, CallLeaves
    <2>2. PICK new \in States : new = Woken(ws, d) /\ new.item = d /\ d # None
      BY WokenTyped, CallsAssumption
    <2>3. Running' = (Running \ {worker[w].item}) \cup {d} /\ ItemsDiffer'
      <3>1. d \notin Running
        BY <1>1, <2>1
      <3>2. worker' = [worker EXCEPT ![w] = new]
        BY <1>4, <2>2
      <3>3. Running' = (Running \ {worker[w].item}) \cup ({new.item} \ {None}) /\ ItemsDiffer'
        BY <1>1, <2>2, <3>1, <3>2, ItemChanges
      <3>. QED
        BY <2>2, <3>3
    <2>4. Open' = Queued' \cup Running' /\ Running' \cap Queued' = {}
      BY <1>1, <1>2, <2>1, <2>3
    <2>5. Served'
      BY <2>1, <2>3, <2>4 DEF Served, OpenIsSomewhere, Open, Running, ItemsDiffer
    <2>6. Ends(worker[w].item)
      BY <1>2, <1>4, <2>3 DEF Ends
    <2>. QED
      BY <2>5, <2>6
  <1>. QED
    BY <1>1, <1>3, <1>4, FindsWork

\* What the pool of the refinement mapping consists of.
PoolWaiting == IF stopped THEN [p \in Priorities |-> <<>>] ELSE queues
Settled == {c \in Calls : outcome[c] \in {"resolved", "rejected"}}
Forgotten == IF stopped THEN Open ELSE {}
PoolVars == <<Length, ~stopped, PoolWaiting, Running, Settled, Forgotten>>
PoolStep == [ThePool!Next]_PoolVars


\* Nothing that the callers see changes.
LEMMA Unseen ==
  ASSUME Served, UNCHANGED <<synchronous, stopped, outcome>>, UNCHANGED queues \/ stopped,
         Busy' = Busy, \A w \in Busy : worker'[w].item = worker[w].item
  PROVE  Served' /\ PoolStep
  <1>1. Running' = Running /\ (ItemsDiffer => ItemsDiffer')
    BY DEF Running, ItemsDiffer
  <1>2. PoolWaiting' = PoolWaiting /\ Length' = Length
    BY DEF PoolWaiting, Priorities, Length
  <1>3. Open' = Open /\ Settled' = Settled /\ Forgotten' = Forgotten
    BY DEF Open, Settled, Forgotten
  <1>4. ~stopped => Queued' = Queued /\ (QueuedOnce => QueuedOnce')
    BY DEF Queued, QueuedOnce, Priorities
  <1>5. Served'
    <2>1. CASE stopped
      BY <2>1 DEF Served
    <2>2. CASE ~stopped
      <3>1. Open = Queued \cup Running /\ Running \cap Queued = {} /\ ItemsDiffer /\ QueuedOnce
        BY <2>2, ServedIs
      <3>2. Open' = Queued' \cup Running' /\ Running' \cap Queued' = {} /\ ItemsDiffer' /\ QueuedOnce'
        BY <1>1, <1>3, <1>4, <2>2, <3>1
      <3>. QED
        BY <3>2 DEF Served, OpenIsSomewhere, Open, Running, ItemsDiffer
    <2>. QED
      BY <2>1, <2>2
  <1>6. UNCHANGED PoolVars
    BY <1>1, <1>2, <1>3 DEF PoolVars
  <1>. QED
    BY <1>5, <1>6 DEF PoolStep

\* The calls of the pool that were taken are those that doRpc was called with.
LEMMA TakenAreOld ==
  ASSUME Pooled, Served, NEW c \in Calls, outcome[c] = "new"
  PROVE  c \notin ThePool!Taken /\ c \notin Open /\ c \notin Settled
         /\ (~stopped => c \notin Queued /\ c \notin Running)
  <1>1. c \notin Open /\ c \notin Settled /\ c \notin Forgotten
    BY DEF Open, Settled, Forgotten
  <1>2. CASE stopped
    <2>1. Running = {}
      BY <1>2 DEF Running, Busy, Pooled, StoppedIsQuiet
    <2>2. \A p \in Priorities : ThePool!InLine(p) = {}
      BY <1>2 DEF ThePool!InLine
    <2>. QED
      BY <1>1, <1>2, <2>1, <2>2 DEF ThePool!Taken, Running, Settled, Forgotten, Open
  <1>3. CASE ~stopped
    <2>1. c \notin Queued /\ c \notin Running
      BY <1>1, <1>3, ServedIs
    <2>2. \A p \in Priorities : ThePool!InLine(p) \subseteq Queued
      BY <1>3 DEF ThePool!InLine, Queued
    <2>. QED
      BY <1>1, <1>3, <2>1, <2>2 DEF ThePool!Taken, Running, Settled, Forgotten, Open
  <1>. QED
    BY <1>2, <1>3

\* The pool counts as the API does.
LEMMA SameCardinality ==
  ASSUME NEW S
  PROVE  ThePool!Cardinality(S) = Cardinality(S)
  BY DEF ThePool!Cardinality, Cardinality

\* The pool takes a call, as far as the API is concerned.
LEMMA SubmitIs ==
  ASSUME NEW c \in Calls, c \notin ThePool!Taken, ~stopped, ~stopped', Length' = Length,
         Settled' = Settled,
         \/ /\ Cardinality(Running) < Length
            /\ Running' = Running \cup {c} /\ PoolWaiting' = PoolWaiting
         \/ /\ Cardinality(Running) = Length
            /\ PoolWaiting' = [PoolWaiting EXCEPT ![Priority[c]] = Append(@, c)]
            /\ Running' = Running
  PROVE  ThePool!Submit(c)
  <1>1. ThePool!Cardinality(Running) = Cardinality(Running)
    BY SameCardinality
  <1>. QED
    BY <1>1 DEF ThePool!Submit, PoolWaiting, Running, Settled

\* In an API that was stopped a call is forgotten.
LEMMA LateCall ==
  ASSUME Pooled, Served, stopped, NEW c \in Calls, outcome[c] = "new", Settle(c, "open"),
         UNCHANGED <<synchronous, stopped, worker>>
  PROVE  Served' /\ PoolStep
  <1>1. outcome' = [outcome EXCEPT ![c] = "open"] /\ outcome \in [Calls -> Outcomes]
    BY CallsAssumption DEF Settle, Pooled, TypeOK, Outcomes
  <1>2. Open' = Open \cup {c} /\ Settled' = Settled
    BY <1>1 DEF Open, Settled
  <1>3. Busy' = Busy /\ Running' = Running /\ Length' = Length
    BY DEF Busy, Idle, Running, Workers, Length
  <1>4. PoolWaiting' = PoolWaiting
    BY DEF PoolWaiting, Priorities
  <1>5. c \notin ThePool!Taken
    BY TakenAreOld
  <1>6. ThePool!SubmitLate(c)
    BY <1>2, <1>3, <1>4, <1>5
    DEF ThePool!SubmitLate, PoolWaiting, Settled, Running, Open
  <1>. QED
    BY <1>6 DEF PoolStep, ThePool!Next, Served

LEMMA EnqueueServed ==
  ASSUME Pooled, Served, NEW c \in Calls, Enqueue(c)
  PROVE  Served' /\ PoolStep
  <1>1. CASE stopped
    BY <1>1, LateCall DEF Enqueue
  <1>2. CASE ~stopped
    <2>1. /\ outcome' = [outcome EXCEPT ![c] = "open"] /\ outcome \in [Calls -> Outcomes]
          /\ UNCHANGED <<synchronous, worker, stopped>> /\ numBusy = Length
          /\ queues' = [queues EXCEPT ![Priority[c]] = Append(@, c)]
          /\ outcome[c] = "new" /\ Priority[c] \in Priorities /\ PoolTyped
      BY CallsAssumption, TypedIsTypeOK DEF Enqueue, Settle, Pooled, TypeOK, Outcomes, Priorities
    <2>2. /\ Open = Queued \cup Running /\ Running \cap Queued = {}
          /\ ItemsDiffer /\ QueuedOnce
      BY <1>2, ServedIs
    <2>3. c \notin Queued /\ c \notin Running /\ c \notin ThePool!Taken
      BY <1>2, <2>1, TakenAreOld
    <2>4. Open' = Open \cup {c} /\ Settled' = Settled
      BY <2>1 DEF Open, Settled
    <2>5. Busy' = Busy /\ Running' = Running /\ Length' = Length /\ ItemsDiffer'
      BY <2>1, <2>2 DEF Busy, Idle, Running, Workers, Length, ItemsDiffer
    <2>6. Queued' = Queued \cup {c} /\ QueuedOnce'
      BY <2>1, <2>2, <2>3, CallWaits
    <2>7. Open' = Queued' \cup Running' /\ Running' \cap Queued' = {}
      BY <2>2, <2>3, <2>4, <2>5, <2>6
    <2>8. Served'
      BY <2>5, <2>6, <2>7 DEF Served, OpenIsSomewhere, Open, Running, ItemsDiffer
    <2>9. Cardinality(Running) = Length
      BY <1>2, <2>1, <2>2, RunningAreCounted
    <2>10. PoolWaiting' = [PoolWaiting EXCEPT ![Priority[c]] = Append(@, c)]
      BY <1>2, <2>1 DEF PoolWaiting
    <2>11. ThePool!Submit(c)
      BY <1>2, <2>1, <2>3, <2>4, <2>5, <2>9, <2>10, SubmitIs DEF Forgotten
    <2>. QED
      BY <2>8, <2>11 DEF PoolStep, ThePool!Next
  <1>. QED
    BY <1>1, <1>2

LEMMA DispatchServed ==
  ASSUME Pooled, Served, NEW c \in Calls, Dispatch(c)
  PROVE  Served' /\ PoolStep
  <1>1. CASE stopped
    BY <1>1, LateCall DEF Dispatch
  <1>2. CASE ~stopped
    <2>1. /\ outcome' = [outcome EXCEPT ![c] = "open"] /\ outcome \in [Calls -> Outcomes]
          /\ UNCHANGED <<synchronous, queues, stopped>> /\ numBusy # Length
          /\ outcome[c] = "new" /\ PoolTyped /\ numBusy \in 0..Length
      BY CallsAssumption, TypedIsTypeOK DEF Dispatch, Settle, Pooled, TypeOK, Outcomes, Priorities
    <2>2. PICK w \in Workers : Idle(w) /\ worker' = [worker EXCEPT ![w] = Woken(worker[w], c)]
      BY <1>2 DEF Dispatch
    <2>3. /\ Open = Queued \cup Running /\ Running \cap Queued = {}
          /\ ItemsDiffer /\ QueuedOnce
      BY <1>2, ServedIs
    <2>4. c \notin Queued /\ c \notin Running /\ c \notin ThePool!Taken
      BY <1>2, <2>1, TakenAreOld
    <2>5. Open' = Open \cup {c} /\ Settled' = Settled
      BY <2>1 DEF Open, Settled
    <2>6. PICK new \in States : new = Woken(worker[w], c) /\ new.item = c /\ c # None
      <3>1. worker[w] \in States
        BY <2>1 DEF PoolTyped
      <3>. QED
        BY <3>1, WokenTyped, CallsAssumption
    <2>7. Running' = Running \cup {c} /\ ItemsDiffer'
      <3>1. worker' = [worker EXCEPT ![w] = new]
        BY <2>2, <2>6
      <3>2. /\ Running' = (Running \ {worker[w].item}) \cup ({new.item} \ {None})
            /\ ItemsDiffer'
        BY <2>1, <2>3, <2>4, <2>6, <3>1, ItemChanges
      <3>3. worker[w].item \notin Running
        BY <2>2 DEF Idle, Running, Busy
      <3>. QED
        BY <2>6, <3>2, <3>3
    <2>8. Queued' = Queued /\ QueuedOnce' /\ Length' = Length
      BY <2>1, <2>3 DEF Queued, QueuedOnce, Priorities, Length
    <2>9. Open' = Queued' \cup Running' /\ Running' \cap Queued' = {}
      BY <2>3, <2>4, <2>5, <2>7, <2>8
    <2>10. Served'
      BY <2>7, <2>8, <2>9 DEF Served, OpenIsSomewhere, Open, Running, ItemsDiffer
    <2>11. Cardinality(Running) < Length
      BY <1>2, <2>1, <2>3, RunningAreCounted, LengthIsPositive
    <2>12. PoolWaiting' = PoolWaiting
      BY <1>2, <2>1 DEF PoolWaiting
    <2>13. ThePool!Submit(c)
      BY <1>2, <2>1, <2>4, <2>5, <2>7, <2>8, <2>11, <2>12, SubmitIs DEF Forgotten
    <2>. QED
      BY <2>10, <2>13 DEF PoolStep, ThePool!Next
  <1>. QED
    BY <1>1, <1>2

\* A call that ends in the wallet ends in the pool.
LEMMA EndsInPool ==
  ASSUME ~stopped, PoolTyped, NEW c \in Calls, Ends(c), Settled' = Settled \cup {c},
         UNCHANGED <<synchronous, stopped>>
  PROVE  PoolStep
  <1>1. Length' = Length /\ Priorities' = Priorities
    BY DEF Length, Priorities
  <1>2. c \in Running
    BY DEF Ends
  <1>3. CASE Waiting = {} /\ Running' = Running \ {c} /\ UNCHANGED queues
    <2>1. \A p \in Priorities : queues[p] = <<>>
      BY <1>3 DEF Waiting
    <2>2. ThePool!Finish(c)
      BY <1>1, <1>2, <1>3, <2>1 DEF ThePool!Finish, Settled, Running
    <2>. QED
      BY <2>2 DEF PoolStep, ThePool!Next
  <1>4. ASSUME NEW p \in Priorities, NEW d \in Calls,
               First(p), queues[p] # <<>>, d = Head(queues[p]),
               queues' = [queues EXCEPT ![p] = Tail(@)],
               Running' = (Running \ {c}) \cup {d}
        PROVE  PoolStep
    <2>1. \A r \in Priorities : r > p => queues[r] = <<>>
      BY <1>4 DEF First, Waiting, Priorities
    <2>2. ThePool!Finish(c)
      BY <1>1, <1>2, <1>4, <2>1 DEF ThePool!Finish, Settled, Running
    <2>. QED
      BY <2>2 DEF PoolStep, ThePool!Next
  <1>. QED
    BY <1>3, <1>4 DEF Ends

\* A worker changes but not its item.
LEMMA SameItemUnseen ==
  ASSUME Pooled, Served, NEW w \in Workers, NEW new \in States,
         worker' = [worker EXCEPT ![w] = new], new.item = worker[w].item,
         UNCHANGED <<synchronous, stopped, outcome>>, UNCHANGED queues \/ stopped
  PROVE  Served' /\ PoolStep
  <1>1. /\ Workers' = Workers
        /\ \A v \in Workers : worker'[v] = IF v = w THEN new ELSE worker[v]
    BY OneWorkerChanges, TypedIsTypeOK DEF Pooled
  <1>2. \A v \in Workers : worker'[v].item = worker[v].item
    BY <1>1
  <1>3. Busy' = Busy /\ \A v \in Busy : worker'[v].item = worker[v].item
    BY <1>1, <1>2 DEF Busy, Idle
  <1>. QED
    BY <1>3, Unseen

\* A call is settled.
LEMMA Settling ==
  ASSUME Pooled, NEW c \in Calls, NEW how \in {"resolved", "rejected"}, Settle(c, how)
  PROVE  Open' = Open \ {c} /\ Settled' = Settled \cup {c}
  <1>1. outcome' = [outcome EXCEPT ![c] = how] /\ outcome \in [Calls -> Outcomes]
    BY CallsAssumption DEF Settle, Pooled, TypeOK, Outcomes
  <1>. QED
    BY <1>1 DEF Open, Settled

LEMMA HandleWorkerMessageServed ==
  ASSUME Pooled, Served, NEW w \in Workers, NEW c \in Calls, HandleWorkerMessage(w, c)
  PROVE  Served' /\ PoolStep
  <1>. DEFINE ws == [worker[w] EXCEPT !.item = None, !.asked = @ \ {c}]
  <1>1. PoolTyped /\ worker[w] \in States
    BY TypedIsTypeOK DEF Pooled, PoolTyped
  <1>2. ws \in States /\ ws.item = None
    BY <1>1 DEF States
  <1>3. FindWork(w, ws, numBusy - 1) /\ UNCHANGED <<synchronous, stopped>>
        /\ c \in worker[w].asked /\ Settle(IF worker[w].item = c THEN c ELSE None, "resolved")
    BY DEF HandleWorkerMessage
  <1>. HIDE DEF ws
  <1>4. CASE stopped
    <2>1. worker[w].item = None /\ c # None
      BY <1>4, CallsAssumption DEF Pooled, StoppedIsQuiet, Idle
    <2>2. outcome' = outcome
      BY <1>3, <2>1 DEF Settle
    <2>3. worker' = [worker EXCEPT ![w] = ws]
      BY <1>3, <1>4 DEF FindWork, NothingToDo, Take
    <2>. QED
      BY <1>2, <1>3, <1>4, <2>1, <2>2, <2>3, SameItemUnseen
  <1>5. CASE ~stopped
    <2>1. worker[w].item = c /\ ~Idle(w)
      BY <1>3, <1>5, CallsAssumption DEF Pooled, AnswersMatch, Idle
    <2>2. Open' = Open \ {c} /\ Settled' = Settled \cup {c}
      BY <1>3, <2>1, Settling
    <2>3. Ends(c) /\ Served'
      BY <1>2, <1>3, <1>5, <2>1, <2>2, WorkerEnds
    <2>. QED
      BY <1>1, <1>3, <1>5, <2>2, <2>3, EndsInPool
  <1>. QED
    BY <1>4, <1>5

LEMMA HandleWorkerErrorServed ==
  ASSUME Pooled, Served, NEW w \in Workers, HandleWorkerError(w)
  PROVE  Served' /\ PoolStep
  <1>. DEFINE ws == [Terminated(worker[w]) EXCEPT !.item = None]
  <1>1. PoolTyped /\ worker[w] \in States
    BY TypedIsTypeOK DEF Pooled, PoolTyped
  <1>2. ws \in States /\ ws.item = None
    <2>1. Terminated(worker[w]) \in States
      BY <1>1, TerminatedTyped
    <2>. QED
      BY <2>1 DEF States
  <1>3. FindWork(w, ws, BusyWithout(w)) /\ UNCHANGED <<synchronous, stopped>>
        /\ ~stopped /\ Settle(worker[w].item, "rejected")
    BY DEF HandleWorkerError, Pooled, StoppedIsQuiet
  <1>. HIDE DEF ws
  <1>4. CASE Idle(w)
    <2>1. outcome' = outcome /\ worker[w].item = None
      BY <1>3, <1>4 DEF Settle, Idle
    <2>2. Waiting = {}
      BY <1>3, <1>4 DEF Pooled, NothingWaitsIdly, Busy
    <2>3. worker' = [worker EXCEPT ![w] = ws] /\ UNCHANGED queues
      BY <1>3, <2>2 DEF FindWork, NothingToDo, First
    <2>. QED
      BY <1>2, <1>3, <2>1, <2>3, SameItemUnseen
  <1>5. CASE ~Idle(w)
    <2>1. PICK c \in Calls : c = worker[w].item
      BY <1>1, <1>5 DEF States, Idle
    <2>2. Open' = Open \ {c} /\ Settled' = Settled \cup {c}
      BY <1>3, <2>1, Settling
    <2>3. Ends(c) /\ Served'
      BY <1>2, <1>3, <1>5, <2>1, <2>2, WorkerEnds
    <2>. QED
      BY <1>1, <1>3, <2>2, <2>3, EndsInPool
  <1>. QED
    BY <1>4, <1>5

LEMMA DestroyServed ==
  ASSUME Pooled, Served, NEW w \in Workers, Destroy(w)
  PROVE  Served' /\ PoolStep
  <1>1. worker[w] \in States
    BY DEF Pooled, TypeOK
  <1>2. PICK kept \in States :
          /\ kept.item = worker[w].item
          /\ kept = IF worker[w].started /\ worker[w].item = None
                    THEN Terminated(worker[w]) ELSE worker[w]
    BY <1>1, TerminatedTyped
  <1>3. worker' = [worker EXCEPT ![w] = [kept EXCEPT !.timer = FALSE]]
    BY <1>2 DEF Destroy
  <1>4. [kept EXCEPT !.timer = FALSE] \in States /\ [kept EXCEPT !.timer = FALSE].item = kept.item
    BY DEF States
  <1>. QED
    BY <1>2, <1>3, <1>4, SameItemUnseen DEF Destroy

LEMMA OperationThrowsServed ==
  ASSUME Pooled, Served, NEW w \in Workers, NEW c \in Calls, OperationThrows(w, c)
  PROVE  Served' /\ PoolStep
  <1>1. worker[w] \in States
    BY DEF Pooled, TypeOK
  <1>. DEFINE new == [worker[w] EXCEPT !.asked = @ \ {c}]
  <1>2. new \in States /\ new.item = worker[w].item
    BY <1>1 DEF States
  <1>3. worker' = [worker EXCEPT ![w] = new]
    BY DEF OperationThrows
  <1>. HIDE DEF new
  <1>. QED
    BY <1>2, <1>3, SameItemUnseen DEF OperationThrows

\* The stop closes the pool: what is in work is rejected, and the rest forgotten.
LEMMA StopServed ==
  ASSUME Pooled, Served, Stop
  PROVE  Served' /\ PoolStep
  <1>1. ~stopped /\ stopped' /\ UNCHANGED <<synchronous, queues>>
    BY DEF Stop
  <1>2. /\ Open = Queued \cup Running /\ Running \cap Queued = {}
        /\ outcome \in [Calls -> Outcomes] /\ worker \in [Workers -> States]
    BY <1>1, ServedIs DEF Pooled, TypeOK, Outcomes
  <1>3. Busy' = {}
    <2>1. ASSUME NEW w \in Workers
          PROVE  worker'[w].item = None
      <3>1. ~Idle(w) => worker[w].started
        BY <1>1, RunningWorkers
      <3>2. PICK t \in States : t = Terminated(worker[w])
        BY <1>2, TerminatedTyped
      <3>3. [t EXCEPT !.item = None, !.timer = FALSE].item = None
        BY DEF States
      <3>. QED
        BY <3>1, <3>2, <3>3 DEF Stop, Idle
    <2>2. Workers' = Workers
      BY <1>1 DEF Workers, Length
    <2>. QED
      BY <2>1, <2>2 DEF Busy, Idle
  <1>4. \A c \in Calls : outcome'[c] = IF c \in Running THEN "rejected" ELSE outcome[c]
    BY CallsAssumption DEF Stop, Running, Busy, Idle
  <1>5. Open' = Open \ Running /\ Settled' = Settled \cup Running
    <2>1. Running \subseteq Calls
      BY <1>2 DEF Open
    <2>2. Open' = {c \in Calls : outcome'[c] = "open"}
      BY DEF Open
    <2>3. Settled' = {c \in Calls : outcome'[c] \in {"resolved", "rejected"}}
      BY DEF Settled
    <2>. QED
      BY <1>2, <1>4, <2>1, <2>2, <2>3 DEF Open, Settled
  <1>6. Running' = {} /\ Forgotten' = Queued
    BY <1>1, <1>2, <1>3, <1>5 DEF Running, Forgotten
  <1>7. UNION {ThePool!InLine(p) : p \in Priorities} = Queued
    <2>1. ASSUME NEW p \in Priorities
          PROVE  ThePool!InLine(p) = {queues[p][i] : i \in DOMAIN queues[p]}
      BY <1>1 DEF ThePool!InLine
    <2>. QED
      BY <2>1 DEF Queued
  <1>8. Length' = Length /\ PoolWaiting' = [p \in Priorities |-> <<>>]
    BY <1>1 DEF Length, PoolWaiting, Priorities
  <1>9. ThePool!Close
    BY <1>1, <1>5, <1>6, <1>7, <1>8
    DEF ThePool!Close, PoolWaiting, Running, Settled, Forgotten, Open
  <1>. QED
    BY <1>1, <1>9 DEF PoolStep, ThePool!Next, Served

LEMMA InitServed == Init => Served /\ ThePool!Init
  <1>. SUFFICES ASSUME Init PROVE Served /\ ThePool!Init
    OBVIOUS
  <1>1. Busy = {} /\ Queued = {} /\ Open = {} /\ Settled = {} /\ Running = {}
    BY DEF Init, Busy, Idle, Fresh, Queued, Open, Settled, Running
  <1>2. QueuedOnce
    BY DEF Init, QueuedOnce
  <1>3. Served
    BY <1>1, <1>2 DEF Served, OpenIsSomewhere, Open
  <1>4. ThePool!Init
    BY <1>1, LengthIsPositive DEF Init, ThePool!Init, Settled, Running, Open
  <1>. QED
    BY <1>3, <1>4

LEMMA NextServed == Pooled /\ Served /\ [Next]_vars => Served' /\ PoolStep
  <1>. SUFFICES ASSUME Pooled, Served, [Next]_vars PROVE Served' /\ PoolStep
    OBVIOUS
  <1>1. ASSUME NEW c \in Calls, DoRpc(c) PROVE Served' /\ PoolStep
    BY <1>1, EnqueueServed, DispatchServed DEF DoRpc
  <1>2. ASSUME NEW w \in Workers, Answer(w) PROVE Served' /\ PoolStep
    BY <1>2, HandleWorkerMessageServed, OperationThrowsServed DEF Answer
  <1>3. ASSUME NEW w \in Workers, HandleWorkerError(w) PROVE Served' /\ PoolStep
    BY <1>3, HandleWorkerErrorServed
  <1>4. ASSUME NEW w \in Workers, Destroy(w) PROVE Served' /\ PoolStep
    BY <1>4, DestroyServed
  <1>5. CASE Stop
    BY <1>5, StopServed
  <1>6. CASE UNCHANGED vars
    <2>1. Busy' = Busy
      BY <1>6 DEF vars, Busy, Idle, Workers, Length
    <2>. QED
      BY <1>6, <2>1, Unseen DEF vars
  <1>. QED
    BY <1>1, <1>2, <1>3, <1>4, <1>5, <1>6 DEF Next

-----------------------------------------------------------------------------
(* The theorems                                                            *)

LEMMA NextPooled == Pooled /\ [Next]_vars => Pooled'
  <1>. SUFFICES ASSUME Pooled, [Next]_vars PROVE Pooled'
    OBVIOUS
  <1>1. ASSUME NEW c \in Calls, DoRpc(c) PROVE Pooled'
    BY <1>1, EnqueuePooled, DispatchPooled DEF DoRpc
  <1>2. ASSUME NEW w \in Workers, Answer(w) PROVE Pooled'
    BY <1>2, HandleWorkerMessagePooled, OperationThrowsPooled DEF Answer
  <1>3. ASSUME NEW w \in Workers, HandleWorkerError(w) PROVE Pooled'
    BY <1>3, HandleWorkerErrorPooled
  <1>4. ASSUME NEW w \in Workers, Destroy(w) PROVE Pooled'
    BY <1>4, DestroyPooled
  <1>5. CASE Stop
    BY <1>5, StopPooled
  <1>6. CASE UNCHANGED vars
    BY <1>6 DEF vars, Pooled, TypeOK, BusyIsCounted, NothingWaitsIdly, AnswersMatch,
       BusyIsStarted, StoppedIsQuiet, Busy, Idle, Waiting, Workers, Length, Priorities
  <1>. QED
    BY <1>1, <1>2, <1>3, <1>4, <1>5, <1>6 DEF Next

\* However workers come, die, are terminated and answer late, the handlers of
\* cryptoApi.ts keep the inductive invariant.
THEOREM AlwaysPooled == Spec => []Pooled
  BY InitPooled, NextPooled, PTL DEF Spec

\* The record of workers, queues and promises keeps its shape; numBusy in
\* particular is never negative and never exceeds the number of workers.
THEOREM TypeCorrect == Spec => []TypeOK
  <1>1. Pooled => TypeOK
    BY DEF Pooled
  <1>. QED
    BY AlwaysPooled, <1>1, PTL

\* numBusy of a running API is the number of workers with an item, so neither
\* of doRpc's assertions can fail.
THEOREM CountIsRight == Spec => []BusyIsCounted
  <1>1. Pooled => BusyIsCounted
    BY DEF Pooled
  <1>. QED
    BY AlwaysPooled, <1>1, PTL

\* An answer that handleWorkerMessage gets is the answer to currentWorkItem.
THEOREM NoAnswerAstray == Spec => []AnswersMatch
  <1>1. Pooled => AnswersMatch
    BY DEF Pooled
  <1>. QED
    BY AlwaysPooled, <1>1, PTL

\* No call stays in a queue of a running API while a worker is idle.
THEOREM NoIdleWaiting == Spec => []NothingWaitsIdly
  <1>1. Pooled => NothingWaitsIdly
    BY DEF Pooled
  <1>. QED
    BY AlwaysPooled, <1>1, PTL

\* A call that was not answered is in one queue, once, or at one worker, until the API is stopped.
THEOREM CallsAreSomewhere == Spec => []OpenIsSomewhere
  <1>1. Spec => []Served
    BY InitServed, NextServed, AlwaysPooled, PTL DEF Spec
  <1>2. Served => OpenIsSomewhere
    BY DEF Served, OpenIsSomewhere
  <1>. QED
    BY <1>1, <1>2, PTL

\* The callers of doRpc see a pool of workers, whatever threads die, are terminated, answer late or
\* throw: the most urgent call goes first, no worker is idle meanwhile, each call is settled at most
\* once, and after stop() only what waits is left without an answer.
THEOREM IsAPool == Spec => ImplementsPool
  <1>1. Init => Served /\ ThePool!Init
    BY InitServed
  <1>2. Pooled /\ Served /\ [Next]_vars => Served' /\ PoolStep
    BY NextServed
  <1>3. PoolStep => [ThePool!Next]_ThePool!vars
    BY DEF PoolStep, PoolVars, ThePool!vars, PoolWaiting, Running, Settled, Forgotten, Open
  <1>. QED
    BY <1>1, <1>2, <1>3, AlwaysPooled, PTL DEF Spec, ImplementsPool, ThePool!Spec
=============================================================================
