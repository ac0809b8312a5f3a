----------------------------- MODULE WorkerPool -----------------------------
(***************************************************************************)
(* What CryptoApi promises to its callers: a pool that works at Size calls *)
(* at a time, the others wait by priority and then by age, and no worker   *)
(* is idle while a call waits.  Each call is settled at most once.  How    *)
(* workers are started, die, are terminated and are counted is not visible.*)
(***************************************************************************)
EXTENDS Naturals, Sequences, FiniteSets

CONSTANTS Calls, Priority, Priorities

\* forgotten: calls that a closed pool will never settle.
VARIABLES size, open, waiting, running, settled, forgotten

vars == <<size, open, waiting, running, settled, forgotten>>

InLine(p) == {waiting[p][i] : i \in DOMAIN waiting[p]}
Taken == running \cup settled \cup forgotten \cup UNION {InLine(p) : p \in Priorities}

Init ==
  /\ size \in Nat \ {0} /\ open = TRUE
  /\ waiting = [p \in Priorities |-> <<>>]
  /\ running = {} /\ settled = {} /\ forgotten = {}

Submit(c) ==
  /\ open /\ c \notin Taken
  /\ \/ /\ Cardinality(running) < size
        /\ running' = running \cup {c}
        /\ UNCHANGED waiting
     \/ /\ Cardinality(running) = size
        /\ waiting' = [waiting EXCEPT ![Priority[c]] = Append(@, c)]
        /\ UNCHANGED running
  /\ UNCHANGED <<size, open, settled, forgotten>>

\* A call comes to its end, and the next one takes its place.
Finish(c) ==
  /\ open /\ c \in running
  /\ settled' = settled \cup {c}
  /\ \/ /\ \A p \in Priorities : waiting[p] = <<>>
        /\ running' = running \ {c}
        /\ UNCHANGED waiting
     \/ \E p \in Priorities :
          /\ waiting[p] # <<>>
          /\ \A r \in Priorities : r > p => waiting[r] = <<>>
          /\ running' = (running \ {c}) \cup {Head(waiting[p])}
          /\ waiting' = [waiting EXCEPT ![p] = Tail(@)]
  /\ UNCHANGED <<size, open, forgotten>>

\* What is being worked at is rejected, what waits is forgotten, and so is
\* what is submitted later.
Close ==
  /\ open
  /\ open' = FALSE
  /\ settled' = settled \cup running /\ running' = {}
  /\ forgotten' = UNION {InLine(p) : p \in Priorities}
  /\ waiting' = [p \in Priorities |-> <<>>]
  /\ UNCHANGED size

SubmitLate(c) ==
  /\ ~open /\ c \notin Taken
  /\ forgotten' = forgotten \cup {c}
  /\ UNCHANGED <<size, open, waiting, running, settled>>

Next ==
  \/ \E c \in Calls : Submit(c) \/ Finish(c) \/ SubmitLate(c)
  \/ Close

Spec == Init /\ [][Next]_vars
=============================================================================
