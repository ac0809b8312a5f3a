---------------------------- MODULE SerialStore ----------------------------
(***************************************************************************)
(* What the wallet's database promises to the operations: one transaction   *)
(* after the other, each of them as a whole.  A transaction that commits    *)
(* has a history, its requests with their answers, that is explained by the *)
(* records before it and yields the records after it.  One that does not    *)
(* commit leaves no trace, and nothing that was committed is ever lost.     *)
(***************************************************************************)
EXTENDS Sequences, SequencesExt, FiniteSetsExt, Functions

CONSTANTS Txs, Undef

VARIABLES
  data,   \* key -> value
  done    \* transaction -> {its history}, {} unless it is committed

Value(records, key) == IF key \in DOMAIN records THEN records[key] ELSE Undef
\* The record with the least primary key, above the cursor's, that has an index key.
NextBy(records, indexKey, after) ==
  LET keys == {k \in DOMAIN records : records[k].by = <<indexKey>> /\ (after # Undef => k > after)}
  IN IF keys = {} THEN Undef ELSE records[Min(keys)]

Answer(records, req) ==
  CASE req.op = "get" -> Value(records, req.key)
    [] req.op = "getIndexed" -> NextBy(records, req.by, Undef)
    [] req.op = "next" -> NextBy(records, req.by, req.after)
    [] req.op \in {"put", "add"} -> req.value.key
    [] OTHER -> Undef

Effect(records, req) ==
  CASE req.op \in {"put", "add"} -> [k \in DOMAIN records \cup {req.value.key} |->
                                       IF k = req.value.key THEN req.value ELSE records[k]]
    [] req.op = "delete" -> [k \in DOMAIN records \ {req.key} |-> records[k]]
    [] req.op = "mutate" -> [k \in DOMAIN records |->
                               IF k = req.key THEN [records[k] EXCEPT !.body = req.body] ELSE records[k]]
    [] OTHER -> records

\* The records after each step of a history.
After(records, history) ==
  LET states[n \in 0..Len(history)] ==
        IF n = 0 THEN records ELSE Effect(states[n - 1], history[n].req)
  IN states

Explained(records, history) ==
  \A n \in DOMAIN history :
    /\ history[n].answer = Answer(After(records, history)[n - 1], history[n].req)
    /\ history[n].req.op = "add" => history[n].req.value.key \notin DOMAIN After(records, history)[n - 1]

SerialInit == data = <<>> /\ done = [t \in Txs |-> {}]

CommitWhole(t) ==
  /\ done[t] = {}
  /\ \E history \in done'[t] :
       /\ Explained(data, history)
       /\ done' = [done EXCEPT ![t] = {history}]
       /\ data' = After(data, history)[Len(history)]

SerialNext == \E t \in Txs : CommitWhole(t)
SerialSpec == SerialInit /\ [][SerialNext]_<<data, done>>
=============================================================================
