----------------------------- MODULE MCDatabase -----------------------------
(***************************************************************************)
(* One record that comes and goes; two bodies of it; and one that moves      *)
(* from an index key to another, beside a second record.                     *)
(***************************************************************************)
EXTENDS Database

CONSTANTS c1, c2, t1, t2

Record(key, by, body) == [key |-> key, by |-> <<by>>, body |-> body]
Comes == {Record(1, 1, 1)}
Changes == {Record(1, 1, 1), Record(1, 1, 2)}
Moves == {Record(1, 1, 1), Record(1, 2, 1), Record(2, 1, 1)}
=============================================================================
