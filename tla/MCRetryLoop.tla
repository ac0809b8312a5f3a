---------------------------- MODULE MCRetryLoop ----------------------------
(***************************************************************************)
(* Two calls of user interfaces beside the loop; one tip, with one or two   *)
(* records; an order or two for the same resource; and one record of each   *)
(* kind of work that the loop treats in its own way.                        *)
(***************************************************************************)
EXTENDS RetryLoop

CONSTANTS u1, u2, p1, p2, o1, o2, t1, t2, theLoop, reserve, exchange, group, pay

MCResource == [o \in Orders |-> "https://shop/article"]
MCKindOf == [w \in Works |-> CASE w = reserve -> "reserve" [] w = exchange -> "exchange"
                               [] w = group -> "group" [] OTHER -> "purchase"]
Everyone == [s \in {"tip", "order", "work"} |-> Users]
TwoForOrders == [s \in {"tip", "order", "work"} |-> IF s = "order" THEN Users ELSE {u1}]
OneEach == {{"tip"}, {"order"}, {"work"}}
OnlyTips == {{"tip"}}
OnlyOrders == {{"order"}}
OnlyWork == {{"work"}}
TipAndWork == {{"tip", "work"}}
=============================================================================
