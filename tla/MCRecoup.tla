------------------------------ MODULE MCRecoup ------------------------------
(***************************************************************************)
(* Withdrawn coins, one that came from refreshing a spent coin, and one     *)
(* from a tip, of one denomination or of two; the spent coin is worth       *)
(* nothing, or a little where it could not be refreshed entirely.           *)
(***************************************************************************)
EXTENDS Recoup

CONSTANTS withdrawn, second, spent, change, tipped, d1, d2

MCDenomOf == [c \in Coins |-> IF c \in {withdrawn, spent, second} THEN d1 ELSE d2]
OneDenom == [c \in Coins |-> d1]
MCSource == [c \in Coins |-> CASE c \in {withdrawn, spent, second} -> "Withdraw"
                               [] c = change -> "Refresh"
                               [] c = tipped -> "Tip"]
MCOld == [c \in Coins |-> spent]
WithoutDust == [c \in Coins |-> IF c = spent THEN 0 ELSE 1]
WithDust == [c \in Coins |-> 1]
=============================================================================
