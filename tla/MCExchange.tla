----------------------------- MODULE MCExchange -----------------------------
(***************************************************************************)
(* Updates and withdrawals beside each other; at most one coin, from a tip. *)
(***************************************************************************)
EXTENDS Exchange

CONSTANTS tipped, d1, d2

MCAmount == [c \in Coins |-> 1]
MCDenomOf == [c \in Coins |-> d1]
MCSource == [c \in Coins |-> "Tip"]
MCOld == [c \in Coins |-> c]
=============================================================================
