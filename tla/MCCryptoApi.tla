---------------------------- MODULE MCCryptoApi ----------------------------
(***************************************************************************)
(* Two threads or the synchronous worker, and more calls than workers.     *)
(***************************************************************************)
EXTENDS CryptoApi

CONSTANTS low1, low2, high1, high2

MCCalls == {low1, low2, high1, high2}
MCPriority == [c \in MCCalls |-> IF c \in {low1, low2} THEN 1 ELSE 2]
=============================================================================
