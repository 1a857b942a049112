----------------------------- MODULE MCOrderFlow -----------------------------
(* Instances of OrderFlow for TLC. *)
EXTENDS OrderFlow

MCPrices == {1, 2}
==============================================================================
