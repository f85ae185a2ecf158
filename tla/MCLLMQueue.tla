----------------------------- MODULE MCLLMQueue -----------------------------
(* LLMQueue for TLC: requests are interchangeable.                          *)
EXTENDS LLMQueue, TLC

RequestSymmetry == Permutations(Requests)
=============================================================================
