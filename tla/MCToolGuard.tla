----------------------------- MODULE MCToolGuard -----------------------------
(* ToolGuard for TLC: calls are interchangeable.                            *)
EXTENDS ToolGuard, TLC

CallSymmetry == Permutations(Calls)
=============================================================================
