---------------------------- MODULE MCAuthSession ----------------------------
(* AuthSession for TLC: calls are interchangeable.                          *)
EXTENDS AuthSession, TLC

CallSymmetry == Permutations(Calls)
=============================================================================
