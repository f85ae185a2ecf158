-------------------------- MODULE MCQueryService --------------------------
(* Small instances of QueryService: four questions, of which two are close to
   each other and one to both at a distance below the threshold.             *)
EXTENDS QueryService, TLC

MCQuestions == {"revenue", "income", "profit", "news"}
MCScore(a, b) ==
  CASE a = b                                -> 3
    [] {a, b} = {"revenue", "income"}       -> 2
    [] "profit" \in {a, b} /\ "news" \notin {a, b} -> 1
    [] OTHER                                -> 0
MCGuard(q) == CASE q = "news" -> "refuses" [] q = "profit" -> "rewrites" [] OTHER -> "keeps"
MCInputs ==
  {[question |-> "income", code |-> "", stream |-> FALSE],
   [question |-> "profit", code |-> "600519", stream |-> TRUE],
   [question |-> "revenue", code |-> "600519", stream |-> FALSE],
   [question |-> "news", code |-> "", stream |-> TRUE]}
MCStocked == {{}, {"revenue", "news"}}
Symmetry == Permutations(Requests)
=============================================================================
