------------------------ MODULE CoordinatorSelector ------------------------
(***************************************************************************)
(* Which coordinator executes an agent request                             *)
(* (internal/eino/agent/coordinator_selector.go, the rule file loader and   *)
(* the classifier).  A message is the set of cues the keyword lists find in *)
(* it; scores and confidences are counted in hundredths.                   *)
(***************************************************************************)
EXTENDS Integers, Sequences, FiniteSets, FiniteSetsExt

NoCoordinator == ""

Coordinators == {"supervisor", "pipeline", "workflow", "plan", "peer",
                 "debate", "committee", "deep"}

(* HardCoordinatorRuleMatcher's table.  "compare" is the cue of the two     *)
(* lists that name the same words.                                         *)
DefaultRules == <<
    [cues |-> {"plan"},            type |-> "plan",       confidence |-> 92, min |-> 0],
    [cues |-> {"pipeline"},        type |-> "pipeline",   confidence |-> 88, min |-> 0],
    [cues |-> {"workflow", "SOP"}, type |-> "workflow",   confidence |-> 86, min |-> 0],
    [cues |-> {"debate"},          type |-> "debate",     confidence |-> 85, min |-> 0],
    [cues |-> {"committee"},       type |-> "committee",  confidence |-> 85, min |-> 0],
    [cues |-> {"peer"},            type |-> "peer",       confidence |-> 83, min |-> 0],
    [cues |-> {"compare"},         type |-> "supervisor", confidence |-> 90, min |-> 35],
    [cues |-> {"deep"},            type |-> "deep",       confidence |-> 84, min |-> 55] >>

(* The rule file.  Its min_complexity has no matching field (yaml.v3 looks  *)
(* for mincomplexity), so every minimum is 0; its matcher lowers the        *)
(* keyword and not the message, so an upper-case SOP is not found.          *)
FileRules ==
    [i \in DOMAIN DefaultRules |->
        [DefaultRules[i] EXCEPT !.min = 0, !.cues = @ \ {"SOP"}]]

ScoreComplexity(in) ==
    LET Weight == [compare |-> 22, and |-> 12, years |-> 15, steps |-> 18, sources |-> 10]
    IN  IF "blank" \in in.text
        THEN 30
        ELSE Min({100, 25
                 + MapThenSumSet(LAMBDA c : Weight[c], in.text \cap DOMAIN Weight)
                 + (IF in.stock /\ "analysis" \in in.text THEN 8 ELSE 0)
                 + (IF in.recent THEN 5 ELSE 0)})

(* In floating point 0.25 + 0.22 + 0.08 and 0.25 + 0.12 + 0.10 + 0.08 stay  *)
(* below the 0.55 they name.                                               *)
Reaches(in, min) ==
    \/ ScoreComplexity(in) > min
    \/ /\ ScoreComplexity(in) = min
       /\ ~(min = 55 /\ in.stock /\ "analysis" \in in.text)

Matches(in, rules) ==
    {i \in DOMAIN rules : rules[i].cues \cap in.text # {} /\ Reaches(in, rules[i].min)}

BestMatch(in, rules) ==
    LET top == Max({rules[i].confidence : i \in Matches(in, rules)})
    IN  rules[Min({i \in Matches(in, rules) : rules[i].confidence = top})]

IsFollowUp(in) ==
    /\ in.text \cap {"blank", "switch"} = {}
    /\ \/ "follow" \in in.text
       \/ "question" \in in.text /\ in.recent

Sticky(in) == in.last # NoCoordinator /\ IsFollowUp(in)

(* parseCoordinatorLLMResponse: the type of a reply that parses is taken as *)
(* it stands.                                                              *)
ParseReply(reply) ==
    IF reply.garbled
    THEN [type |-> "supervisor", confidence |-> 50]
    ELSE [type |-> reply.type,
          confidence |-> IF reply.confidence \in 0 .. 100 THEN reply.confidence ELSE 50]

ApplyConfidenceAndStickiness(in, answer) ==
    IF answer.confidence >= 82 THEN answer.type
    ELSE IF Sticky(in) THEN in.last
    ELSE IF answer.confidence >= 65 THEN answer.type
    ELSE "supervisor"

SelectByComplexity(in) == IF ScoreComplexity(in) >= 70 THEN "plan" ELSE "supervisor"

(* CoordinatorSelector.Select.                                             *)
SelectCoordinator(in, rules, reply) ==
    CASE in.explicit # NoCoordinator -> in.explicit
      [] in.explicit = NoCoordinator /\ Matches(in, rules) # {} -> BestMatch(in, rules).type
      [] OTHER ->
           IF Sticky(in) THEN in.last
           ELSE IF reply.none THEN SelectByComplexity(in)
           ELSE IF reply.failed THEN "supervisor"
           ELSE ApplyConfidenceAndStickiness(in, ParseReply(reply))
=============================================================================
