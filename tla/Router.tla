------------------------------- MODULE Router -------------------------------
(* How a chat message is given a mode: the explicit mode of the request, the
   hard keyword rules, the classifying model with its confidence thresholds, and
   the mode of the previous turn for a follow-up (internal/router).

   A message is what the keyword tables and the length tests make of it:
     hits        the names of the hard rules one of whose keywords it contains
     switches    a word of modeSwitchKeywords occurs in it
     capability  it asks what the assistant can do
     continues   it is worded as a continuation (phrase, short question, hint)
   Confidences are in hundredths.                                            *)
EXTENDS Naturals, Sequences, FiniteSets

NoMode == ""
(* RouteMode; the classifying model may answer any other word. *)
Modes == {"chat", "rag", "analysis", "agent"}

NormalizeMode(mode) == IF mode \in {"rag", "analysis"} THEN "agent" ELSE mode

HighConfidence == 80
MediumConfidence == 60
DefaultMode == "chat"

Rule(name, mode, confidence) ==
  [name |-> name, mode |-> mode, confidence |-> confidence]

(* NewHardRuleMatcher, in the order of the table. *)
Rules ==
  << Rule("rag_keywords", "rag", 95),
     Rule("analysis_keywords", "analysis", 90),
     Rule("agent_complex_task", "agent", 90),
     Rule("agent_multi_object", "agent", 85),
     Rule("agent_multi_time", "agent", 85),
     Rule("agent_multi_tool", "agent", 85),
     Rule("chat_keywords", "chat", 95),
     Rule("rag_question_pattern", "rag", 70) >>

Match(message) == SelectSeq(Rules, LAMBDA rule : rule.name \in message.hits)

(* The first of the most confident matches. *)
BestRuleMatch(matches) ==
  LET best == CHOOSE i \in DOMAIN matches :
                /\ \A j \in DOMAIN matches :
                     matches[j].confidence <= matches[i].confidence
                /\ \A j \in 1..(i - 1) :
                     matches[j].confidence < matches[i].confidence
  IN  matches[best]

(* What the classifying model writes: not JSON at all; JSON whose candidates
   are objects with a mode and a confidence, as the prompt asks for; or JSON
   without candidates. candidates is decoded as []map[string]float64, which the
   mode of a prompted candidate, a string, does not fit: the decoder reports an
   error and the answer counts as unreadable. *)
ParseLLMResponse(response) ==
  IF response.kind = "plain"
    THEN [mode |-> response.mode, confidence |-> response.confidence]
    ELSE [mode |-> "chat", confidence |-> 50]

IsFollowUpMessage(message, recent) == recent > 0 /\ message.continues

ShouldApplyStickiness(message, recent, lastMode) ==
  /\ lastMode # NoMode
  /\ ~message.capability
  /\ ~message.switches
  /\ IsFollowUpMessage(message, recent)

Decision(mode, by) == [mode |-> mode, by |-> by]

ApplyConfidenceAndStickiness(result, message, recent, lastMode) ==
  IF result.confidence >= HighConfidence
    THEN Decision(NormalizeMode(result.mode), "llm")
  ELSE IF ShouldApplyStickiness(message, recent, lastMode)
    THEN Decision(NormalizeMode(lastMode), "llm+stickiness")
  ELSE IF result.confidence >= MediumConfidence
    THEN Decision(NormalizeMode(result.mode), "llm")
  ELSE Decision(DefaultMode, "llm+fallback")

(* RouteEngine.Route without a decision store, the way main.go builds it. response is
   the classifier's answer: a record as above, "none" when no classifier is
   configured, "failed" when the call fails. recent is the number of recent
   messages loaded, lastMode the mode of the last turn. *)
Route(message, explicit, recent, lastMode, response) ==
  LET matches == Match(message)
  IN  IF explicit # NoMode
        THEN Decision(NormalizeMode(explicit), "explicit")
      ELSE IF matches # << >>
        THEN Decision(NormalizeMode(BestRuleMatch(matches).mode), "rule")
      ELSE IF response.kind = "failed"
        THEN Decision(NoMode, "error")
      ELSE IF response.kind # "none"
        THEN ApplyConfidenceAndStickiness(ParseLLMResponse(response),
                                          message, recent, lastMode)
      ELSE IF ShouldApplyStickiness(message, recent, lastMode)
        THEN Decision(NormalizeMode(lastMode), "stickiness")
      ELSE Decision(DefaultMode, "default")
=============================================================================
