---------------------------- MODULE ReActExecutor ----------------------------
(***************************************************************************)
(* ReActAgentExecutor.Execute, the agent executor AGENT_EXECUTOR=react puts *)
(* in the place of the coordinators: the model thinks, names a tool and its *)
(* input, reads the observation, until it concludes or the steps run out.   *)
(* What the model writes and what a tool returns is outside.               *)
(***************************************************************************)
EXTENDS Integers, SequencesExt

CONSTANTS Tools,         \* the tools of the registry
          FinalActions,  \* the words isFinalAction knows
          Responses,     \* what the model may write: sequences of [label, text]
          MaxSteps,      \* ReActAgentConfig.MaxSteps
          ToolAttempts   \* ReActAgentConfig.MaxRetryAttempts

ASSUME ReActAssumption == MaxSteps \in Nat \ {0} /\ ToolAttempts \in Nat \ {0}

VARIABLES
    react,     \* where Execute is, and the attempts made at the tool under way
    thoughts,  \* thoughtHistory: an action, what came of it, whether a tool ran
    calls      \* toolCallInfos, with the step of each

reactVars == <<react, thoughts, calls>>

At(place, try) == [at |-> place, try |-> try]

ReActInit == react = At("off", 0) /\ thoughts = <<>> /\ calls = <<>>

(* What is left of an execution once another turn begins.                  *)
ReActOff == react' = At("off", 0) /\ thoughts' = <<>> /\ calls' = <<>>

ReActBegin == react' = At("think", 0) /\ thoughts' = <<>> /\ calls' = <<>>

-----------------------------------------------------------------------------
(* parseLLMResponse: the last line of each label counts; the input goes on   *)
(* over unlabelled lines, an empty one begins anew.                        *)
NothingRead == [thought |-> "", action |-> "", input |-> <<>>, collecting |-> FALSE]

ReadLine(p, line) ==
    CASE line.label = "thought" -> [p EXCEPT !.thought = line.text, !.collecting = FALSE]
      [] line.label = "action"  -> [p EXCEPT !.action = line.text, !.collecting = FALSE]
      [] line.label = "input"   ->
             [p EXCEPT !.input = IF line.text = "" THEN <<>> ELSE <<line.text>>,
                       !.collecting = TRUE]
      [] line.label = "none"    ->
             IF p.collecting THEN [p EXCEPT !.input = Append(@, line.text)] ELSE p

Parsed(response) == FoldLeft(ReadLine, NothingRead, response)

(* parseActionInput: no input is an empty object; an object may be spread    *)
(* over lines, prose is none.                                              *)
Args(p) == p.input = <<>> \/ p.input = <<"object">> \/ p.input = <<"{", "}">>

Callable(p) == p.action \in Tools /\ Args(p)

-----------------------------------------------------------------------------

(* A thought that concludes runs no tool, whatever its action is called.    *)
Thought(p, seen) ==
    [action |-> p.action, seen |-> seen, ran |-> p.action \notin FinalActions /\ Callable(p)]

(* The loop's next iteration, or buildFinalSummary after the last.          *)
NextStep(history) == At(IF Len(history) = MaxSteps THEN "exhausted" ELSE "think", 0)

(* The model concludes; or names no action, an unknown tool or a bad input,  *)
(* which it is told; or calls a tool.                                      *)
LLMAnswers(response) ==
    /\ react.at = "think"
    /\ LET p == Parsed(response)
       IN  IF p.action \in FinalActions
           THEN thoughts' = Append(thoughts, Thought(p, "answer")) /\ react' = At("final", 0)
           ELSE IF Callable(p)
           THEN thoughts' = Append(thoughts, Thought(p, "nothing")) /\ react' = At("act", 1)
           ELSE thoughts' = Append(thoughts, Thought(p, "error")) /\ react' = NextStep(thoughts')
    /\ UNCHANGED calls

LLMFails ==
    /\ react.at = "think"
    /\ react' = At("failed", 0)
    /\ UNCHANGED <<thoughts, calls>>

MutObserve(seen) ==   \* Mutant: a call that failed is not reported.
    /\ thoughts' = [thoughts EXCEPT ![Len(thoughts)].seen = seen]
    /\ calls' = IF seen = "error" THEN calls
                ELSE Append(calls, [step |-> Len(thoughts), result |-> seen])
    /\ react' = NextStep(thoughts)
Observe(seen) ==
    /\ thoughts' = [thoughts EXCEPT ![Len(thoughts)].seen = seen]
    /\ calls' = Append(calls, [step |-> Len(thoughts), result |-> seen])
    /\ react' = NextStep(thoughts)

(* The tool returns: its result, or the text of an open circuit, which       *)
(* parseToolResult has made an object of and no string to look for           *)
(* "tool_degraded" in.                                                     *)
ToolReturns == react.at = "act" /\ Observe("success")

ToolFails ==
    /\ react.at = "act"
    /\ IF react.try < ToolAttempts
       THEN react' = At("act", react.try + 1) /\ UNCHANGED <<thoughts, calls>>
       ELSE Observe("error")

ReActStep == (\E response \in Responses : LLMAnswers(response))
             \/ LLMFails \/ ToolReturns \/ ToolFails

ReActEnded == react.at \in {"final", "exhausted", "failed"}

-----------------------------------------------------------------------------
(* Every thought of an ended execution has come to something, the call of    *)
(* each that ran a tool, and no other, is reported to the caller once, in    *)
(* order and with what the model was shown, and only the last thought       *)
(* concludes.                                                              *)
Ran == {i \in DOMAIN thoughts : thoughts[i].ran}

ThoughtsAccounted ==
    ReActEnded =>
        /\ {calls[i].step : i \in DOMAIN calls} = Ran
        /\ \A i, j \in DOMAIN calls : i < j => calls[i].step < calls[j].step
        /\ \A i \in DOMAIN calls : calls[i].result = thoughts[calls[i].step].seen
        /\ \A i \in DOMAIN thoughts :
               /\ thoughts[i].seen # "nothing"
               /\ thoughts[i].seen = "answer" => i = Len(thoughts) /\ react.at = "final"
=============================================================================
