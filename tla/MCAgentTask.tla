---------------------------- MODULE MCAgentTask ----------------------------
(***************************************************************************)
(* Requests that reach every rule, the two follow-up paths, the complexity  *)
(* path on both sides of its threshold; replies that name no known type.     *)
(* What the model writes to ReAct: calls, a conclusion, and texts that miss  *)
(* the format, one of them a conclusion with an action line in its answer.   *)
(***************************************************************************)
EXTENDS AgentTask

Ask(text, stock) ==
    [text |-> text, stock |-> stock, explicit |-> "", recent |-> FALSE, last |-> ""]

MCMessages ==
    {Ask({cue}, FALSE) : cue \in {"plan", "pipeline", "workflow", "SOP", "debate",
                                      "committee", "peer", "deep", "follow", "blank"}}
    \cup {Ask({"deep", "and", "sources", "analysis"}, TRUE),
          Ask({"deep", "years", "sources"}, FALSE),
          Ask({"compare", "peer"}, FALSE),
          Ask({"and", "years", "steps", "sources", "question"}, FALSE),
          Ask({"switch", "follow"}, FALSE)}

Reply0 == [none |-> FALSE, failed |-> FALSE, garbled |-> FALSE, type |-> "plan", confidence |-> 90]

MCReplies ==
    {[Reply0 EXCEPT !.none = TRUE], [Reply0 EXCEPT !.failed = TRUE],
     [Reply0 EXCEPT !.garbled = TRUE], [Reply0 EXCEPT !.type = "unknown"],
     [Reply0 EXCEPT !.confidence = 70], [Reply0 EXCEPT !.confidence = 120],
     [Reply0 EXCEPT !.type = "debate"], [Reply0 EXCEPT !.type = ""]}

MCWirings ==
    {[explicit |-> "", executor |-> "coordinator"], [explicit |-> "deep", executor |-> "coordinator"],
     [explicit |-> "unknown", executor |-> "coordinator"], [explicit |-> "plan", executor |-> "react"]}

Line(label, text) == [label |-> label, text |-> text]
Call(tool, input) == <<Line("thought", "needs data"), Line("action", tool)>> \o input

MCResponses ==
    {Call("search", <<Line("input", "object")>>),
     Call("search", <<Line("input", ""), Line("none", "{"), Line("none", "}")>>),
     Call("calculator", <<>>),
     Call("calculator", <<Line("input", "prose")>>),
     Call("oracle", <<Line("input", "object")>>),
     <<Line("none", "prose")>>,
     Call("finish", <<Line("input", "object"), Line("thought", "again"), Line("none", "prose")>>),
     Call("finish", <<Line("input", "prose"), Line("action", "advice")>>)}
=============================================================================
