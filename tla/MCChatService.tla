--------------------------- MODULE MCChatService ---------------------------
EXTENDS ChatService

In(conv, question, explicit, streams) ==
  [conv |-> conv, question |-> question, explicit |-> explicit, stream |-> streams]

(* Two questions in one or two conversations: one that a rule sends to the
   agent, and a follow-up the classifier and the last turn decide on. *)
MCInputs == { In("c1", "compare", NoMode, TRUE), In("c1", "and this", NoMode, TRUE),
              In("c2", "and this", "chat", FALSE) }
MCAbout(question) ==
  [hits |-> IF question = "compare" THEN {"agent_complex_task", "agent_multi_object"} ELSE {},
   switches |-> question = "compare", capability |-> FALSE,
   continues |-> question = "and this"]
MCSetups == { [backend |-> "memory", executor |-> "workflow"],
              [backend |-> "postgres", executor |-> "react"] }
Postgres == { [backend |-> "postgres", executor |-> "workflow"] }
MCReplies == { [kind |-> "plain", mode |-> "agent", confidence |-> 70],
               [kind |-> "prompted", mode |-> "agent", confidence |-> 70],
               [kind |-> "plain", mode |-> "other", confidence |-> 90],
               [kind |-> "failed", mode |-> NoMode, confidence |-> 0] }
=============================================================================
