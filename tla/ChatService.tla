----------------------------- MODULE ChatService -----------------------------
(* The chat pipeline: ChatService.chat with the executors it calls, over the
   conversation store, the router and the exact-answer cache. Several requests
   run at once; a user deletes conversations under them; stores, Redis and the
   client's stream fail.                                                     *)
EXTENDS Router, ConversationStore, ExactCache

CONSTANTS
  Requests,    \* the chat requests
  Inputs,      \* what a request asks: [conv, question, explicit, stream]
  About(_),    \* what the router sees in a question
  Replies,     \* what the classifying model may answer
  Setups,      \* how main.go may wire it: [backend, executor], with backend
               \* "memory" or "postgres", executor "workflow" or "react"
  Budget       \* faults, deletions and TTL periods of a behaviour

ASSUME ChatAssumption == /\ Callers = Requests /\ Budget \in Nat
                         /\ \A input \in Inputs : input.conv \in Convs

VARIABLES
  store,    \* the conversation store
  setup,    \* the wiring
  ask,      \* the input of each request
  call,     \* where each request is in the pipeline, and its chatContext
  reply,    \* what its caller got
  stream,   \* the texts its client was sent, in order
  budget    \* what is left of Budget

vars == << store, setup, ask, call, reply, stream, budget, entries, index, jobs, epoch >>

RecentLimit == 5    \* chatRecentMessageLimit

Questions == {input.question : input \in Inputs}
Partial == "partial"   \* the chunks of an attempt that failed half-way

(* The answer a request computes is told from the answers of the others. *)
Answer(r) == r
UserId(r) == << r, "user" >>
AssistantId(r) == << r, "assistant" >>

Idle == [at |-> "idle", recent |-> 0, last |-> NoMode, mode |-> NoMode,
         seen |-> NoEntry, text |-> NoText, id |-> << >>, saved |-> FALSE]
NoReply == [status |-> "none", text |-> NoText, cached |-> FALSE]

Init == /\ store = EmptyStore
        /\ setup \in Setups
        /\ ask \in [Requests -> Inputs]
        /\ call = [r \in Requests |-> Idle]
        /\ reply = [r \in Requests |-> NoReply]
        /\ stream = [r \in Requests |-> << >>]
        /\ budget = Budget
        /\ CacheInit

Conv(r) == ask[r].conv
(* buildExactCacheKey: the conversation and its user are not part of the key. *)
CacheKey(r) == << ask[r].question, call[r].mode >>
Streams(r) == ask[r].stream

Spend == budget > 0 /\ budget' = budget - 1
Go(r, at) == call' = [call EXCEPT ![r].at = at]

(* Mutant: the result is not handed to the caller. *)
MutFinish(r, status, text, cached) == Go(r, "done") /\ UNCHANGED reply
(* The return of chat: only the mode and whether the user's message is stored
   are of interest afterwards. *)
Finish(r, status, text, cached) ==
  /\ call' = [call EXCEPT ![r] = [Idle EXCEPT !.at = "done", !.mode = call[r].mode,
                                              !.saved = call[r].saved]]
  /\ reply' = [reply EXCEPT ![r] = [status |-> status, text |-> text, cached |-> cached]]
Fail(r) == Finish(r, "error", NoText, FALSE)
StoreFault(r) == Spend /\ Fail(r) /\ UNCHANGED << store, ask, stream, cacheVars >>

(* initConversationContext: the recent messages, or none when they cannot be
   read; the summary does not reach any decision modelled here. *)
RecentMessages(r) == GetMessages(setup.backend, store, Conv(r), RecentLimit)

LoadContext(r) ==
  /\ call[r].at = "idle"
  /\ \/ LET recent == RecentMessages(r)
        IN  /\ call' = [call EXCEPT ![r].at = "route", ![r].recent = Len(recent),
                                    ![r].last = LastModeOf(recent)]
            /\ UNCHANGED budget
     \/ Spend /\ Go(r, "route")
  /\ UNCHANGED << store, ask, reply, stream, cacheVars >>

(* route: a second read of the store when the recent messages had no mode. *)
LastMode(r) == IF call[r].last # NoMode THEN call[r].last
                                        ELSE GetLastRouteMode(store, Conv(r))
RouteRequest(r) ==
  /\ call[r].at = "route"
  /\ \E response \in Replies :
       LET decision == Route(About(ask[r].question), ask[r].explicit,
                             call[r].recent, LastMode(r), response)
       IN  IF decision.by = "error"
             THEN Fail(r)
             ELSE /\ call' = [call EXCEPT ![r].at = "lookup", ![r].mode = decision.mode,
                                          ![r].recent = 0, ![r].last = NoMode]
                  /\ UNCHANGED reply
  /\ UNCHANGED << store, ask, stream, budget, cacheVars >>

(* checkExactCache: a miss, an expired entry or an error of Redis lets the
   request go on; a hit ends it. *)
LookupMiss(r) ==
  /\ call[r].at = "lookup"
  /\ Go(r, "ensure")
  /\ \/ ~Present(CacheKey(r)) /\ UNCHANGED << budget, cacheVars >>
     \/ Stale(CacheKey(r)) /\ StartDrop(r, CacheKey(r)) /\ UNCHANGED budget
     \/ Spend /\ UNCHANGED cacheVars
  /\ UNCHANGED << store, ask, reply, stream >>

LookupHit(r) ==
  /\ call[r].at = "lookup"
  /\ Hit(CacheKey(r))
  /\ call' = [call EXCEPT ![r].at = "touch", ![r].seen = entries[CacheKey(r)]]
  /\ UNCHANGED << store, ask, reply, stream, budget, cacheVars >>

(* EmitStreamChunks: the text in order; nothing for an empty text. *)
Emit(r, text) ==
  stream' = IF Streams(r) /\ text # NoText
              THEN [stream EXCEPT ![r] = Append(@, text)] ELSE stream
EmitFails(r) ==
  /\ Streams(r) /\ Spend
  /\ stream' = [stream EXCEPT ![r] = Append(@, Partial)]

AnswerFromCache(r) ==
  /\ call[r].at = "touch"
  /\ TouchEntry(CacheKey(r), call[r].seen)
  /\ \/ Emit(r, call[r].seen.text) /\ Finish(r, "ok", call[r].seen.text, TRUE)
        /\ UNCHANGED budget
     \/ EmitFails(r) /\ Fail(r)
  /\ UNCHANGED << store, ask >>

(* persistUserMessage: ensureConversationExists, then SaveMessage. *)
EnsureConversation(r) ==
  /\ call[r].at = "ensure"
  /\ \/ /\ Go(r, IF ConversationExists(store, Conv(r)) THEN "save user" ELSE "create")
        /\ UNCHANGED << store, ask, reply, stream, budget, cacheVars >>
     \/ StoreFault(r)

CreateConversation(r) ==
  /\ call[r].at = "create"
  /\ \/ /\ store' = SaveConversation(store, Conv(r), ask[r].question)
        /\ Go(r, "save user")
        /\ UNCHANGED << ask, reply, stream, budget, cacheVars >>
     \/ StoreFault(r)

SaveUserMessage(r) ==
  /\ call[r].at = "save user"
  /\ \/ /\ CanSaveMessage(store, Conv(r))
        /\ store' = SaveMessage(setup.backend, store, Conv(r),
                      Message(UserId(r), "user", ask[r].question, call[r].mode))
        /\ call' = [call EXCEPT ![r].at = "execute", ![r].saved = TRUE]
        /\ UNCHANGED << ask, reply, stream, budget, cacheVars >>
     \/ /\ ~CanSaveMessage(store, Conv(r)) /\ Fail(r)
        /\ UNCHANGED << store, ask, stream, budget, cacheVars >>
     \/ StoreFault(r)

(* execute: what the executor returned, and the id of its message. *)
Executed(r, text, id) ==
  call' = [call EXCEPT ![r].at = "save answer", ![r].text = text, ![r].id = id]

(* AgentExecutor.Execute: chat to the chat executor, any other mode to the
   agent-mode executor. *)
AgentMode(r) == call[r].mode # "chat"
(* Mutant: every agent executor hands back its request's message id. *)
MutResponseId(r) == IF AgentMode(r) THEN UserId(r) ELSE AssistantId(r)
(* The workflow hands back the message id of its request, the user message's;
   the others leave it empty and the assistant message keeps its own. *)
ResponseId(r) == IF AgentMode(r) /\ setup.executor = "workflow" THEN UserId(r)
                                                          ELSE AssistantId(r)

ExecuteSucceeds(r) ==
  /\ call[r].at = "execute"
  /\ Executed(r, Answer(r), ResponseId(r))
  /\ IF call[r].mode \in {"agent", "chat"} THEN Emit(r, Answer(r)) ELSE UNCHANGED stream
  /\ StartSet(r, CacheKey(r), Answer(r))
  /\ UNCHANGED << store, ask, reply, budget >>

(* Mutant: an agent's answer is sent while it is computed as well. *)
MutExecuteRetries(r) ==
  /\ call[r].at = "execute"
  /\ EmitFails(r)
  /\ UNCHANGED << store, ask, call, reply, cacheVars >>
(* The model client retries an attempt that had already sent chunks. *)
ExecuteRetries(r) ==
  /\ call[r].at = "execute"
  /\ ~AgentMode(r)
  /\ EmitFails(r)
  /\ UNCHANGED << store, ask, call, reply, cacheVars >>

(* The executor returns an error, or the client is gone while the answer of the
   agent is sent: the cache and the answer's message are not reached. *)
ExecuteFails(r) ==
  /\ call[r].at = "execute"
  /\ ~AgentMode(r) \/ setup.executor = "react"
  /\ StoreFault(r)
EmissionFails(r) ==
  /\ call[r].at = "execute"
  /\ call[r].mode = "agent"
  /\ EmitFails(r) /\ Fail(r)
  /\ UNCHANGED << store, ask, cacheVars >>

(* Mutant: the answer is cached before the Error of the response is looked at. *)
MutCachesFailure(r) ==
  /\ call[r].at = "execute"
  /\ AgentMode(r) /\ setup.executor = "workflow"
  /\ Spend
  /\ Executed(r, NoText, UserId(r))
  /\ StartSet(r, CacheKey(r), NoText)
  /\ UNCHANGED << store, ask, reply, stream >>
(* A workflow reports its failure in the Error of the response. execute turns
   it into chatError(.., nil), whose error is nil, so that chat goes on. *)
ExecuteReportsError(r) ==
  /\ call[r].at = "execute"
  /\ AgentMode(r) /\ setup.executor = "workflow"
  /\ Spend
  /\ Executed(r, NoText, UserId(r))
  /\ UNCHANGED << store, ask, reply, stream, cacheVars >>

(* saveAssistantMessage and buildResponse. *)
SaveAnswer(r) ==
  /\ call[r].at = "save answer"
  /\ \/ /\ CanSaveMessage(store, Conv(r))
        /\ store' = SaveMessage(setup.backend, store, Conv(r),
                      Message(call[r].id, "assistant", call[r].text, call[r].mode))
        /\ Finish(r, "ok", call[r].text, FALSE)
        /\ UNCHANGED << ask, stream, budget, cacheVars >>
     \/ /\ ~CanSaveMessage(store, Conv(r)) /\ Fail(r)
        /\ UNCHANGED << store, ask, stream, budget, cacheVars >>
     \/ StoreFault(r)

Chat(r) ==
  \/ LoadContext(r) \/ RouteRequest(r) \/ LookupMiss(r) \/ LookupHit(r)
  \/ AnswerFromCache(r) \/ EnsureConversation(r) \/ CreateConversation(r)
  \/ SaveUserMessage(r) \/ ExecuteSucceeds(r) \/ ExecuteRetries(r)
  \/ ExecuteFails(r) \/ EmissionFails(r) \/ ExecuteReportsError(r) \/ SaveAnswer(r)

(* ConversationHandler.DeleteConversation, at any moment of a chat. *)
DeleteByUser(c) ==
  /\ ConversationExists(store, c)
  /\ Spend
  /\ store' = DeleteConversation(store, c)
  /\ call' = [r \in Requests |-> IF Conv(r) = c THEN [call[r] EXCEPT !.saved = FALSE]
                                                ELSE call[r]]
  /\ UNCHANGED << ask, reply, stream, cacheVars >>

(* ConversationHandler.CreateConversation: an id of its own, so that no chat has
   begun in it. *)
CreateByUser(c) ==
  /\ ~ConversationExists(store, c)
  /\ \A r \in Requests : Conv(r) = c => call[r].at = "idle"
  /\ Spend
  /\ store' = SaveConversation(store, c, "title")
  /\ UNCHANGED << ask, call, reply, stream, cacheVars >>

CacheStep ==
  /\ \/ \E job \in jobs : RunJob(job) /\ UNCHANGED budget
     \/ \E job \in jobs : WriteFails(job) /\ Spend
     \/ TTLPasses /\ Spend
     \/ \E key \in DOMAIN entries : Expire(key) /\ UNCHANGED budget
  /\ UNCHANGED << store, ask, call, reply, stream >>

Next == /\ \/ \E r \in Requests : Chat(r)
           \/ \E c \in Convs : DeleteByUser(c) \/ CreateByUser(c)
           \/ CacheStep
        /\ UNCHANGED setup

Spec == Init /\ [][Next]_vars

-----------------------------------------------------------------------------
(* Properties *)

(* However a deletion falls between the steps of a chat, no message outlives
   its conversation (SaveMessage after ensureConversationExists). *)
NoOrphanMessages ==
  \A c \in Convs : store.msgs[c] # << >> => ConversationExists(store, c)

(* Every cached answer was computed, without an error, by a request with the
   key's own question and mode, however the writers of the cache interleave. *)
CachedAnswersGenuine ==
  \A key \in DOMAIN entries :
    \E r \in Requests :
      entries[key].text = Answer(r) /\ << ask[r].question, call[r].mode >> = key

(* A turn that was answered and not deleted since is on record: the user's
   message, and after it the answer that was returned. *)
AnsweredTurnsStored ==
  \A r \in Requests :
    reply[r].status = "ok" /\ ~reply[r].cached /\ call[r].saved
      => \E i, j \in DOMAIN store.msgs[Conv(r)] :
           /\ i < j
           /\ store.msgs[Conv(r)][i].id = UserId(r)
           /\ store.msgs[Conv(r)][i].text = ask[r].question
           /\ store.msgs[Conv(r)][j].role = "assistant"
           /\ store.msgs[Conv(r)][j].text = reply[r].text

(* What the client of an agent or a cached answer was sent, in all, is the
   answer it is told at the end. *)
StreamIsTheAnswer ==
  \A r \in Requests :
    Streams(r) /\ reply[r].status = "ok" /\ (reply[r].cached \/ call[r].mode = "agent")
      => stream[r] = IF reply[r].text = NoText THEN << >> ELSE << reply[r].text >>

(* Violated over Postgres: while its conversation is there, a stored user
   message keeps the text the user wrote. *)
UserMessagesKept ==
  \A r \in Requests :
    call[r].saved => \E i \in DOMAIN store.msgs[Conv(r)] :
      /\ store.msgs[Conv(r)][i].role = "user"
      /\ store.msgs[Conv(r)][i].text = ask[r].question
=============================================================================
