------------------------- MODULE ChatServiceProofs -------------------------
(***************************************************************************)
(* Five safety properties of ChatService, for any number of requests,       *)
(* conversations, questions and faults.                                     *)
(*                                                                         *)
(* No message outlives its conversation: every write of the store keeps it, *)
(* because SaveMessage looks the conversation up in its own critical        *)
(* section and a deletion takes the messages along.                         *)
(*                                                                         *)
(* A cached answer is genuine: its key is the question and the mode of a    *)
(* request that computed it.  The text travels from the request to a job,   *)
(* from the job to the entry, from the entry to a later request that hits   *)
(* it, and from there back into the cache; Inv follows it all the way.  It  *)
(* needs that the mode of a request is fixed once it is routed.             *)
(*                                                                         *)
(* A stream carries the answer, from where the request stands (StreamInv).  *)
(*                                                                         *)
(* An answered turn is on record, in order (TurnInv): the lists hold a      *)
(* request's messages once each, and a request past a save finds its        *)
(* message there for as long as no one deletes the conversation, whatever   *)
(* the other requests of that conversation write in between.                *)
(*                                                                         *)
(* The index of the exact cache keeps to its limit (IndexInv): a writer     *)
(* that adds a key has evicted one under the same lock, or counted fewer.   *)
(***************************************************************************)
EXTENDS ChatService, SequenceTheorems, FiniteSetTheorems, TLAPS

-----------------------------------------------------------------------------
(* The store.                                                              *)

\* A store with no orphans, with the fields the operations update.
Kept(s) ==
  /\ "titles" \in DOMAIN s /\ "msgs" \in DOMAIN s
  /\ DOMAIN s.msgs = Convs
  /\ \A c \in Convs : s.msgs[c] # << >> => ConversationExists(s, c)

LEMMA EmptyKept == Kept(EmptyStore)
  BY DEF Kept, EmptyStore, ConversationExists

LEMMA SaveConversationKept ==
  ASSUME NEW s, NEW conv, NEW title, Kept(s)
  PROVE  Kept(SaveConversation(s, conv, title))
<1> DEFINE t == SaveConversation(s, conv, title)
<1>1. DOMAIN t = DOMAIN s /\ t.msgs = s.msgs
  BY DEF SaveConversation, Kept
<1>2. DOMAIN t.titles = DOMAIN s.titles \cup {conv}
  BY DEF SaveConversation, Kept
<1>3. QED
  BY <1>1, <1>2 DEF Kept, ConversationExists

LEMMA DeleteConversationKept ==
  ASSUME NEW s, NEW conv, Kept(s)
  PROVE  Kept(DeleteConversation(s, conv))
  BY DEF DeleteConversation, Kept, ConversationExists

LEMMA SaveMessageKept ==
  ASSUME NEW s, NEW conv, NEW message, NEW backend, Kept(s), CanSaveMessage(s, conv)
  PROVE  Kept(SaveMessage(backend, s, conv, message))
<1> DEFINE Updated(list) == [s EXCEPT !.msgs[conv] = list]
<1>1. ASSUME NEW list PROVE Kept(Updated(list))
  <2>1. DOMAIN Updated(list) = DOMAIN s /\ Updated(list).titles = s.titles
    BY DEF Kept
  <2>2. Updated(list).msgs = [s.msgs EXCEPT ![conv] = list]
    BY DEF Kept
  <2>3. DOMAIN Updated(list).msgs = Convs
    BY <2>2 DEF Kept
  <2>4. \A c \in Convs : c # conv => Updated(list).msgs[c] = s.msgs[c]
    BY <2>2 DEF Kept
  <2>5. QED
    BY <2>1, <2>3, <2>4 DEF Kept, ConversationExists, CanSaveMessage
<1>2. \E list : SaveMessageMemory(s, conv, message) = Updated(list)
  BY DEF SaveMessageMemory
<1>3. \E list : SaveMessagePostgres(s, conv, message) = Updated(list)
  BY DEF SaveMessagePostgres
<1>4. QED
  BY <1>1, <1>2, <1>3 DEF SaveMessage

-----------------------------------------------------------------------------
\* A step leaves the store as it is, or it is one of the four writes.
StoreStep ==
  \/ UNCHANGED store
  \/ \E conv, title : store' = SaveConversation(store, conv, title)
  \/ \E conv : store' = DeleteConversation(store, conv)
  \/ \E conv, message : /\ CanSaveMessage(store, conv)
                        /\ store' = SaveMessage(setup.backend, store, conv, message)

LEMMA ChatStoreStep == ASSUME NEW r \in Requests, Chat(r) PROVE StoreStep
<1> USE DEF StoreStep
<1>1. CASE LoadContext(r) \/ RouteRequest(r)
  BY <1>1 DEF LoadContext, RouteRequest
<1>2. CASE LookupMiss(r) \/ LookupHit(r) \/ AnswerFromCache(r)
  BY <1>2 DEF LookupMiss, LookupHit, AnswerFromCache
<1>3. CASE EnsureConversation(r)
  BY <1>3 DEF EnsureConversation, StoreFault
<1>4. CASE CreateConversation(r)
  BY <1>4 DEF CreateConversation, StoreFault
<1>5. CASE SaveUserMessage(r)
  BY <1>5 DEF SaveUserMessage, StoreFault
<1>6. CASE ExecuteSucceeds(r) \/ ExecuteRetries(r)
  BY <1>6 DEF ExecuteSucceeds, ExecuteRetries
<1>7. CASE ExecuteFails(r) \/ EmissionFails(r) \/ ExecuteReportsError(r)
  BY <1>7 DEF ExecuteFails, EmissionFails, ExecuteReportsError, StoreFault
<1>8. CASE SaveAnswer(r)
  BY <1>8 DEF SaveAnswer, StoreFault
<1>9. QED
  BY <1>1, <1>2, <1>3, <1>4, <1>5, <1>6, <1>7, <1>8 DEF Chat

LEMMA NextStoreStep == ASSUME [Next]_vars PROVE StoreStep
<1>1. CASE \E r \in Requests : Chat(r)
  BY <1>1, ChatStoreStep
<1>2. ASSUME NEW c \in Convs, DeleteByUser(c) PROVE StoreStep
  BY <1>2 DEF DeleteByUser, StoreStep
<1>3. ASSUME NEW c \in Convs, CreateByUser(c) PROVE StoreStep
  BY <1>3 DEF CreateByUser, StoreStep
<1>4. CASE CacheStep
  BY <1>4 DEF CacheStep, StoreStep
<1>5. CASE UNCHANGED vars
  BY <1>5 DEF vars, StoreStep
<1>6. QED
  BY <1>1, <1>2, <1>3, <1>4, <1>5 DEF Next

LEMMA NextKept == Kept(store) /\ [Next]_vars => Kept(store)'
<1> SUFFICES ASSUME Kept(store), [Next]_vars PROVE Kept(store)'
  OBVIOUS
<1>1. StoreStep
  BY NextStoreStep
<1>2. QED
  BY <1>1, SaveConversationKept, DeleteConversationKept, SaveMessageKept DEF StoreStep

\* No message outlives its conversation (NoOrphanMessages), however a deletion
\* by the user falls between the steps of a chat.
THEOREM MessagesHaveConversation == Spec => []NoOrphanMessages
<1>1. Init => Kept(store)
  BY EmptyKept DEF Init
<1>2. Kept(store) => NoOrphanMessages
  BY DEF Kept, NoOrphanMessages
<1>3. QED
  BY <1>1, <1>2, NextKept, PTL DEF Spec

-----------------------------------------------------------------------------
(* The cache.                                                              *)

\* The mode of a request is its last one.
Routed(r) == call[r].at \notin {"idle", "route"}

\* Some request computed this text under this key.
Genuine(text, key) ==
  \E r \in Requests : /\ text = Answer(r)
                      /\ << ask[r].question, call[r].mode >> = key
                      /\ Routed(r)

Fields(f, names) == DOMAIN f = names
EntryFields == {"text", "hits", "born", "late"}

\* The fields the actions update are there.
Shapes ==
  /\ DOMAIN call = Requests
  /\ \A r \in Requests : Fields(call[r], DOMAIN Idle)
  /\ \A job \in jobs : "kind" \in DOMAIN job

GenuineEntries == \A key \in DOMAIN entries : /\ Genuine(entries[key].text, key)
                                              /\ Fields(entries[key], EntryFields)
GenuineJobs == \A job \in jobs : job.kind = "set" => Genuine(job.text, job.key)
GenuineHits ==
  \A r \in Requests :
    call[r].at = "touch" => /\ Genuine(call[r].seen.text, CacheKey(r))
                            /\ Fields(call[r].seen, EntryFields)

Inv == Shapes /\ GenuineEntries /\ GenuineJobs /\ GenuineHits

\* What a step may do to the requests: their questions stay, and so does the
\* mode of one that is routed.
CallsStep ==
  /\ DOMAIN call' = Requests
  /\ ask' = ask
  /\ \A r \in Requests : /\ Fields(call'[r], DOMAIN Idle)
                         /\ Routed(r) => Routed(r)' /\ call'[r].mode = call[r].mode
                         /\ call'[r].at = "touch"
                              => \/ call[r].at = "touch" /\ call'[r].seen = call[r].seen
                                 \/ /\ CacheKey(r) \in DOMAIN entries
                                    /\ call'[r].seen = entries[CacheKey(r)]
                                    /\ call'[r].mode = call[r].mode

\* What it may do to the entries, with the texts that are genuine.
EntriesStep ==
  \A key \in DOMAIN entries' :
    \/ key \in DOMAIN entries /\ entries'[key] = entries[key]
    \/ Genuine(entries'[key].text, key) /\ Fields(entries'[key], EntryFields)

\* And to the jobs.
JobsStep ==
  \A job \in jobs' :
    /\ "kind" \in DOMAIN job
    /\ job.kind = "set" => job \in jobs \/ Genuine(job.text, job.key)'

LEMMA GenuineStays ==
  ASSUME NEW text, NEW key, CallsStep, Genuine(text, key)
  PROVE  Genuine(text, key)'
  BY DEF CallsStep, Genuine, Answer

LEMMA StepKeepsInv ==
  ASSUME Inv, CallsStep, EntriesStep, JobsStep
  PROVE  Inv'
<1>1. Shapes'
  BY DEF CallsStep, JobsStep, Shapes
<1>2. GenuineEntries'
  BY GenuineStays DEF Inv, EntriesStep, GenuineEntries
<1>3. GenuineJobs'
  BY GenuineStays DEF Inv, JobsStep, GenuineJobs
<1>4. ASSUME NEW r \in Requests, call'[r].at = "touch"
      PROVE  Genuine(call[r].seen.text, CacheKey(r))' /\ Fields(call[r].seen, EntryFields)'
  <2>1. CASE call[r].at = "touch" /\ call'[r].seen = call[r].seen
    <3>1. CacheKey(r)' = CacheKey(r)
      BY <2>1 DEF CallsStep, CacheKey, Routed
    <3>2. Genuine(call[r].seen.text, CacheKey(r))'
      BY <2>1, <3>1, GenuineStays DEF Inv, GenuineHits
    <3>3. QED
      BY <2>1, <3>2 DEF Inv, GenuineHits
  <2>2. CASE /\ CacheKey(r) \in DOMAIN entries
             /\ call'[r].seen = entries[CacheKey(r)]
             /\ call'[r].mode = call[r].mode
    <3>1. CacheKey(r)' = CacheKey(r)
      BY <2>2 DEF CallsStep, CacheKey
    <3>2. PICK text : text = entries[CacheKey(r)].text
      OBVIOUS
    <3>3. Genuine(text, CacheKey(r)) /\ Fields(entries[CacheKey(r)], EntryFields)
      BY <2>2, <3>2 DEF Inv, GenuineEntries
    <3>4. call'[r].seen.text = text /\ Fields(call[r].seen, EntryFields)'
      BY <2>2, <3>2, <3>3 DEF Fields
    <3>5. PICK key : key = CacheKey(r)
      OBVIOUS
    <3>6. Genuine(text, key)'
      BY <3>3, <3>5, GenuineStays
    <3>7. QED
      BY <3>1, <3>4, <3>5, <3>6 DEF Genuine
  <2>3. QED
    BY <1>4, <2>1, <2>2 DEF CallsStep
<1>5. QED
  BY <1>1, <1>2, <1>3, <1>4 DEF Inv, GenuineHits

-----------------------------------------------------------------------------
\* One request moves, and not to a hit of the cache.
Moves(r) ==
  /\ ask' = ask
  /\ \E c : /\ call' = [call EXCEPT ![r] = c]
            /\ DOMAIN c = DOMAIN Idle
            /\ c.at # "touch"
            /\ Routed(r) => c.at \notin {"idle", "route"} /\ c.mode = call[r].mode

LEMMA MovesIsCallsStep ==
  ASSUME Inv, NEW r \in Requests, Moves(r)
  PROVE  CallsStep
<1>1. PICK c : /\ call' = [call EXCEPT ![r] = c]
               /\ DOMAIN c = DOMAIN Idle
               /\ c.at # "touch"
               /\ Routed(r) => c.at \notin {"idle", "route"} /\ c.mode = call[r].mode
  BY DEF Moves
<1>2. DOMAIN call = Requests
  BY DEF Inv, Shapes
<1>3. call'[r] = c /\ \A q \in Requests \ {r} : call'[q] = call[q]
  BY <1>1, <1>2
<1>4. QED
  BY <1>1, <1>2, <1>3 DEF Moves, CallsStep, Routed, Inv, Shapes, Fields

LEMMA StandingCalls == ASSUME Inv, UNCHANGED << ask, call >> PROVE CallsStep
  BY DEF CallsStep, Routed, Inv, Shapes

\* The return of chat, and a step that only moves on, with or without it.
LEMMA FinishMoves ==
  ASSUME Inv, NEW r \in Requests, NEW status, NEW text, NEW cached,
         Finish(r, status, text, cached), ask' = ask
  PROVE  Moves(r)
<1> DEFINE c == [Idle EXCEPT !.at = "done", !.mode = call[r].mode, !.saved = call[r].saved]
<1>1. call' = [call EXCEPT ![r] = c]
  BY DEF Finish
<1>2. DOMAIN c = DOMAIN Idle /\ c.at = "done" /\ c.mode = call[r].mode
  BY DEF Idle
<1>3. QED
  BY <1>1, <1>2 DEF Moves

LEMMA FailMoves == ASSUME Inv, NEW r \in Requests, Fail(r), ask' = ask PROVE Moves(r)
  BY FinishMoves DEF Fail

LEMMA FaultMoves == ASSUME Inv, NEW r \in Requests, StoreFault(r) PROVE Moves(r)
  BY FailMoves DEF StoreFault

LEMMA GoMoves ==
  ASSUME Inv, NEW r \in Requests, NEW at, Go(r, at), ask' = ask,
         at # "touch", at \in {"idle", "route"} => ~Routed(r)
  PROVE  Moves(r)
<1> DEFINE c == [call[r] EXCEPT !.at = at]
<1>1. call' = [call EXCEPT ![r] = c]
  BY DEF Go
<1>2. DOMAIN c = DOMAIN Idle /\ c.at = at /\ c.mode = call[r].mode
  BY DEF Inv, Shapes, Fields, Idle
<1>3. QED
  BY <1>1, <1>2 DEF Moves

-----------------------------------------------------------------------------
\* The cache as a step of the pipeline leaves it.
LEMMA CacheStands ==
  ASSUME Inv, UNCHANGED cacheVars
  PROVE  EntriesStep /\ JobsStep
<1>1. entries' = entries /\ jobs' = jobs
  BY DEF cacheVars
<1>2. QED
  BY <1>1 DEF EntriesStep, JobsStep, Inv, Shapes

LEMMA JobFields ==
  ASSUME NEW kind, NEW by, NEW key, NEW text, NEW left
  PROVE  /\ "kind" \in DOMAIN Job(kind, by, key, text, left)
         /\ Job(kind, by, key, text, left).kind = kind
         /\ Job(kind, by, key, text, left).key = key
         /\ Job(kind, by, key, text, left).text = text
  BY DEF Job

LEMMA StartDropStep ==
  ASSUME Inv, NEW by, NEW key, StartDrop(by, key)
  PROVE  EntriesStep /\ JobsStep
<1>1. EntriesStep
  BY DEF StartDrop, EntriesStep
<1>2. ASSUME NEW job \in jobs' PROVE "kind" \in DOMAIN job /\ (job.kind = "set" => job \in jobs)
  BY <1>2, JobFields DEF StartDrop, Inv, Shapes
<1>3. QED
  BY <1>1, <1>2 DEF JobsStep

LEMMA StartSetStep ==
  ASSUME Inv, NEW by, NEW key, NEW text, StartSet(by, key, text), Genuine(text, key)'
  PROVE  EntriesStep /\ JobsStep
<1>1. EntriesStep
  BY DEF StartSet, EntriesStep
<1>2. ASSUME NEW job \in jobs'
      PROVE  "kind" \in DOMAIN job /\ (job.kind = "set" => job \in jobs \/ Genuine(job.text, job.key)')
  <2>1. CASE job \in jobs
    BY <2>1 DEF Inv, Shapes
  <2>2. CASE job = Job("set", by, key, text, {})
    <3>1. job.text = text /\ job.key = key /\ "kind" \in DOMAIN job
      BY <2>2, JobFields
    <3>2. QED
      BY <3>1
  <2>3. QED
    BY <1>2, <2>1, <2>2 DEF StartSet
<1>3. QED
  BY <1>1, <1>2 DEF JobsStep

LEMMA TouchStep ==
  ASSUME Inv, NEW key, NEW seen, TouchEntry(key, seen),
         Genuine(seen.text, key), Fields(seen, EntryFields)
  PROVE  EntriesStep /\ JobsStep
<1> DEFINE written == [seen EXCEPT !.hits = @ + 1, !.late = Hit(key) => entries[key].late]
<1>1. written.text = seen.text /\ Fields(written, EntryFields)
  BY DEF Fields, EntryFields
<1>2. DOMAIN entries' = DOMAIN entries \cup {key} /\ entries'[key] = written
  BY DEF TouchEntry, Put
<1>3. \A other \in DOMAIN entries \ {key} : entries'[other] = entries[other]
  BY DEF TouchEntry, Put
<1>4. EntriesStep
  BY <1>1, <1>2, <1>3 DEF EntriesStep
<1>5. JobsStep
  BY DEF TouchEntry, JobsStep, Inv, Shapes
<1>6. QED
  BY <1>4, <1>5

-----------------------------------------------------------------------------
(* The steps, one by one.                                                  *)

StepOK == CallsStep /\ EntriesStep /\ JobsStep

\* A step of a request that leaves the cache alone.
LEMMA PipelineStep ==
  ASSUME Inv, NEW r \in Requests, Moves(r), UNCHANGED cacheVars
  PROVE  StepOK
  BY MovesIsCallsStep, CacheStands DEF StepOK

LEMMA FaultStep ==
  ASSUME Inv, NEW r \in Requests, StoreFault(r)
  PROVE  StepOK
  BY FaultMoves, PipelineStep DEF StoreFault

LEMMA LoadContextStep ==
  ASSUME Inv, NEW r \in Requests, LoadContext(r)
  PROVE  StepOK
<1>1. ~Routed(r)
  BY DEF LoadContext, Routed
<1>2. Moves(r)
  <2>1. CASE Go(r, "route")
    BY <1>1, <2>1, GoMoves DEF LoadContext
  <2>2. ASSUME NEW recent,
               call' = [call EXCEPT ![r].at = "route", ![r].recent = Len(recent),
                                    ![r].last = LastModeOf(recent)]
        PROVE  Moves(r)
    <3> DEFINE c == [call[r] EXCEPT !.at = "route", !.recent = Len(recent),
                                    !.last = LastModeOf(recent)]
    <3>1. call' = [call EXCEPT ![r] = c]
      BY <2>2
    <3>2. DOMAIN c = DOMAIN Idle /\ c.at = "route"
      BY DEF Inv, Shapes, Fields, Idle
    <3>3. QED
      BY <1>1, <3>1, <3>2 DEF Moves, LoadContext
  <2>3. QED
    BY <2>1, <2>2 DEF LoadContext
<1>3. QED
  BY <1>2, PipelineStep DEF LoadContext

LEMMA RouteRequestStep ==
  ASSUME Inv, NEW r \in Requests, RouteRequest(r)
  PROVE  StepOK
<1>1. ~Routed(r)
  BY DEF RouteRequest, Routed
<1>2. ASSUME NEW mode,
             call' = [call EXCEPT ![r].at = "lookup", ![r].mode = mode,
                                  ![r].recent = 0, ![r].last = NoMode]
      PROVE  Moves(r)
  <2> DEFINE c == [call[r] EXCEPT !.at = "lookup", !.mode = mode, !.recent = 0,
                                  !.last = NoMode]
  <2>1. call' = [call EXCEPT ![r] = c]
    BY <1>2
  <2>2. DOMAIN c = DOMAIN Idle /\ c.at = "lookup"
    BY DEF Inv, Shapes, Fields, Idle
  <2>3. QED
    BY <1>1, <2>1, <2>2 DEF Moves, RouteRequest
<1>3. Moves(r)
  BY <1>2, FailMoves DEF RouteRequest
<1>4. QED
  BY <1>3, PipelineStep DEF RouteRequest

LEMMA LookupMissStep ==
  ASSUME Inv, NEW r \in Requests, LookupMiss(r)
  PROVE  StepOK
<1>1. CallsStep
  BY GoMoves, MovesIsCallsStep DEF LookupMiss
<1>2. EntriesStep /\ JobsStep
  BY CacheStands, StartDropStep DEF LookupMiss
<1>3. QED
  BY <1>1, <1>2 DEF StepOK

LEMMA LookupHitStep ==
  ASSUME Inv, NEW r \in Requests, LookupHit(r)
  PROVE  StepOK
<1> DEFINE key == CacheKey(r)
           c == [call[r] EXCEPT !.at = "touch", !.seen = entries[key]]
<1>1. call' = [call EXCEPT ![r] = c]
  BY DEF LookupHit
<1>2. DOMAIN call = Requests
  BY DEF Inv, Shapes
<1>3. call'[r] = c /\ \A q \in Requests \ {r} : call'[q] = call[q]
  BY <1>1, <1>2
<1>4. /\ DOMAIN c = DOMAIN Idle /\ c.at = "touch"
      /\ c.seen = entries[key] /\ c.mode = call[r].mode
  BY DEF Inv, Shapes, Fields, Idle
<1>5. key \in DOMAIN entries
  BY DEF LookupHit, Hit, Present
<1>6. CallsStep
  BY <1>1, <1>2, <1>3, <1>4, <1>5 DEF CallsStep, Routed, LookupHit, Inv, Shapes, Fields
<1>7. QED
  BY <1>6, CacheStands DEF StepOK, LookupHit

LEMMA AnswerFromCacheStep ==
  ASSUME Inv, NEW r \in Requests, AnswerFromCache(r)
  PROVE  StepOK
<1>1. Moves(r)
  BY FinishMoves, FailMoves DEF AnswerFromCache
<1>2. Genuine(call[r].seen.text, CacheKey(r)) /\ Fields(call[r].seen, EntryFields)
  BY DEF AnswerFromCache, Inv, GenuineHits
<1>3. EntriesStep /\ JobsStep
  BY <1>2, TouchStep DEF AnswerFromCache
<1>4. QED
  BY <1>1, <1>3, MovesIsCallsStep DEF StepOK

LEMMA ConversationStep ==
  ASSUME Inv, NEW r \in Requests, EnsureConversation(r) \/ CreateConversation(r)
  PROVE  StepOK
<1>1. CASE StoreFault(r)
  BY <1>1, FaultStep
<1>2. ASSUME NEW at \in {"save user", "create"}, Go(r, at), UNCHANGED << ask, cacheVars >>
      PROVE  StepOK
  <2>1. Moves(r)
    BY <1>2, GoMoves
  <2>2. QED
    BY <1>2, <2>1, PipelineStep
<1>3. CASE EnsureConversation(r)
  BY <1>1, <1>2, <1>3 DEF EnsureConversation
<1>4. CASE CreateConversation(r)
  BY <1>1, <1>2, <1>4 DEF CreateConversation
<1>5. QED
  BY <1>3, <1>4

LEMMA SaveUserMessageStep ==
  ASSUME Inv, NEW r \in Requests, SaveUserMessage(r)
  PROVE  StepOK
<1>1. CASE StoreFault(r)
  BY <1>1, FaultStep
<1>2. CASE Fail(r) /\ UNCHANGED << ask, cacheVars >>
  BY <1>2, FailMoves, PipelineStep
<1>3. CASE /\ call' = [call EXCEPT ![r].at = "execute", ![r].saved = TRUE]
           /\ UNCHANGED << ask, cacheVars >>
  <2> DEFINE c == [call[r] EXCEPT !.at = "execute", !.saved = TRUE]
  <2>1. call' = [call EXCEPT ![r] = c]
    BY <1>3
  <2>2. DOMAIN c = DOMAIN Idle /\ c.at = "execute" /\ c.mode = call[r].mode
    BY DEF Inv, Shapes, Fields, Idle
  <2>3. Moves(r)
    BY <1>3, <2>1, <2>2 DEF Moves
  <2>4. QED
    BY <1>3, <2>3, PipelineStep
<1>4. QED
  BY <1>1, <1>2, <1>3 DEF SaveUserMessage

LEMMA ExecutedMoves ==
  ASSUME Inv, NEW r \in Requests, NEW text, NEW id, Executed(r, text, id), ask' = ask
  PROVE  Moves(r) /\ call'[r].at = "save answer"
<1> DEFINE c == [call[r] EXCEPT !.at = "save answer", !.text = text, !.id = id]
<1>1. call' = [call EXCEPT ![r] = c]
  BY DEF Executed
<1>2. DOMAIN c = DOMAIN Idle /\ c.at = "save answer" /\ c.mode = call[r].mode
  BY DEF Inv, Shapes, Fields, Idle
<1>3. call'[r] = c
  BY <1>1 DEF Inv, Shapes
<1>4. QED
  BY <1>1, <1>2, <1>3 DEF Moves

LEMMA ExecuteSucceedsStep ==
  ASSUME Inv, NEW r \in Requests, ExecuteSucceeds(r)
  PROVE  StepOK
<1>1. Moves(r) /\ call'[r].at = "save answer"
  BY ExecutedMoves DEF ExecuteSucceeds
<1>2. CallsStep
  BY <1>1, MovesIsCallsStep
<1>3. Routed(r) /\ Routed(r)'
  BY <1>1 DEF ExecuteSucceeds, Routed
<1>4. PICK text, key : text = Answer(r) /\ key = CacheKey(r)
  OBVIOUS
<1>5. Genuine(text, key)
  BY <1>3, <1>4 DEF Genuine, CacheKey
<1>6. Genuine(text, key)'
  BY <1>2, <1>5, GenuineStays
<1>7. EntriesStep /\ JobsStep
  BY <1>4, <1>6, StartSetStep DEF ExecuteSucceeds
<1>8. QED
  BY <1>2, <1>7 DEF StepOK

LEMMA ExecuteOtherStep ==
  ASSUME Inv, NEW r \in Requests,
         ExecuteRetries(r) \/ ExecuteFails(r) \/ EmissionFails(r) \/ ExecuteReportsError(r)
  PROVE  StepOK
<1>1. CASE ExecuteRetries(r)
  BY <1>1, StandingCalls, CacheStands DEF ExecuteRetries, StepOK
<1>2. CASE ExecuteFails(r)
  BY <1>2, FaultStep DEF ExecuteFails
<1>3. CASE EmissionFails(r)
  BY <1>3, FailMoves, PipelineStep DEF EmissionFails
<1>4. CASE ExecuteReportsError(r)
  BY <1>4, ExecutedMoves, PipelineStep DEF ExecuteReportsError
<1>5. QED
  BY <1>1, <1>2, <1>3, <1>4

LEMMA SaveAnswerStep ==
  ASSUME Inv, NEW r \in Requests, SaveAnswer(r)
  PROVE  StepOK
<1>1. CASE StoreFault(r)
  BY <1>1, FaultStep
<1>2. CASE Fail(r) /\ UNCHANGED << ask, cacheVars >>
  BY <1>2, FailMoves, PipelineStep
<1>3. CASE Finish(r, "ok", call[r].text, FALSE) /\ UNCHANGED << ask, cacheVars >>
  BY <1>3, FinishMoves, PipelineStep
<1>4. QED
  BY <1>1, <1>2, <1>3 DEF SaveAnswer

-----------------------------------------------------------------------------
(* The goroutines of the cache: only Set writes a text, and the others end as
   something else than a Set.                                               *)

\* The jobs a step adds are no Sets.
NoNewSet ==
  \A job \in jobs' : job \in jobs \/ ("kind" \in DOMAIN job /\ job.kind # "set")

LEMMA NoNewSetStep == ASSUME Inv, NoNewSet PROVE JobsStep
  BY DEF NoNewSet, JobsStep, Inv, Shapes

LEMMA DropStep ==
  ASSUME NEW keys, entries' = Drop(keys)
  PROVE  EntriesStep
  BY DEF Drop, Restrict, EntriesStep

LEMMA WriteEntryStep ==
  ASSUME Inv, NEW job \in jobs, WriteEntry(job)
  PROVE  EntriesStep /\ NoNewSet
<1>1. Genuine(job.text, job.key)
  BY DEF WriteEntry, Inv, GenuineJobs
<1>2. NewEntry(job.text).text = job.text /\ Fields(NewEntry(job.text), EntryFields)
  BY DEF NewEntry, Fields, EntryFields
<1>3. /\ DOMAIN entries' = DOMAIN entries \cup {job.key}
      /\ entries'[job.key] = NewEntry(job.text)
      /\ \A other \in DOMAIN entries \ {job.key} : entries'[other] = entries[other]
  BY DEF WriteEntry, Put
<1>4. EntriesStep
  BY <1>1, <1>2, <1>3 DEF EntriesStep
<1>5. NoNewSet
  BY JobFields DEF WriteEntry, NoNewSet
<1>6. QED
  BY <1>4, <1>5

LEMMA RunJobStep ==
  ASSUME Inv, NEW job \in jobs, RunJob(job)
  PROVE  EntriesStep /\ NoNewSet
<1>1. "kind" \in DOMAIN job
  BY DEF Inv, Shapes
<1>2. /\ [job EXCEPT !.kind = "srem"].kind = "srem"
      /\ [job EXCEPT !.kind = "scan"].kind = "scan"
      /\ \A keys : [job EXCEPT !.kind = "evict", !.left = keys].kind = "evict"
      /\ \A keys : [job EXCEPT !.left = keys].kind = job.kind
  BY <1>1
<1>3. /\ "kind" \in DOMAIN [job EXCEPT !.kind = "srem"]
      /\ "kind" \in DOMAIN [job EXCEPT !.kind = "scan"]
      /\ \A keys : "kind" \in DOMAIN [job EXCEPT !.kind = "evict", !.left = keys]
      /\ \A keys : "kind" \in DOMAIN [job EXCEPT !.left = keys]
  BY <1>1
<1>4. CASE DropEntry(job)
  BY <1>2, <1>3, <1>4, DropStep DEF DropEntry, NoNewSet
<1>5. CASE DropIndex(job)
  BY <1>5 DEF DropIndex, EntriesStep, NoNewSet
<1>6. CASE WriteEntry(job)
  BY <1>6, WriteEntryStep
<1>7. CASE EvictCount(job)
  BY <1>2, <1>3, <1>7 DEF EvictCount, EntriesStep, NoNewSet
<1>8. CASE EvictScan(job)
  BY <1>2, <1>3, <1>8 DEF EvictScan, EntriesStep, NoNewSet
<1>9. CASE EvictEntry(job)
  <2>1. PICK key \in job.left :
          /\ entries' = Drop({key})
          /\ jobs' = (jobs \ {job}) \cup
               IF job.left = {key} THEN {} ELSE {[job EXCEPT !.left = @ \ {key}]}
    BY <1>9 DEF EvictEntry
  <2>2. job.kind # "set"
    BY <1>9 DEF EvictEntry
  <2>3. NoNewSet
    BY <1>2, <1>3, <2>1, <2>2 DEF NoNewSet
  <2>4. QED
    BY <2>1, <2>3, DropStep
<1>10. QED
  BY <1>4, <1>5, <1>6, <1>7, <1>8, <1>9 DEF RunJob

LEMMA CacheStepStep ==
  ASSUME Inv, CacheStep
  PROVE  StepOK
<1>1. CallsStep
  BY StandingCalls DEF CacheStep
<1>2. ASSUME NEW job \in jobs, RunJob(job) PROVE EntriesStep /\ NoNewSet
  BY <1>2, RunJobStep
<1>3. ASSUME NEW job \in jobs, WriteFails(job) PROVE EntriesStep /\ NoNewSet
  BY <1>3 DEF WriteFails, EntriesStep, NoNewSet
<1>4. ASSUME TTLPasses PROVE EntriesStep /\ NoNewSet
  BY <1>4 DEF TTLPasses, EntriesStep, NoNewSet
<1>5. ASSUME NEW key, Expire(key) PROVE EntriesStep /\ NoNewSet
  <2>1. NoNewSet
    BY <1>5 DEF Expire, NoNewSet
  <2>2. QED
    BY <1>5, <2>1, DropStep DEF Expire
<1>6. EntriesStep /\ NoNewSet
  BY <1>2, <1>3, <1>4, <1>5 DEF CacheStep
<1>7. QED
  BY <1>1, <1>6, NoNewSetStep DEF StepOK

\* A user deletes a conversation: its calls forget that the message is stored.
LEMMA DeleteByUserStep ==
  ASSUME Inv, NEW conv \in Convs, DeleteByUser(conv)
  PROVE  StepOK
<1> DEFINE Forgets(r) == [call[r] EXCEPT !.saved = FALSE]
<1>1. \A r \in Requests : call'[r] = call[r] \/ call'[r] = Forgets(r)
  BY DEF DeleteByUser
<1>2. \A r \in Requests : /\ DOMAIN Forgets(r) = DOMAIN Idle
                          /\ Forgets(r).at = call[r].at
                          /\ Forgets(r).mode = call[r].mode
                          /\ Forgets(r).seen = call[r].seen
  BY DEF Inv, Shapes, Fields, Idle
<1>3. \A r \in Requests : /\ DOMAIN call'[r] = DOMAIN Idle
                          /\ call'[r].at = call[r].at
                          /\ call'[r].mode = call[r].mode
                          /\ call'[r].seen = call[r].seen
  BY <1>1, <1>2 DEF Inv, Shapes, Fields
<1>4. DOMAIN call' = Requests /\ ask' = ask
  BY DEF DeleteByUser
<1>5. CallsStep
  BY <1>3, <1>4 DEF CallsStep, Routed, Fields
<1>6. QED
  BY <1>5, CacheStands DEF StepOK, DeleteByUser

LEMMA ChatStep ==
  ASSUME Inv, NEW r \in Requests, Chat(r)
  PROVE  StepOK
  BY LoadContextStep, RouteRequestStep, LookupMissStep, LookupHitStep,
     AnswerFromCacheStep, ConversationStep, SaveUserMessageStep,
     ExecuteSucceedsStep, ExecuteOtherStep, SaveAnswerStep DEF Chat

LEMMA NextInv == Inv /\ [Next]_vars => Inv'
<1> SUFFICES ASSUME Inv, [Next]_vars PROVE Inv'
  OBVIOUS
<1>1. ASSUME NEW r \in Requests, Chat(r) PROVE StepOK
  BY <1>1, ChatStep
<1>2. ASSUME NEW c \in Convs, DeleteByUser(c) PROVE StepOK
  BY <1>2, DeleteByUserStep
<1>3. ASSUME NEW c \in Convs, CreateByUser(c) PROVE StepOK
  BY <1>3, StandingCalls, CacheStands DEF CreateByUser, StepOK
<1>4. ASSUME CacheStep PROVE StepOK
  BY <1>4, CacheStepStep
<1>5. ASSUME UNCHANGED vars PROVE StepOK
  BY <1>5, StandingCalls, CacheStands DEF vars, cacheVars, StepOK
<1>6. StepOK
  BY <1>1, <1>2, <1>3, <1>4, <1>5 DEF Next
<1>7. QED
  BY <1>6, StepKeepsInv DEF StepOK

LEMMA InitInv == Init => Inv
<1> SUFFICES ASSUME Init PROVE Inv
  OBVIOUS
<1>1. Shapes
  BY DEF Init, CacheInit, Shapes, Fields
<1>2. GenuineEntries /\ GenuineJobs
  BY DEF Init, CacheInit, GenuineEntries, GenuineJobs
<1>3. GenuineHits
  BY DEF Init, Idle, GenuineHits
<1>4. QED
  BY <1>1, <1>2, <1>3 DEF Inv

\* Every cached answer was computed for the question and the mode of its key
\* (CachedAnswersGenuine), whatever the lookups, the write-backs of their hits,
\* the Sets, the evictions and the expiries do to one another.
THEOREM CacheHoldsGenuineAnswers == Spec => []CachedAnswersGenuine
<1>1. Inv => CachedAnswersGenuine
  BY DEF Inv, GenuineEntries, Genuine, CachedAnswersGenuine
<1>2. QED
  BY <1>1, InitInv, NextInv, PTL DEF Spec

-----------------------------------------------------------------------------
(* What the client is sent.                                                *)

Sent(text) == IF text = NoText THEN << >> ELSE << text >>

\* How the stream of a request that is at c and has the answer rep stands: empty
\* until the executor or the cache answers, the answer from then on.
Stands(c, sent, rep, streams) ==
  /\ rep.status = "ok" => c.at = "done"
  /\ c.at \notin {"execute", "save answer", "done"} => sent = << >>
  /\ c.at = "execute" /\ c.mode # "chat" => sent = << >>
  /\ streams /\ c.at = "save answer" /\ c.mode = "agent" => sent = Sent(c.text)
  /\ streams /\ c.at = "done" /\ rep.status = "ok" /\ (rep.cached \/ c.mode = "agent")
       => sent = Sent(rep.text)

Standing(r) == Stands(call[r], stream[r], reply[r], Streams(r))

StreamInv ==
  /\ Inv
  /\ DOMAIN stream = Requests /\ DOMAIN reply = Requests
  /\ \A r \in Requests : Standing(r)

\* A step of r leaves the others where they are.
OnlyOf(r) ==
  /\ ask' = ask
  /\ call' = call \/ \E c : call' = [call EXCEPT ![r] = c]
  /\ stream' = stream \/ \E sent : stream' = [stream EXCEPT ![r] = sent]
  /\ reply' = reply \/ \E rep : reply' = [reply EXCEPT ![r] = rep]

LEMMA OthersStand ==
  ASSUME StreamInv, NEW r \in Requests, OnlyOf(r), Standing(r)'
  PROVE  /\ DOMAIN stream' = Requests /\ DOMAIN reply' = Requests
         /\ \A q \in Requests : Standing(q)'
<1>1. DOMAIN call = Requests
  BY DEF StreamInv, Inv, Shapes
<1>2. DOMAIN stream' = Requests /\ DOMAIN reply' = Requests
  BY DEF StreamInv, OnlyOf
<1>3. ASSUME NEW q \in Requests \ {r} PROVE Standing(q)'
  <2>1. call'[q] = call[q] /\ stream'[q] = stream[q] /\ reply'[q] = reply[q]
    BY <1>1, <1>3 DEF StreamInv, OnlyOf
  <2>2. Streams(q)' = Streams(q)
    BY DEF OnlyOf, Streams
  <2>3. QED
    BY <1>3, <2>1, <2>2 DEF StreamInv, Standing
<1>4. QED
  BY <1>2, <1>3

\* The ways a step of r leaves its stream in order: it moves on, it fails, ...
LEMMA GoStands ==
  ASSUME StreamInv, NEW r \in Requests, NEW c, ask' = ask,
         call' = [call EXCEPT ![r] = c], reply' = reply, stream' = stream,
         call[r].at \notin {"execute", "save answer", "done"},
         c.at \notin {"execute", "save answer", "done"} \/ c.at = "execute"
  PROVE  OnlyOf(r) /\ Standing(r)'
<1>1. call'[r] = c
  BY DEF StreamInv, Inv, Shapes
<1>2. OnlyOf(r)
  BY DEF OnlyOf
<1>3. Standing(r)'
  BY <1>1 DEF StreamInv, Standing, Stands
<1>4. QED
  BY <1>2, <1>3

LEMMA FinishStands ==
  ASSUME StreamInv, NEW r \in Requests, NEW status, NEW text, NEW cached, ask' = ask,
         Finish(r, status, text, cached),
         stream' = stream \/ \E sent : stream' = [stream EXCEPT ![r] = sent],
         status = "ok" /\ Streams(r) /\ (cached \/ call[r].mode = "agent")
           => stream'[r] = Sent(text)
  PROVE  OnlyOf(r) /\ Standing(r)'
<1> DEFINE c == [Idle EXCEPT !.at = "done", !.mode = call[r].mode, !.saved = call[r].saved]
<1>1. call'[r] = c /\ c.at = "done" /\ c.mode = call[r].mode
  BY DEF StreamInv, Inv, Shapes, Finish, Idle
<1>2. reply'[r] = [status |-> status, text |-> text, cached |-> cached]
  BY DEF StreamInv, Finish
<1>3. OnlyOf(r)
  BY DEF OnlyOf, Finish
<1>4. Streams(r)' = Streams(r)
  BY DEF Streams
<1>5. Standing(r)'
  BY <1>1, <1>2, <1>4 DEF Standing, Stands
<1>6. QED
  BY <1>3, <1>5

LEMMA FailStands ==
  ASSUME StreamInv, NEW r \in Requests, ask' = ask, Fail(r),
         stream' = stream \/ \E sent : stream' = [stream EXCEPT ![r] = sent]
  PROVE  OnlyOf(r) /\ Standing(r)'
  BY FinishStands DEF Fail

LEMMA EmitSends ==
  ASSUME StreamInv, NEW r \in Requests, NEW text, Emit(r, text), stream[r] = << >>
  PROVE  /\ stream' = stream \/ \E sent : stream' = [stream EXCEPT ![r] = sent]
         /\ Streams(r) => stream'[r] = Sent(text)
<1>1. CASE Streams(r) /\ text # NoText
  <2>1. stream' = [stream EXCEPT ![r] = Append(stream[r], text)]
    BY <1>1 DEF Emit
  <2>2. stream'[r] = Append(<< >>, text)
    BY <2>1 DEF StreamInv
  <2>3. Append(<< >>, text) = << text >>
    OBVIOUS
  <2>4. QED
    BY <1>1, <2>1, <2>2, <2>3 DEF Sent
<1>2. CASE ~(Streams(r) /\ text # NoText)
  BY <1>2 DEF Emit, Sent
<1>3. QED
  BY <1>1, <1>2

StandsOK(r) == OnlyOf(r) /\ Standing(r)'

LEMMA FaultStands ==
  ASSUME StreamInv, NEW r \in Requests, StoreFault(r)
  PROVE  StandsOK(r)
  BY FailStands DEF StoreFault, StandsOK

LEMMA BeforeExecuteStands ==
  ASSUME StreamInv, NEW r \in Requests,
         \/ LoadContext(r) \/ RouteRequest(r) \/ LookupMiss(r) \/ LookupHit(r)
         \/ EnsureConversation(r) \/ CreateConversation(r) \/ SaveUserMessage(r)
  PROVE  StandsOK(r)
<1> USE DEF StandsOK
<1>0. ASSUME NEW at, at \notin {"save answer", "done"}
      PROVE  /\ [call[r] EXCEPT !.at = at].at = at
             /\ \A x, y : [call[r] EXCEPT !.at = at, !.recent = x, !.last = y].at = at
             /\ \A x, y, z : [call[r] EXCEPT !.at = at, !.mode = x, !.recent = y, !.last = z].at = at
             /\ \A x : [call[r] EXCEPT !.at = at, !.seen = x].at = at
             /\ \A x : [call[r] EXCEPT !.at = at, !.saved = x].at = at
  BY DEF StreamInv, Inv, Shapes, Fields, Idle
<1>a. ASSUME NEW at, at \notin {"save answer", "done"}, Go(r, at),
             call[r].at \notin {"execute", "save answer", "done"},
             UNCHANGED << ask, reply, stream >>
      PROVE  StandsOK(r)
  <2>1. [call[r] EXCEPT !.at = at].at = at
    BY <1>0, <1>a
  <2>2. call' = [call EXCEPT ![r] = [call[r] EXCEPT !.at = at]]
    BY <1>a DEF Go
  <2>3. QED
    BY <1>a, <2>1, <2>2, GoStands
<1>1. CASE LoadContext(r)
  <2>1. CASE Go(r, "route")
    BY <1>a, <1>1, <2>1 DEF LoadContext
  <2>2. ASSUME NEW recent,
               call' = [call EXCEPT ![r].at = "route", ![r].recent = Len(recent),
                                    ![r].last = LastModeOf(recent)]
        PROVE  StandsOK(r)
    <3> DEFINE c == [call[r] EXCEPT !.at = "route", !.recent = Len(recent),
                                    !.last = LastModeOf(recent)]
    <3>1. call' = [call EXCEPT ![r] = c]
      BY <2>2
    <3>2. c.at = "route"
      BY <1>0
    <3>3. QED
      BY <1>1, <3>1, <3>2, GoStands DEF LoadContext
  <2>3. QED
    BY <1>1, <2>1, <2>2 DEF LoadContext
<1>2. CASE RouteRequest(r)
  <2>1. PICK response \in Replies :
          LET decision == Route(About(ask[r].question), ask[r].explicit,
                                call[r].recent, LastMode(r), response)
          IN  IF decision.by = "error"
                THEN Fail(r)
                ELSE /\ call' = [call EXCEPT ![r].at = "lookup", ![r].mode = decision.mode,
                                             ![r].recent = 0, ![r].last = NoMode]
                     /\ UNCHANGED reply
    BY <1>2 DEF RouteRequest
  <2> DEFINE mode == Route(About(ask[r].question), ask[r].explicit,
                           call[r].recent, LastMode(r), response).mode
             c == [call[r] EXCEPT !.at = "lookup", !.mode = mode, !.recent = 0, !.last = NoMode]
  <2>2. CASE Fail(r)
    BY <1>2, <2>2, FailStands DEF RouteRequest
  <2>3. CASE call' = [call EXCEPT ![r] = c] /\ reply' = reply
    <3>1. c.at = "lookup"
      BY <1>0
    <3>2. QED
      BY <1>2, <2>3, <3>1, GoStands DEF RouteRequest
  <2>4. QED
    BY <2>1, <2>2, <2>3
<1>3. CASE LookupMiss(r)
  BY <1>a, <1>3 DEF LookupMiss
<1>4. CASE LookupHit(r)
  <2> DEFINE c == [call[r] EXCEPT !.at = "touch", !.seen = entries[CacheKey(r)]]
  <2>1. call' = [call EXCEPT ![r] = c]
    BY <1>4 DEF LookupHit
  <2>2. c.at = "touch"
    BY <1>0
  <2>3. QED
    BY <1>4, <2>1, <2>2, GoStands DEF LookupHit
<1>5. CASE EnsureConversation(r)
  BY <1>a, <1>5, FaultStands DEF EnsureConversation
<1>6. CASE CreateConversation(r)
  BY <1>a, <1>6, FaultStands DEF CreateConversation
<1>7. CASE SaveUserMessage(r)
  <2> DEFINE c == [call[r] EXCEPT !.at = "execute", !.saved = TRUE]
  <2>1. c.at = "execute"
    BY <1>0
  <2>2. CASE call' = [call EXCEPT ![r] = c] /\ UNCHANGED << ask, reply, stream >>
    BY <1>7, <2>1, <2>2, GoStands DEF SaveUserMessage
  <2>3. CASE Fail(r) /\ UNCHANGED << ask, stream >>
    BY <2>3, FailStands
  <2>4. QED
    BY <1>7, <2>2, <2>3, FaultStands DEF SaveUserMessage
<1>8. QED
  BY <1>1, <1>2, <1>3, <1>4, <1>5, <1>6, <1>7

LEMMA AnswerFromCacheStands ==
  ASSUME StreamInv, NEW r \in Requests, AnswerFromCache(r)
  PROVE  StandsOK(r)
<1>1. stream[r] = << >>
  BY DEF AnswerFromCache, StreamInv, Standing, Stands
<1>2. ask' = ask
  BY DEF AnswerFromCache
<1>3. CASE EmitFails(r) /\ Fail(r)
  BY <1>2, <1>3, FailStands DEF EmitFails, StandsOK
<1>4. CASE /\ Emit(r, call[r].seen.text)
           /\ Finish(r, "ok", call[r].seen.text, TRUE)
  BY <1>1, <1>2, <1>4, EmitSends, FinishStands DEF StandsOK
<1>5. QED
  BY <1>3, <1>4 DEF AnswerFromCache

LEMMA ExecutedStands ==
  ASSUME StreamInv, NEW r \in Requests, NEW text, NEW id, ask' = ask, reply' = reply,
         Executed(r, text, id), call[r].at = "execute",
         stream' = stream \/ \E sent : stream' = [stream EXCEPT ![r] = sent],
         Streams(r) /\ call[r].mode = "agent" => stream'[r] = Sent(text)
  PROVE  StandsOK(r)
<1> DEFINE c == [call[r] EXCEPT !.at = "save answer", !.text = text, !.id = id]
<1>1. call' = [call EXCEPT ![r] = c]
  BY DEF Executed
<1>2. call'[r] = c
  BY <1>1 DEF StreamInv, Inv, Shapes
<1>3. c.at = "save answer" /\ c.text = text /\ c.mode = call[r].mode
  BY DEF StreamInv, Inv, Shapes, Fields, Idle
<1>4. reply[r].status # "ok" /\ Streams(r)' = Streams(r)
  BY DEF StreamInv, Standing, Stands, Streams
<1>5. Standing(r)'
  BY <1>2, <1>3, <1>4 DEF Standing, Stands
<1>6. QED
  BY <1>1, <1>5 DEF StandsOK, OnlyOf

LEMMA ExecuteStands ==
  ASSUME StreamInv, NEW r \in Requests,
         \/ ExecuteSucceeds(r) \/ ExecuteRetries(r) \/ ExecuteFails(r)
         \/ EmissionFails(r) \/ ExecuteReportsError(r)
  PROVE  StandsOK(r)
<1>1. CASE ExecuteSucceeds(r)
  <2>1. CASE call[r].mode \in {"agent", "chat"} /\ Emit(r, Answer(r))
    <3>1. call[r].mode = "agent" => stream[r] = << >>
      BY <1>1 DEF ExecuteSucceeds, StreamInv, Standing, Stands
    <3>2. stream' = stream \/ \E sent : stream' = [stream EXCEPT ![r] = sent]
      BY <2>1 DEF Emit
    <3>3. Streams(r) /\ call[r].mode = "agent" => stream'[r] = Sent(Answer(r))
      BY <2>1, <3>1, EmitSends
    <3>4. QED
      BY <1>1, <3>2, <3>3, ExecutedStands DEF ExecuteSucceeds
  <2>2. CASE call[r].mode \notin {"agent", "chat"} /\ stream' = stream
    BY <1>1, <2>2, ExecutedStands DEF ExecuteSucceeds
  <2>3. QED
    BY <1>1, <2>1, <2>2 DEF ExecuteSucceeds
<1>2. CASE ExecuteRetries(r)
  <2>1. /\ call' = call /\ reply' = reply /\ ask' = ask
        /\ call[r].at = "execute" /\ call[r].mode = "chat"
        /\ \E sent : stream' = [stream EXCEPT ![r] = sent]
    BY <1>2 DEF ExecuteRetries, AgentMode, EmitFails
  <2>2. Standing(r)'
    BY <2>1 DEF StreamInv, Standing, Stands
  <2>3. QED
    BY <2>1, <2>2 DEF StandsOK, OnlyOf
<1>3. CASE ExecuteFails(r)
  BY <1>3, FaultStands DEF ExecuteFails
<1>4. CASE EmissionFails(r)
  BY <1>4, FailStands DEF EmissionFails, EmitFails, StandsOK
<1>5. CASE ExecuteReportsError(r)
  <2>1. stream[r] = << >>
    BY <1>5 DEF ExecuteReportsError, AgentMode, StreamInv, Standing, Stands
  <2>2. stream'[r] = Sent(NoText)
    BY <1>5, <2>1 DEF ExecuteReportsError, Sent
  <2>3. QED
    BY <1>5, <2>2, ExecutedStands DEF ExecuteReportsError
<1>6. QED
  BY <1>1, <1>2, <1>3, <1>4, <1>5

LEMMA SaveAnswerStands ==
  ASSUME StreamInv, NEW r \in Requests, SaveAnswer(r)
  PROVE  StandsOK(r)
<1>1. Streams(r) /\ call[r].mode = "agent" => stream[r] = Sent(call[r].text)
  BY DEF SaveAnswer, StreamInv, Standing, Stands
<1>2. CASE Finish(r, "ok", call[r].text, FALSE) /\ UNCHANGED << ask, stream >>
  BY <1>1, <1>2, FinishStands DEF StandsOK
<1>3. CASE Fail(r) /\ UNCHANGED << ask, stream >>
  BY <1>3, FailStands DEF StandsOK
<1>4. QED
  BY <1>2, <1>3, FaultStands DEF SaveAnswer

LEMMA ChatStands == ASSUME StreamInv, NEW r \in Requests, Chat(r) PROVE StandsOK(r)
  BY BeforeExecuteStands, AnswerFromCacheStands, ExecuteStands, SaveAnswerStands DEF Chat

LEMMA NextStreamInv == StreamInv /\ [Next]_vars => StreamInv'
<1> SUFFICES ASSUME StreamInv, [Next]_vars PROVE StreamInv'
  OBVIOUS
<1>0. Inv'
  BY NextInv DEF StreamInv
<1>1. ASSUME NEW r \in Requests, Chat(r) PROVE StreamInv'
  BY <1>0, <1>1, ChatStands, OthersStand DEF StreamInv, StandsOK
<1>2. ASSUME UNCHANGED << ask, reply, stream >>,
             \A r \in Requests : /\ call'[r].at = call[r].at
                                 /\ call'[r].mode = call[r].mode
                                 /\ call'[r].text = call[r].text
      PROVE  StreamInv'
  BY <1>0, <1>2 DEF StreamInv, Standing, Stands, Streams
<1>3. ASSUME NEW c \in Convs, DeleteByUser(c) PROVE StreamInv'
  <2>1. \A r \in Requests : call'[r] = call[r] \/ call'[r] = [call[r] EXCEPT !.saved = FALSE]
    BY <1>3 DEF DeleteByUser
  <2>2. \A r \in Requests : /\ [call[r] EXCEPT !.saved = FALSE].at = call[r].at
                            /\ [call[r] EXCEPT !.saved = FALSE].mode = call[r].mode
                            /\ [call[r] EXCEPT !.saved = FALSE].text = call[r].text
    BY DEF StreamInv, Inv, Shapes, Fields, Idle
  <2>3. QED
    BY <1>2, <1>3, <2>1, <2>2 DEF DeleteByUser
<1>4. ASSUME NEW c \in Convs, CreateByUser(c) PROVE StreamInv'
  BY <1>2, <1>4 DEF CreateByUser
<1>5. CASE CacheStep
  BY <1>2, <1>5 DEF CacheStep
<1>6. CASE UNCHANGED vars
  BY <1>2, <1>6 DEF vars
<1>7. QED
  BY <1>1, <1>3, <1>4, <1>5, <1>6 DEF Next

LEMMA InitStreamInv == Init => StreamInv
<1> SUFFICES ASSUME Init PROVE StreamInv
  OBVIOUS
<1>1. Inv
  BY InitInv
<1>2. /\ DOMAIN stream = Requests /\ DOMAIN reply = Requests
      /\ \A r \in Requests : /\ call[r].at = "idle" /\ stream[r] = << >>
                             /\ reply[r].status = "none"
  BY DEF Init, Idle, NoReply
<1>3. QED
  BY <1>1, <1>2 DEF StreamInv, Standing, Stands

\* The client of an agent's or a cached answer was sent that answer, once and
\* nothing else (StreamIsTheAnswer), whatever failed on the way.
THEOREM ClientGotTheAnswer == Spec => []StreamIsTheAnswer
<1>1. StreamInv => StreamIsTheAnswer
  <2> SUFFICES ASSUME StreamInv, NEW r \in Requests,
                      Streams(r), reply[r].status = "ok",
                      reply[r].cached \/ call[r].mode = "agent"
               PROVE  stream[r] = Sent(reply[r].text)
    BY DEF StreamIsTheAnswer, Sent
  <2>1. QED
    BY DEF StreamInv, Standing, Stands
<1>2. QED
  BY <1>1, InitStreamInv, NextStreamInv, PTL DEF Spec

-----------------------------------------------------------------------------
(* The turns on record.                                                    *)

\* A conversation's messages are a list of whole records.
Listed(list) ==
  /\ \E S : list \in Seq(S)
  /\ \A i \in DOMAIN list : DOMAIN list[i] = {"id", "role", "text", "mode"}

Own(r) == {UserId(r), AssistantId(r)}
Absent(id) == \A c \in Convs : \A i \in DOMAIN store.msgs[c] : store.msgs[c][i].id # id

\* The question of r is the message at i, the answer of r the one at j.
QuestionAt(r, i) == /\ store.msgs[Conv(r)][i].id = UserId(r)
                    /\ store.msgs[Conv(r)][i].text = ask[r].question
AnswerAt(r, j) == /\ store.msgs[Conv(r)][j].id \in Own(r)
                  /\ store.msgs[Conv(r)][j].role = "assistant"
                  /\ store.msgs[Conv(r)][j].text = reply[r].text
OnRecord(r) == \E i \in DOMAIN store.msgs[Conv(r)] : QuestionAt(r, i)
Recorded(r) == \E i, j \in DOMAIN store.msgs[Conv(r)] :
                 i < j /\ QuestionAt(r, i) /\ AnswerAt(r, j)

Late == {"execute", "save answer", "done"}

\* How far the turn of r is on record: nothing under its ids before the user's
\* message is stored, nothing under the answer's before that one is.
Turn(r) ==
  /\ call[r].saved => call[r].at \in Late
  /\ call[r].at \notin Late => Absent(UserId(r))
  /\ call[r].at # "done" => Absent(AssistantId(r))
  /\ call[r].at = "save answer"
       => /\ call[r].id \in Own(r)
          /\ setup.backend # "memory" => call[r].id = AssistantId(r)
  /\ call[r].saved => OnRecord(r)
  /\ reply[r].status = "ok" /\ ~reply[r].cached /\ call[r].saved => Recorded(r)

TurnInv ==
  /\ StreamInv
  /\ Kept(store)
  /\ \A c \in Convs : Listed(store.msgs[c])
  /\ setup \in Setups
  /\ ask \in [Requests -> Inputs]
  /\ \A r \in Requests : Turn(r)

-----------------------------------------------------------------------------
(* A message that is saved.                                                *)

\* Appending a whole record to a list.
LEMMA AppendListed ==
  ASSUME NEW list, NEW m, Listed(list), DOMAIN m = {"id", "role", "text", "mode"}
  PROVE  /\ Listed(Append(list, m))
         /\ \A i \in DOMAIN list : /\ i \in DOMAIN Append(list, m)
                                   /\ Append(list, m)[i] = list[i]
         /\ \E j \in DOMAIN Append(list, m) : /\ Append(list, m)[j] = m
                                              /\ \A i \in DOMAIN list : i < j
                                              /\ DOMAIN Append(list, m) = DOMAIN list \cup {j}
<1>1. PICK S : list \in Seq(S)
  BY DEF Listed
<1> DEFINE T == S \cup {m}
<1>2. list \in Seq(T) /\ m \in T
  BY <1>1, SeqMonotonic
<1>3. PICK longer : longer = Append(list, m)
  OBVIOUS
<1>4. /\ longer \in Seq(T) /\ Len(longer) = Len(list) + 1
      /\ \A i \in 1..Len(list) : longer[i] = list[i]
      /\ longer[Len(list) + 1] = m
  BY <1>2, <1>3, AppendProperties
<1>5. /\ Len(list) \in Nat /\ DOMAIN list = 1..Len(list)
      /\ DOMAIN longer = 1..(Len(list) + 1)
  BY <1>2, <1>4, LenProperties
<1>6. Listed(longer)
  BY <1>4, <1>5 DEF Listed
<1>7. \A i \in DOMAIN list : i < Len(list) + 1
  BY <1>5
<1>8. DOMAIN longer = DOMAIN list \cup {Len(list) + 1}
  BY <1>5
<1>9. QED
  BY <1>3, <1>4, <1>5, <1>6, <1>7, <1>8

\* What saving m in conv does: every message keeps its id, its role and its
\* place, and its text unless it is the one the upsert finds; a new one is m.
Writes(conv, m) ==
  /\ \A c \in Convs :
       /\ Listed(store.msgs[c])'
       /\ \A i \in DOMAIN store.msgs[c] :
            /\ i \in DOMAIN store'.msgs[c]
            /\ store'.msgs[c][i].id = store.msgs[c][i].id
            /\ store'.msgs[c][i].role = store.msgs[c][i].role
            /\ setup.backend = "memory" \/ store.msgs[c][i].id # m.id
                 => store'.msgs[c][i].text = store.msgs[c][i].text
       /\ \A i \in DOMAIN store'.msgs[c] :
            i \in DOMAIN store.msgs[c] \/ store'.msgs[c][i] = m

\* It comes after all the others.
Appends(conv, m) ==
  \E j \in DOMAIN store'.msgs[conv] :
    /\ store'.msgs[conv][j] = m
    /\ \A i \in DOMAIN store.msgs[conv] : i < j

\* A step that gives conv another list and leaves the other conversations.
LEMMA NewList ==
  ASSUME Kept(store), NEW conv \in Convs, NEW list,
         store' = [store EXCEPT !.msgs[conv] = list]
  PROVE  /\ store'.msgs[conv] = list
         /\ \A c \in Convs : c # conv => store'.msgs[c] = store.msgs[c]
<1>1. store'.msgs = [store.msgs EXCEPT ![conv] = list]
  BY DEF Kept
<1>2. QED
  BY <1>1 DEF Kept

LEMMA AppendWrites ==
  ASSUME Kept(store), \A c \in Convs : Listed(store.msgs[c]), NEW conv \in Convs, NEW m,
         DOMAIN m = {"id", "role", "text", "mode"},
         store' = [store EXCEPT !.msgs[conv] = Append(@, m)]
  PROVE  Writes(conv, m) /\ Appends(conv, m)
<1>1. PICK list : list = store.msgs[conv]
  OBVIOUS
<1>2. PICK longer : longer = Append(list, m)
  OBVIOUS
<1>3. store' = [store EXCEPT !.msgs[conv] = longer]
  BY <1>1, <1>2
<1>4. /\ store'.msgs[conv] = longer
      /\ \A c \in Convs : c # conv => store'.msgs[c] = store.msgs[c]
  BY <1>3, NewList
<1>5. /\ Listed(longer)
      /\ \A i \in DOMAIN list : i \in DOMAIN longer /\ longer[i] = list[i]
      /\ \E j \in DOMAIN longer : /\ longer[j] = m
                                  /\ \A i \in DOMAIN list : i < j
                                  /\ DOMAIN longer = DOMAIN list \cup {j}
  BY <1>1, <1>2, AppendListed
<1>6. Writes(conv, m)
  <2>1. ASSUME NEW c \in Convs, c # conv PROVE Listed(store.msgs[c])'
    BY <1>4, <2>1 DEF Listed
  <2>2. Listed(store.msgs[conv])'
    BY <1>4, <1>5 DEF Listed
  <2>3. QED
    BY <1>1, <1>4, <1>5, <2>1, <2>2 DEF Writes
<1>7. Appends(conv, m)
  BY <1>1, <1>4, <1>5 DEF Appends
<1>8. QED
  BY <1>6, <1>7

LEMMA UpsertWrites ==
  ASSUME Kept(store), \A c \in Convs : Listed(store.msgs[c]), NEW conv \in Convs, NEW m,
         setup.backend # "memory", store' = SaveMessagePostgres(store, conv, m),
         {i \in DOMAIN store.msgs[conv] : store.msgs[conv][i].id = m.id} # {}
  PROVE  Writes(conv, m)
<1> DEFINE same == {i \in DOMAIN store.msgs[conv] : store.msgs[conv][i].id = m.id}
           Upserted(l) == [i \in DOMAIN l |->
                             IF i \in same
                               THEN [l[i] EXCEPT !.text = m.text, !.mode = m.mode]
                               ELSE l[i]]
<1>1. PICK list : list = store.msgs[conv]
  OBVIOUS
<1>2. PICK changed : changed = Upserted(list)
  OBVIOUS
<1>3. store' = [store EXCEPT !.msgs[conv] = changed]
  BY <1>1, <1>2 DEF SaveMessagePostgres
<1>4. /\ store'.msgs[conv] = changed
      /\ \A c \in Convs : c # conv => store'.msgs[c] = store.msgs[c]
  BY <1>3, NewList
<1>5. PICK S : list \in Seq(S)
  BY <1>1 DEF Listed
<1>6. Len(list) \in Nat /\ DOMAIN list = 1..Len(list)
  BY <1>5, LenProperties
<1>7. \A i \in DOMAIN list : DOMAIN list[i] = {"id", "role", "text", "mode"}
  BY <1>1 DEF Listed
<1>8. DOMAIN changed = DOMAIN list
  BY <1>2
<1>9. ASSUME NEW i \in DOMAIN list
      PROVE  /\ DOMAIN changed[i] = {"id", "role", "text", "mode"}
             /\ changed[i].id = list[i].id /\ changed[i].role = list[i].role
             /\ i \notin same => changed[i].text = list[i].text
  <2>1. changed[i] = IF i \in same THEN [list[i] EXCEPT !.text = m.text, !.mode = m.mode]
                                   ELSE list[i]
    BY <1>2
  <2>2. QED
    BY <1>7, <2>1
<1>10. Listed(changed)
  <2> DEFINE T == {changed[i] : i \in 1..Len(list)}
  <2>1. changed \in [1..Len(list) -> T]
    BY <1>2, <1>6, <1>8
  <2>2. changed \in Seq(T)
    BY <1>6, <2>1
  <2>3. QED
    BY <1>8, <1>9, <2>2 DEF Listed
<1>11. ASSUME NEW c \in Convs PROVE Listed(store.msgs[c])'
  BY <1>4, <1>10 DEF Listed
<1>12. QED
  BY <1>1, <1>4, <1>8, <1>9, <1>11 DEF Writes

LEMMA SaveWrites ==
  ASSUME Kept(store), \A c \in Convs : Listed(store.msgs[c]), NEW conv \in Convs, NEW m,
         DOMAIN m = {"id", "role", "text", "mode"},
         store' = SaveMessage(setup.backend, store, conv, m)
  PROVE  /\ Writes(conv, m)
         /\ setup.backend = "memory" \/ Absent(m.id) => Appends(conv, m)
<1>1. CASE store' = [store EXCEPT !.msgs[conv] = Append(@, m)]
  BY <1>1, AppendWrites
<1>2. CASE store' # [store EXCEPT !.msgs[conv] = Append(@, m)]
  <2> DEFINE same == {i \in DOMAIN store.msgs[conv] : store.msgs[conv][i].id = m.id}
  <2>1. /\ setup.backend # "memory" /\ same # {}
        /\ store' = SaveMessagePostgres(store, conv, m)
    BY <1>2 DEF SaveMessage, SaveMessageMemory, SaveMessagePostgres
  <2>2. ~Absent(m.id)
    BY <2>1 DEF Absent
  <2>3. QED
    BY <2>1, <2>2, UpsertWrites
<1>3. QED
  BY <1>1, <1>2

-----------------------------------------------------------------------------
(* A turn through a step.                                                  *)

\* What a step that is not about q leaves of q's turn.
Remains(q) ==
  /\ \A id \in Own(q) : Absent(id) => Absent(id)'
  /\ OnRecord(q) => OnRecord(q)'
  /\ Recorded(q) /\ reply'[q] = reply[q] => Recorded(q)'

LEMMA InConvs == ASSUME TurnInv, NEW r \in Requests PROVE Conv(r) \in Convs
  BY ChatAssumption DEF TurnInv, Conv

\* The messages stay, or another request saves one of its own.
LEMMA StillRemains ==
  ASSUME store'.msgs = store.msgs, ask' = ask, NEW q \in Requests
  PROVE  Remains(q)
<1>1. \A id : Absent(id) => Absent(id)'
  BY DEF Absent
<1>2. OnRecord(q) => OnRecord(q)'
  BY DEF OnRecord, QuestionAt, Conv
<1>3. Recorded(q) /\ reply'[q] = reply[q] => Recorded(q)'
  BY DEF Recorded, QuestionAt, AnswerAt, Conv
<1>4. QED
  BY <1>1, <1>2, <1>3 DEF Remains

LEMMA WritesAbsent ==
  ASSUME NEW conv, NEW m, Writes(conv, m), NEW id, id # m.id, Absent(id)
  PROVE  Absent(id)'
  BY DEF Writes, Absent

LEMMA WritesRemains ==
  ASSUME TurnInv, NEW conv, NEW m, Writes(conv, m), ask' = ask,
         NEW q \in Requests, m.id \notin Own(q)
  PROVE  Remains(q)
<1>1. \A id \in Own(q) : Absent(id) => Absent(id)'
  BY WritesAbsent
<1>2. Conv(q) \in Convs /\ Conv(q)' = Conv(q)
  BY InConvs DEF Conv
<1>3. ASSUME NEW i \in DOMAIN store.msgs[Conv(q)]
      PROVE  /\ i \in DOMAIN store'.msgs[Conv(q)]
             /\ store'.msgs[Conv(q)][i].id = store.msgs[Conv(q)][i].id
             /\ store'.msgs[Conv(q)][i].role = store.msgs[Conv(q)][i].role
             /\ store.msgs[Conv(q)][i].id \in Own(q)
                  => store'.msgs[Conv(q)][i].text = store.msgs[Conv(q)][i].text
  BY <1>2, <1>3 DEF Writes
<1>4. UserId(q) \in Own(q)
  BY DEF Own
<1>5. \A i \in DOMAIN store.msgs[Conv(q)] : QuestionAt(q, i) => QuestionAt(q, i)'
  BY <1>2, <1>3, <1>4 DEF QuestionAt
<1>6. reply'[q] = reply[q] =>
        \A i \in DOMAIN store.msgs[Conv(q)] : AnswerAt(q, i) => AnswerAt(q, i)'
  BY <1>2, <1>3 DEF AnswerAt, Own, UserId, AssistantId
<1>7. \A i \in DOMAIN store.msgs[Conv(q)] : i \in DOMAIN store'.msgs[Conv(q)']
  BY <1>2, <1>3
<1>8. OnRecord(q) => OnRecord(q)'
  BY <1>5, <1>7 DEF OnRecord
<1>9. Recorded(q) /\ reply'[q] = reply[q] => Recorded(q)'
  BY <1>5, <1>6, <1>7 DEF Recorded
<1>10. QED
  BY <1>1, <1>8, <1>9 DEF Remains

LEMMA OthersTurn ==
  ASSUME TurnInv, NEW q \in Requests, Remains(q), setup' = setup,
         call'[q] = call[q], reply'[q] = reply[q]
  PROVE  Turn(q)'
<1>1. Turn(q)
  BY DEF TurnInv
<1>2. UserId(q) \in Own(q) /\ AssistantId(q) \in Own(q)
  BY DEF Own
<1>3. QED
  BY <1>1, <1>2 DEF Turn, Remains, Own, UserId, AssistantId

\* A step of r that saves no message and answers nothing but an error or a
\* cached text.
Plain(r) ==
  /\ store'.msgs = store.msgs
  /\ call'[r].saved = call[r].saved
  /\ call[r].at \in Late => call'[r].at \in Late
  /\ call'[r].at \notin Late => call[r].at \notin Late
  /\ call[r].at # "done"
  /\ call'[r].at = "save answer"
       => \/ call[r].at = "save answer" /\ call'[r].id = call[r].id
          \/ /\ call'[r].id \in Own(r)
             /\ setup.backend # "memory" => call'[r].id = AssistantId(r)
  /\ reply'[r].status = "ok" => reply'[r] = reply[r] \/ reply'[r].cached

LEMMA PlainTurn ==
  ASSUME TurnInv, NEW r \in Requests, Plain(r), ask' = ask, setup' = setup
  PROVE  Turn(r)'
<1>1. Turn(r)
  BY DEF TurnInv
<1>2. Remains(r)
  BY StillRemains DEF Plain
<1>3. UserId(r) \in Own(r) /\ AssistantId(r) \in Own(r)
  BY DEF Own
<1>4. QED
  BY <1>1, <1>2, <1>3 DEF Turn, Remains, Plain, Own, UserId, AssistantId

\* The new record of a request that moves.
LEMMA MovedCall ==
  ASSUME TurnInv, NEW r \in Requests, NEW c, call' = [call EXCEPT ![r] = c]
  PROVE  call'[r] = c
  BY DEF TurnInv, StreamInv, Inv, Shapes

LEMMA CallFields ==
  ASSUME TurnInv, NEW r \in Requests
  PROVE  DOMAIN call[r] = {"at", "recent", "last", "mode", "seen", "text", "id", "saved"}
  BY DEF TurnInv, StreamInv, Inv, Shapes, Fields, Idle

LEMMA FinishFields ==
  ASSUME TurnInv, NEW r \in Requests, NEW status, NEW text, NEW cached,
         Finish(r, status, text, cached)
  PROVE  /\ call'[r].at = "done" /\ call'[r].saved = call[r].saved
         /\ reply'[r].status = status /\ reply'[r].text = text /\ reply'[r].cached = cached
<1> DEFINE c == [Idle EXCEPT !.at = "done", !.mode = call[r].mode, !.saved = call[r].saved]
<1>1. call'[r] = c
  BY MovedCall DEF Finish
<1>2. c.at = "done" /\ c.saved = call[r].saved
  BY DEF Idle
<1>3. reply'[r] = [status |-> status, text |-> text, cached |-> cached]
  BY DEF Finish, TurnInv, StreamInv
<1>4. QED
  BY <1>1, <1>2, <1>3

LEMMA FailPlain ==
  ASSUME TurnInv, NEW r \in Requests, Fail(r), store'.msgs = store.msgs, call[r].at # "done"
  PROVE  Plain(r)
<1>1. call'[r].at = "done" /\ call'[r].saved = call[r].saved /\ reply'[r].status = "error"
  BY FinishFields DEF Fail
<1>2. QED
  BY <1>1 DEF Plain, Late

LEMMA FaultPlain ==
  ASSUME TurnInv, NEW r \in Requests, StoreFault(r), call[r].at # "done"
  PROVE  Plain(r)
  BY FailPlain DEF StoreFault

LEMMA GoPlain ==
  ASSUME TurnInv, NEW r \in Requests, NEW at, Go(r, at), reply' = reply,
         store'.msgs = store.msgs, call[r].at \notin Late, at \notin Late
  PROVE  Plain(r)
<1> DEFINE c == [call[r] EXCEPT !.at = at]
<1>1. call'[r] = c
  BY MovedCall DEF Go
<1>2. call'[r].at = at /\ call'[r].saved = call[r].saved
  BY <1>1, CallFields
<1>3. QED
  BY <1>2 DEF Plain, Late

\* The steps before the conversation is ensured, and the ones of the executor.
LEMMA EarlyPlain ==
  ASSUME TurnInv, NEW r \in Requests,
         \/ LoadContext(r) \/ RouteRequest(r) \/ LookupMiss(r) \/ LookupHit(r)
         \/ AnswerFromCache(r) \/ EnsureConversation(r) \/ CreateConversation(r)
  PROVE  Plain(r)
<1>1. CASE LoadContext(r)
  <2>1. CASE Go(r, "route")
    BY <1>1, <2>1, GoPlain DEF LoadContext, Late
  <2>2. ASSUME NEW recent,
               call' = [call EXCEPT ![r].at = "route", ![r].recent = Len(recent),
                                    ![r].last = LastModeOf(recent)]
        PROVE  Plain(r)
    <3> DEFINE c == [call[r] EXCEPT !.at = "route", !.recent = Len(recent),
                                    !.last = LastModeOf(recent)]
    <3>1. call' = [call EXCEPT ![r] = c]
      BY <2>2
    <3>2. call'[r].at = "route" /\ call'[r].saved = call[r].saved
      <4>1. call'[r] = c
        BY <3>1, MovedCall
      <4>2. c.at = "route" /\ c.saved = call[r].saved
        BY CallFields
      <4>3. QED
        BY <4>1, <4>2
    <3>3. QED
      BY <1>1, <3>2 DEF LoadContext, Plain, Late
  <2>3. QED
    BY <1>1, <2>1, <2>2 DEF LoadContext
<1>2. CASE RouteRequest(r)
  <2>1. CASE Fail(r)
    BY <1>2, <2>1, FailPlain DEF RouteRequest
  <2>2. ASSUME NEW mode,
               call' = [call EXCEPT ![r].at = "lookup", ![r].mode = mode,
                                    ![r].recent = 0, ![r].last = NoMode],
               reply' = reply
        PROVE  Plain(r)
    <3> DEFINE c == [call[r] EXCEPT !.at = "lookup", !.mode = mode,
                                    !.recent = 0, !.last = NoMode]
    <3>1. call' = [call EXCEPT ![r] = c]
      BY <2>2
    <3>2. call'[r].at = "lookup" /\ call'[r].saved = call[r].saved
      <4>1. call'[r] = c
        BY <3>1, MovedCall
      <4>2. c.at = "lookup" /\ c.saved = call[r].saved
        BY CallFields
      <4>3. QED
        BY <4>1, <4>2
    <3>3. QED
      BY <1>2, <2>2, <3>2 DEF RouteRequest, Plain, Late
  <2>3. QED
    BY <1>2, <2>1, <2>2 DEF RouteRequest
<1>3. CASE LookupMiss(r)
  BY <1>3, GoPlain DEF LookupMiss, Late
<1>4. CASE LookupHit(r)
  <2> DEFINE c == [call[r] EXCEPT !.at = "touch", !.seen = entries[CacheKey(r)]]
  <2>1. call' = [call EXCEPT ![r] = c]
    BY <1>4 DEF LookupHit
  <2>2. call'[r].at = "touch" /\ call'[r].saved = call[r].saved
    <3>1. call'[r] = c
      BY <2>1, MovedCall
    <3>2. c.at = "touch" /\ c.saved = call[r].saved
      BY CallFields
    <3>3. QED
      BY <3>1, <3>2
  <2>3. QED
    BY <1>4, <2>2 DEF LookupHit, Plain, Late
<1>5. CASE AnswerFromCache(r)
  <2>1. CASE Fail(r)
    BY <1>5, <2>1, FailPlain DEF AnswerFromCache
  <2>2. CASE Finish(r, "ok", call[r].seen.text, TRUE)
    <3>1. /\ call'[r].at = "done" /\ call'[r].saved = call[r].saved
          /\ reply'[r].cached = TRUE
      BY <2>2, FinishFields
    <3>2. QED
      BY <1>5, <3>1 DEF AnswerFromCache, Plain, Late
  <2>3. QED
    BY <1>5, <2>1, <2>2 DEF AnswerFromCache
<1>6. CASE EnsureConversation(r)
  <2>1. CASE StoreFault(r)
    BY <1>6, <2>1, FaultPlain DEF EnsureConversation
  <2>2. ASSUME NEW at \in {"save user", "create"}, Go(r, at), UNCHANGED << store, reply >>
        PROVE  Plain(r)
    BY <1>6, <2>2, GoPlain DEF EnsureConversation, Late
  <2>3. QED
    BY <1>6, <2>1, <2>2 DEF EnsureConversation
<1>7. CASE CreateConversation(r)
  <2>1. CASE StoreFault(r)
    BY <1>7, <2>1, FaultPlain DEF CreateConversation
  <2>2. CASE store' = SaveConversation(store, Conv(r), ask[r].question)
             /\ Go(r, "save user") /\ reply' = reply
    <3>1. store'.msgs = store.msgs
      BY <2>2 DEF TurnInv, Kept, SaveConversation
    <3>2. QED
      BY <1>7, <2>2, <3>1, GoPlain DEF CreateConversation, Late
  <2>3. QED
    BY <1>7, <2>1, <2>2 DEF CreateConversation
<1>8. QED
  BY <1>1, <1>2, <1>3, <1>4, <1>5, <1>6, <1>7

LEMMA ExecutePlain ==
  ASSUME TurnInv, NEW r \in Requests,
         \/ ExecuteSucceeds(r) \/ ExecuteRetries(r) \/ ExecuteFails(r)
         \/ EmissionFails(r) \/ ExecuteReportsError(r),
         \A s \in Setups : s.executor = "workflow" => s.backend = "memory"
  PROVE  Plain(r)
<1>0. /\ setup.executor = "workflow" => setup.backend = "memory"
      /\ UserId(r) \in Own(r) /\ AssistantId(r) \in Own(r)
  BY DEF TurnInv, Own
<1>1. ASSUME NEW text, NEW id \in Own(r), Executed(r, text, id), call[r].at = "execute",
             setup.backend # "memory" => id = AssistantId(r), UNCHANGED << store, reply >>
      PROVE  Plain(r)
  <2> DEFINE c == [call[r] EXCEPT !.at = "save answer", !.text = text, !.id = id]
  <2>1. call' = [call EXCEPT ![r] = c]
    BY <1>1 DEF Executed
  <2>2. call'[r].at = "save answer" /\ call'[r].saved = call[r].saved /\ call'[r].id = id
    <3>1. call'[r] = c
      BY <2>1, MovedCall
    <3>2. c.at = "save answer" /\ c.saved = call[r].saved /\ c.id = id
      BY CallFields
    <3>3. QED
      BY <3>1, <3>2
  <2>3. QED
    BY <1>1, <2>2 DEF Plain, Late
<1>2. CASE ExecuteSucceeds(r)
  <2>1. /\ ResponseId(r) \in Own(r)
        /\ setup.backend # "memory" => ResponseId(r) = AssistantId(r)
    BY <1>0 DEF ResponseId
  <2>2. QED
    BY <1>1, <1>2, <2>1 DEF ExecuteSucceeds
<1>3. CASE ExecuteRetries(r)
  BY <1>3 DEF ExecuteRetries, Plain, Late
<1>4. CASE ExecuteFails(r)
  BY <1>4, FaultPlain DEF ExecuteFails
<1>5. CASE EmissionFails(r)
  BY <1>5, FailPlain DEF EmissionFails
<1>6. CASE ExecuteReportsError(r)
  BY <1>0, <1>1, <1>6 DEF ExecuteReportsError
<1>7. QED
  BY <1>2, <1>3, <1>4, <1>5, <1>6

\* The two steps that save a message.
SavesUser(r) ==
  /\ call[r].at = "save user"
  /\ store' = SaveMessage(setup.backend, store, Conv(r),
                Message(UserId(r), "user", ask[r].question, call[r].mode))
  /\ call' = [call EXCEPT ![r].at = "execute", ![r].saved = TRUE]
  /\ UNCHANGED << ask, reply >>

SavesAnswer(r) ==
  /\ call[r].at = "save answer"
  /\ store' = SaveMessage(setup.backend, store, Conv(r),
                Message(call[r].id, "assistant", call[r].text, call[r].mode))
  /\ Finish(r, "ok", call[r].text, FALSE)
  /\ ask' = ask

LEMMA MessageFields ==
  ASSUME NEW id, NEW role, NEW text, NEW mode
  PROVE  /\ DOMAIN Message(id, role, text, mode) = {"id", "role", "text", "mode"}
         /\ Message(id, role, text, mode).id = id
         /\ Message(id, role, text, mode).role = role
         /\ Message(id, role, text, mode).text = text
  BY DEF Message

\* r's message is the last of its conversation, the others keep their place.
LEMMA SavesUserTurn ==
  ASSUME TurnInv, NEW r \in Requests, SavesUser(r), setup' = setup
  PROVE  /\ Turn(r)' /\ \A c \in Convs : Listed(store.msgs[c])'
         /\ \A q \in Requests \ {r} : Remains(q)
<1>1. PICK m : m = Message(UserId(r), "user", ask[r].question, call[r].mode)
  OBVIOUS
<1>2. /\ DOMAIN m = {"id", "role", "text", "mode"}
      /\ m.id = UserId(r) /\ m.text = ask[r].question
  BY <1>1, MessageFields
<1>3. Conv(r) \in Convs /\ Conv(r)' = Conv(r)
  BY InConvs DEF Conv, SavesUser
<1>4. Kept(store) /\ \A c \in Convs : Listed(store.msgs[c])
  BY DEF TurnInv
<1>5. store' = SaveMessage(setup.backend, store, Conv(r), m)
  BY <1>1 DEF SavesUser
<1>6. Absent(m.id)
  BY <1>2 DEF SavesUser, TurnInv, Turn, Late
<1>7. Writes(Conv(r), m) /\ Appends(Conv(r), m)
  BY <1>2, <1>3, <1>4, <1>5, <1>6, SaveWrites
<1>8. \A q \in Requests \ {r} : m.id \notin Own(q)
  BY <1>2 DEF Own, UserId, AssistantId
<1>9. \A q \in Requests \ {r} : Remains(q)
  BY <1>7, <1>8, WritesRemains DEF SavesUser
<1>10. call'[r].at = "execute"
  <2> DEFINE c == [call[r] EXCEPT !.at = "execute", !.saved = TRUE]
  <2>1. call' = [call EXCEPT ![r] = c]
    BY DEF SavesUser
  <2>2. c.at = "execute"
    BY CallFields
  <2>3. QED
    BY <2>1, <2>2, MovedCall
<1>11. Absent(AssistantId(r))'
  <2>1. Absent(AssistantId(r))
    BY DEF SavesUser, TurnInv, Turn
  <2>2. AssistantId(r) # m.id
    BY <1>2 DEF UserId, AssistantId
  <2>3. QED
    BY <1>7, <2>1, <2>2, WritesAbsent
<1>12. OnRecord(r)'
  BY <1>2, <1>3, <1>7 DEF Appends, OnRecord, QuestionAt, SavesUser
<1>13. reply[r].status # "ok" /\ reply'[r] = reply[r]
  BY DEF SavesUser, TurnInv, StreamInv, Standing, Stands
<1>14. Turn(r)'
  BY <1>10, <1>11, <1>12, <1>13 DEF Turn, Late
<1>15. QED
  BY <1>7, <1>9, <1>14 DEF Writes

LEMMA SavesAnswerTurn ==
  ASSUME TurnInv, NEW r \in Requests, SavesAnswer(r), setup' = setup
  PROVE  /\ Turn(r)' /\ \A c \in Convs : Listed(store.msgs[c])'
         /\ \A q \in Requests \ {r} : Remains(q)
<1>1. PICK m : m = Message(call[r].id, "assistant", call[r].text, call[r].mode)
  OBVIOUS
<1>2. /\ DOMAIN m = {"id", "role", "text", "mode"}
      /\ m.id = call[r].id /\ m.role = "assistant" /\ m.text = call[r].text
  BY <1>1, MessageFields
<1>3. Conv(r) \in Convs /\ Conv(r)' = Conv(r)
  BY InConvs DEF Conv, SavesAnswer
<1>4. Kept(store) /\ \A c \in Convs : Listed(store.msgs[c])
  BY DEF TurnInv
<1>5. store' = SaveMessage(setup.backend, store, Conv(r), m)
  BY <1>1 DEF SavesAnswer
<1>6. /\ m.id \in Own(r)
      /\ setup.backend # "memory" => m.id = AssistantId(r)
      /\ Absent(AssistantId(r))
  BY <1>2 DEF SavesAnswer, TurnInv, Turn
<1>7. Writes(Conv(r), m) /\ Appends(Conv(r), m)
  BY <1>2, <1>3, <1>4, <1>5, <1>6, SaveWrites
<1>8. \A q \in Requests \ {r} : m.id \notin Own(q)
  BY <1>6 DEF Own, UserId, AssistantId
<1>9. \A q \in Requests \ {r} : Remains(q)
  BY <1>7, <1>8, WritesRemains DEF SavesAnswer
<1>10. /\ call'[r].at = "done" /\ call'[r].saved = call[r].saved
       /\ reply'[r].status = "ok" /\ reply'[r].text = call[r].text
  <2>1. PICK text : text = call[r].text
    OBVIOUS
  <2>2. Finish(r, "ok", text, FALSE)
    BY <2>1 DEF SavesAnswer
  <2>3. /\ call'[r].at = "done" /\ call'[r].saved = call[r].saved
        /\ reply'[r].status = "ok" /\ reply'[r].text = text
    BY <2>2, FinishFields
  <2>4. QED
    BY <2>1, <2>3
<1>11. ASSUME NEW i \in DOMAIN store.msgs[Conv(r)], QuestionAt(r, i)
       PROVE  i \in DOMAIN store'.msgs[Conv(r)'] /\ QuestionAt(r, i)'
  <2>1. setup.backend = "memory" \/ store.msgs[Conv(r)][i].id # m.id
    BY <1>6, <1>11 DEF QuestionAt, UserId, AssistantId
  <2>2. /\ i \in DOMAIN store'.msgs[Conv(r)]
        /\ store'.msgs[Conv(r)][i].id = store.msgs[Conv(r)][i].id
        /\ store'.msgs[Conv(r)][i].text = store.msgs[Conv(r)][i].text
    BY <1>3, <1>7, <2>1 DEF Writes
  <2>3. QED
    BY <1>3, <1>11, <2>2 DEF QuestionAt, SavesAnswer
<1>12. PICK j \in DOMAIN store'.msgs[Conv(r)'] :
         store'.msgs[Conv(r)'][j] = m /\ \A i \in DOMAIN store.msgs[Conv(r)] : i < j
  BY <1>3, <1>7 DEF Appends
<1>13. AnswerAt(r, j)'
  BY <1>2, <1>6, <1>10, <1>12 DEF AnswerAt, Own, UserId, AssistantId
<1>14. call[r].saved => OnRecord(r)' /\ Recorded(r)'
  <2>1. SUFFICES ASSUME call[r].saved PROVE OnRecord(r)' /\ Recorded(r)'
    OBVIOUS
  <2>2. PICK i \in DOMAIN store.msgs[Conv(r)] : QuestionAt(r, i)
    BY <2>1 DEF TurnInv, Turn, OnRecord
  <2>3. i \in DOMAIN store'.msgs[Conv(r)'] /\ QuestionAt(r, i)' /\ i < j
    BY <1>11, <1>12, <2>2
  <2>4. QED
    BY <1>12, <1>13, <2>3 DEF OnRecord, Recorded
<1>15. Turn(r)'
  BY <1>10, <1>14 DEF Turn, Late
<1>16. QED
  BY <1>7, <1>9, <1>15 DEF Writes

\* A step of r keeps every turn.
LEMMA ChatTurn ==
  ASSUME TurnInv, NEW r \in Requests, Chat(r), setup' = setup,
         \A s \in Setups : s.executor = "workflow" => s.backend = "memory"
  PROVE  (\A q \in Requests : Turn(q)') /\ (\A c \in Convs : Listed(store.msgs[c])')
<1>1. OnlyOf(r)
  BY ChatStands DEF TurnInv, StandsOK
<1>2. ask' = ask /\ \A q \in Requests \ {r} : call'[q] = call[q] /\ reply'[q] = reply[q]
  BY <1>1 DEF OnlyOf, TurnInv, StreamInv, Inv, Shapes
<1>3. CASE Plain(r)
  <2>1. Turn(r)'
    BY <1>2, <1>3, PlainTurn
  <2>2. ASSUME NEW q \in Requests \ {r} PROVE Turn(q)'
    <3>1. Remains(q)
      BY <1>2, <1>3, StillRemains DEF Plain
    <3>2. QED
      BY <1>2, <3>1, OthersTurn
  <2>3. \A c \in Convs : Listed(store.msgs[c])'
    BY <1>3 DEF Plain, TurnInv, Listed
  <2>4. QED
    BY <2>1, <2>2, <2>3
<1>4. CASE SavesUser(r) \/ SavesAnswer(r)
  <2>1. /\ Turn(r)' /\ \A c \in Convs : Listed(store.msgs[c])'
        /\ \A q \in Requests \ {r} : Remains(q)
    BY <1>4, SavesUserTurn, SavesAnswerTurn
  <2>2. ASSUME NEW q \in Requests \ {r} PROVE Turn(q)'
    BY <1>2, <2>1, OthersTurn
  <2>3. QED
    BY <2>1, <2>2
<1>5. CASE SaveUserMessage(r)
  <2>1. CASE StoreFault(r)
    BY <1>3, <1>5, <2>1, FaultPlain DEF SaveUserMessage
  <2>2. CASE Fail(r) /\ store' = store
    BY <1>3, <1>5, <2>2, FailPlain DEF SaveUserMessage
  <2>3. CASE SavesUser(r)
    BY <1>4, <2>3
  <2>4. QED
    BY <1>5, <2>1, <2>2, <2>3 DEF SaveUserMessage, SavesUser
<1>6. CASE SaveAnswer(r)
  <2>1. CASE StoreFault(r)
    BY <1>3, <1>6, <2>1, FaultPlain DEF SaveAnswer
  <2>2. CASE Fail(r) /\ store' = store
    BY <1>3, <1>6, <2>2, FailPlain DEF SaveAnswer
  <2>3. CASE SavesAnswer(r)
    BY <1>4, <2>3
  <2>4. QED
    BY <1>6, <2>1, <2>2, <2>3 DEF SaveAnswer, SavesAnswer
<1>7. QED
  BY <1>3, <1>5, <1>6, EarlyPlain, ExecutePlain DEF Chat

\* A step that touches neither the messages nor what the turns read of a call.
LEMMA IdleTurn ==
  ASSUME TurnInv, store'.msgs = store.msgs, UNCHANGED << setup, ask, call, reply >>
  PROVE  (\A q \in Requests : Turn(q)') /\ (\A c \in Convs : Listed(store.msgs[c])')
<1>1. ASSUME NEW q \in Requests PROVE Turn(q)'
  BY StillRemains, OthersTurn
<1>2. \A c \in Convs : Listed(store.msgs[c])'
  BY DEF TurnInv, Listed
<1>3. QED
  BY <1>1, <1>2

\* A deletion empties one conversation and clears the marks of its turns.
LEMMA DeleteTurn ==
  ASSUME TurnInv, NEW conv \in Convs, DeleteByUser(conv), setup' = setup
  PROVE  (\A q \in Requests : Turn(q)') /\ (\A c \in Convs : Listed(store.msgs[c])')
<1>1. /\ store'.msgs[conv] = << >>
      /\ \A c \in Convs : c # conv => store'.msgs[c] = store.msgs[c]
  <2>1. store'.msgs = [store.msgs EXCEPT ![conv] = << >>]
    BY DEF DeleteByUser, DeleteConversation
  <2>2. QED
    BY <2>1 DEF TurnInv, Kept
<1>2. \A c \in Convs : Listed(store.msgs[c])'
  <2>1. << >> \in Seq({}) /\ DOMAIN << >> = {}
    OBVIOUS
  <2>2. Listed(<< >>)
    BY <2>1 DEF Listed
  <2>3. QED
    BY <1>1, <2>2 DEF TurnInv, Listed
<1>3. \A id : Absent(id) => Absent(id)'
  <2>1. DOMAIN << >> = {}
    OBVIOUS
  <2>2. QED
    BY <1>1, <2>1 DEF Absent
<1>4. ASSUME NEW q \in Requests PROVE Turn(q)'
  <2>1. ask' = ask /\ reply' = reply /\ Conv(q)' = Conv(q) /\ Conv(q) \in Convs
    BY InConvs DEF DeleteByUser, Conv
  <2>2. Turn(q)
    BY DEF TurnInv
  <2>3. CASE Conv(q) = conv
    <3>1. call'[q] = [call[q] EXCEPT !.saved = FALSE]
      BY <2>3 DEF DeleteByUser
    <3>2. /\ call'[q].at = call[q].at /\ call'[q].id = call[q].id
          /\ call'[q].saved = FALSE
      BY <3>1 DEF TurnInv, StreamInv, Inv, Shapes, Fields, Idle
    <3>3. QED
      BY <1>3, <2>1, <2>2, <3>2 DEF Turn, Own, UserId, AssistantId
  <2>4. CASE Conv(q) # conv
    <3>1. call'[q] = call[q]
      BY <2>4 DEF DeleteByUser
    <3>2. store'.msgs[Conv(q)] = store.msgs[Conv(q)]
      BY <1>1, <2>1, <2>4
    <3>3. OnRecord(q) => OnRecord(q)'
      BY <2>1, <3>2 DEF OnRecord, QuestionAt
    <3>4. Recorded(q) => Recorded(q)'
      BY <2>1, <3>2 DEF Recorded, QuestionAt, AnswerAt, Own, UserId, AssistantId
    <3>5. Remains(q)
      BY <1>3, <3>3, <3>4 DEF Remains
    <3>6. QED
      BY <2>1, <3>1, <3>5, OthersTurn
  <2>5. QED
    BY <2>3, <2>4
<1>5. QED
  BY <1>2, <1>4

LEMMA NextTurn ==
  ASSUME \A s \in Setups : s.executor = "workflow" => s.backend = "memory"
  PROVE  TurnInv /\ [Next]_vars => TurnInv'
<1> SUFFICES ASSUME TurnInv, [Next]_vars PROVE TurnInv'
  OBVIOUS
<1>1. StreamInv' /\ Kept(store)'
  BY NextStreamInv, NextKept DEF TurnInv
<1>2. setup' = setup
  BY DEF Next, vars
<1>3. ask' = ask
  <2>1. ASSUME NEW r \in Requests, Chat(r) PROVE ask' = ask
    BY <2>1, ChatStands DEF TurnInv, StandsOK, OnlyOf
  <2>2. QED
    BY <2>1 DEF Next, vars, DeleteByUser, CreateByUser, CacheStep
<1>4. (\A q \in Requests : Turn(q)') /\ (\A c \in Convs : Listed(store.msgs[c])')
  <2>1. ASSUME NEW r \in Requests, Chat(r)
        PROVE  (\A q \in Requests : Turn(q)') /\ (\A c \in Convs : Listed(store.msgs[c])')
    BY <1>2, <2>1, ChatTurn
  <2>2. ASSUME NEW c \in Convs, DeleteByUser(c)
        PROVE  (\A q \in Requests : Turn(q)') /\ (\A d \in Convs : Listed(store.msgs[d])')
    BY <1>2, <2>2, DeleteTurn
  <2>3. ASSUME NEW c \in Convs, CreateByUser(c)
        PROVE  (\A q \in Requests : Turn(q)') /\ (\A d \in Convs : Listed(store.msgs[d])')
    <3>1. store'.msgs = store.msgs
      BY <2>3 DEF CreateByUser, TurnInv, Kept, SaveConversation
    <3>2. QED
      BY <1>2, <2>3, <3>1, IdleTurn DEF CreateByUser
  <2>4. CASE CacheStep
    BY <1>2, <2>4, IdleTurn DEF CacheStep
  <2>5. CASE UNCHANGED vars
    BY <2>5, IdleTurn DEF vars
  <2>6. QED
    BY <2>1, <2>2, <2>3, <2>4, <2>5 DEF Next
<1>5. QED
  BY <1>1, <1>2, <1>3, <1>4 DEF TurnInv

LEMMA InitTurn == Init => TurnInv
<1> SUFFICES ASSUME Init PROVE TurnInv
  OBVIOUS
<1>1. StreamInv /\ Kept(store)
  BY InitStreamInv, EmptyKept DEF Init
<1>2. \A c \in Convs : store.msgs[c] = << >>
  BY DEF Init, EmptyStore
<1>3. << >> \in Seq({}) /\ DOMAIN << >> = {}
  OBVIOUS
<1>4. \A c \in Convs : Listed(store.msgs[c])
  BY <1>2, <1>3 DEF Listed
<1>5. \A id : Absent(id)
  BY <1>2, <1>3 DEF Absent
<1>6. ASSUME NEW r \in Requests PROVE Turn(r)
  BY <1>5 DEF Init, Idle, NoReply, Turn, UserId, AssistantId
<1>7. QED
  BY <1>1, <1>4, <1>6 DEF TurnInv, Init

\* A turn that was answered and whose conversation was not deleted since is on
\* record, the question before the answer (AnsweredTurnsStored), whatever other
\* requests and deletions fall between its steps, in every wiring but the one of
\* ChatOverwrite: the workflow over Postgres, whose answer takes the place of the
\* question.
THEOREM TurnsAreStored ==
  ASSUME \A s \in Setups : s.executor = "workflow" => s.backend = "memory"
  PROVE  Spec => []AnsweredTurnsStored
<1>1. TurnInv => AnsweredTurnsStored
  BY DEF TurnInv, Turn, Recorded, QuestionAt, AnswerAt, AnsweredTurnsStored
<1>2. TurnInv /\ [Next]_vars => TurnInv'
  BY NextTurn
<1>3. QED
  BY <1>1, <1>2, InitTurn, PTL DEF Spec

-----------------------------------------------------------------------------
(* The bound of the cache.                                                 *)

\* Either an eviction that may still count or read is under way, or one that
\* has chosen enough of the entries, or there are few of them.
Bounded ==
  \/ \E job \in jobs : job.kind \in {"count", "scan"}
  \/ \E job \in jobs : job.kind = "evict" /\ Cardinality(FreshKeys \ job.left) < MaxCacheSize
  \/ Cardinality(FreshKeys) < MaxCacheSize

\* A job is a whole record.
JobFieldsOK == \A job \in jobs : DOMAIN job = {"kind", "by", "key", "text", "left"}

\* The clock and the dates of the entries are numbers.
Dated == epoch \in Nat /\ \A key \in DOMAIN entries : entries[key].born \in Nat
HitsDated == \A r \in Requests : call[r].at = "touch" => call[r].seen.born \in Nat

CacheOK == IsFiniteSet(index) /\ JobFieldsOK /\ Bounded /\ Dated
IndexInv == Inv /\ CacheOK /\ HitsDated

LEMMA FewerKeys ==
  ASSUME NEW few, NEW many, IsFiniteSet(many), few \subseteq many,
         Cardinality(many) < MaxCacheSize
  PROVE  Cardinality(few) < MaxCacheSize
<1>1. IsFiniteSet(few) /\ Cardinality(few) <= Cardinality(many)
  BY FS_Subset
<1>2. Cardinality(few) \in Nat /\ Cardinality(many) \in Nat
  BY <1>1, FS_CardinalityType
<1>3. QED
  BY <1>1, <1>2, CacheAssumption

\* No fresh key appears, and no eviction that counts is lost.
LEMMA ShrinkingBounded ==
  ASSUME IsFiniteSet(index), Bounded, FreshKeys' \subseteq FreshKeys,
         \A job \in jobs : job.kind \in {"count", "scan", "evict"} => job \in jobs'
  PROVE  Bounded'
<1>1. IsFiniteSet(FreshKeys)
  BY FS_Subset DEF FreshKeys, ValidKeys
<1>2. CASE \E job \in jobs : job.kind \in {"count", "scan"}
  BY <1>2 DEF Bounded
<1>3. ASSUME NEW job \in jobs, job.kind = "evict",
             Cardinality(FreshKeys \ job.left) < MaxCacheSize
      PROVE  Bounded'
  <2>1. IsFiniteSet(FreshKeys \ job.left)
    BY <1>1, FS_Subset
  <2>2. Cardinality(FreshKeys' \ job.left) < MaxCacheSize
    BY <1>3, <2>1, FewerKeys
  <2>3. QED
    BY <1>3, <2>2 DEF Bounded
<1>4. CASE Cardinality(FreshKeys) < MaxCacheSize
  <2>1. Cardinality(FreshKeys') < MaxCacheSize
    BY <1>1, <1>4, FewerKeys
  <2>2. QED
    BY <2>1 DEF Bounded
<1>5. QED
  BY <1>2, <1>3, <1>4 DEF Bounded

\* Dropping keys, from the entries or from the index.
LEMMA DropFresh ==
  ASSUME NEW keys, entries' = Drop(keys), index' \subseteq index, epoch' = epoch
  PROVE  FreshKeys' \subseteq FreshKeys \ keys /\ (Dated => Dated')
  BY DEF Drop, Restrict, FreshKeys, ValidKeys, Hit, Present, Old, Dated

LEMMA IndexFresh ==
  ASSUME entries' = entries, index' \subseteq index, epoch' = epoch
  PROVE  FreshKeys' \subseteq FreshKeys /\ (Dated => Dated')
  BY DEF FreshKeys, ValidKeys, Hit, Present, Old, Dated

\* A hit that is written back brings a fresh key only if it was one.
LEMMA TouchFresh ==
  ASSUME NEW key, NEW seen, Fields(seen, EntryFields), seen.born \in Nat,
         TouchEntry(key, seen), Dated
  PROVE  FreshKeys' \subseteq FreshKeys /\ Dated'
<1> DEFINE written == [seen EXCEPT !.hits = @ + 1, !.late = Hit(key) => entries[key].late]
<1>1. /\ DOMAIN entries' = DOMAIN entries \cup {key} /\ entries'[key] = written
      /\ \A other \in DOMAIN entries \ {key} : entries'[other] = entries[other]
      /\ index' = index /\ epoch' = epoch
  BY DEF TouchEntry, Put
<1>2. written.late = (Hit(key) => entries[key].late) /\ written.born = seen.born
  BY DEF Fields, EntryFields
<1>3. ASSUME NEW other \in FreshKeys', other = key PROVE other \in FreshKeys
  <2>1. ~written.late /\ key \in index
    BY <1>1, <1>3 DEF FreshKeys, ValidKeys
  <2>2. Hit(key) /\ ~entries[key].late
    BY <1>2, <2>1
  <2>3. QED
    BY <1>3, <2>1, <2>2 DEF FreshKeys, ValidKeys
<1>4. ASSUME NEW other \in FreshKeys', other # key PROVE other \in FreshKeys
  BY <1>1, <1>4 DEF FreshKeys, ValidKeys, Hit, Present, Old
<1>5. Dated'
  BY <1>1, <1>2 DEF Dated
<1>6. QED
  BY <1>3, <1>4, <1>5

\* The jobs that evict.
LEMMA EvictCountBounded ==
  ASSUME IndexInv, NEW job \in jobs, EvictCount(job)
  PROVE  Bounded' /\ JobFieldsOK'
<1>1. JobFieldsOK' /\ [job EXCEPT !.kind = "scan"].kind = "scan"
  BY DEF EvictCount, IndexInv, CacheOK, JobFieldsOK
<1>2. FreshKeys' = FreshKeys
  BY DEF EvictCount, FreshKeys, ValidKeys, Hit, Present, Old
<1>3. CASE Cardinality(ValidKeys) < MaxCacheSize
  <2>1. IsFiniteSet(ValidKeys)
    BY FS_Subset DEF IndexInv, CacheOK, ValidKeys
  <2>2. Cardinality(FreshKeys') < MaxCacheSize
    BY <1>2, <1>3, <2>1, FewerKeys DEF FreshKeys
  <2>3. QED
    BY <1>1, <2>2 DEF Bounded
<1>4. CASE ~(Cardinality(ValidKeys) < MaxCacheSize)
  <2>1. [job EXCEPT !.kind = "scan"] \in jobs'
    BY <1>4 DEF EvictCount
  <2>2. QED
    BY <1>1, <2>1 DEF Bounded
<1>5. QED
  BY <1>3, <1>4

LEMMA EvictScanBounded ==
  ASSUME IndexInv, NEW job \in jobs, EvictScan(job)
  PROVE  Bounded' /\ JobFieldsOK'
<1>1. PICK keys \in SUBSET Indexed :
        /\ Cardinality(keys) + MaxCacheSize \div 2 = Cardinality(Indexed)
           \/ (keys = {} /\ Cardinality(Indexed) < MaxCacheSize \div 2)
        /\ jobs' = (jobs \ {job}) \cup
             IF keys = {} THEN {} ELSE {[job EXCEPT !.kind = "evict", !.left = keys]}
  BY DEF EvictScan
<1> DEFINE evicts == [job EXCEPT !.kind = "evict", !.left = keys]
<1>2. DOMAIN job = {"kind", "by", "key", "text", "left"}
  BY DEF IndexInv, CacheOK, JobFieldsOK
<1>3. /\ DOMAIN evicts = {"kind", "by", "key", "text", "left"}
      /\ evicts.kind = "evict" /\ evicts.left = keys
  BY <1>2
<1>4. JobFieldsOK'
  BY <1>1, <1>3 DEF IndexInv, CacheOK, JobFieldsOK
<1>5. FreshKeys' = FreshKeys
  BY DEF EvictScan, FreshKeys, ValidKeys, Hit, Present, Old
<1>6. IsFiniteSet(Indexed) /\ IsFiniteSet(keys)
  BY FS_Subset DEF IndexInv, CacheOK, Indexed
<1>7. Cardinality(Indexed \ keys) = Cardinality(Indexed) - Cardinality(keys)
  <2>1. keys = Indexed \cap keys
    OBVIOUS
  <2>2. QED
    BY <1>6, <2>1, FS_Difference
<1>8. /\ Cardinality(Indexed) \in Nat /\ Cardinality(keys) \in Nat
      /\ Cardinality(Indexed \ keys) \in Nat /\ IsFiniteSet(Indexed \ keys)
  BY <1>6, FS_CardinalityType, FS_Difference
<1>9. Cardinality(Indexed \ keys) < MaxCacheSize
  <2>1. /\ MaxCacheSize \in Nat \ {0} /\ MaxCacheSize \div 2 \in Nat
        /\ MaxCacheSize \div 2 < MaxCacheSize
    BY CacheAssumption
  <2>2. CASE Cardinality(keys) + MaxCacheSize \div 2 = Cardinality(Indexed)
    BY <1>7, <1>8, <2>1, <2>2
  <2>3. CASE keys = {} /\ Cardinality(Indexed) < MaxCacheSize \div 2
    <3>1. Indexed \ keys = Indexed
      BY <2>3
    <3>2. QED
      BY <1>8, <2>1, <2>3, <3>1
  <2>4. QED
    BY <1>1, <2>2, <2>3
<1>10. Cardinality(FreshKeys' \ keys) < MaxCacheSize
  <2>1. FreshKeys' \ keys \subseteq Indexed \ keys
    BY <1>5 DEF FreshKeys, ValidKeys, Indexed, Hit
  <2>2. QED
    BY <1>8, <1>9, <2>1, FewerKeys
<1>11. CASE keys = {}
  <2>1. FreshKeys' \ keys = FreshKeys'
    BY <1>11
  <2>2. QED
    BY <1>4, <1>10, <2>1 DEF Bounded
<1>12. CASE keys # {}
  <2>1. evicts \in jobs'
    BY <1>1, <1>12
  <2>2. QED
    BY <1>3, <1>4, <1>10, <2>1 DEF Bounded
<1>13. QED
  BY <1>11, <1>12

LEMMA EvictEntryBounded ==
  ASSUME IndexInv, NEW job \in jobs, EvictEntry(job)
  PROVE  Bounded' /\ JobFieldsOK' /\ IsFiniteSet(index)'
<1>1. PICK key \in job.left :
        /\ entries' = Drop({key})
        /\ index' = index \ {key}
        /\ jobs' = (jobs \ {job}) \cup
             IF job.left = {key} THEN {} ELSE {[job EXCEPT !.left = @ \ {key}]}
  BY DEF EvictEntry
<1>2. job.kind = "evict" /\ epoch' = epoch
  BY DEF EvictEntry
<1> DEFINE rest == [job EXCEPT !.left = @ \ {key}]
<1>3. DOMAIN job = {"kind", "by", "key", "text", "left"}
  BY DEF IndexInv, CacheOK, JobFieldsOK
<1>4. /\ DOMAIN rest = {"kind", "by", "key", "text", "left"}
      /\ rest.kind = "evict" /\ rest.left = job.left \ {key}
  BY <1>2, <1>3
<1>5. JobFieldsOK'
  BY <1>1, <1>4 DEF IndexInv, CacheOK, JobFieldsOK
<1>6. FreshKeys' \subseteq FreshKeys \ {key}
  BY <1>1, <1>2, DropFresh
<1>7. IsFiniteSet(index') /\ IsFiniteSet(FreshKeys)
  BY <1>1, FS_Subset DEF IndexInv, CacheOK, FreshKeys, ValidKeys
<1>8. CASE \E other \in jobs \ {job} : \/ other.kind \in {"count", "scan"}
                                       \/ /\ other.kind = "evict"
                                          /\ Cardinality(FreshKeys \ other.left) < MaxCacheSize
  <2>1. PICK other \in jobs \ {job} :
          \/ other.kind \in {"count", "scan"}
          \/ /\ other.kind = "evict"
             /\ Cardinality(FreshKeys \ other.left) < MaxCacheSize
    BY <1>8
  <2>2. other \in jobs'
    BY <1>1
  <2>3. CASE /\ other.kind = "evict"
             /\ Cardinality(FreshKeys \ other.left) < MaxCacheSize
    <3>1. IsFiniteSet(FreshKeys \ other.left)
      BY <1>7, FS_Subset
    <3>2. Cardinality(FreshKeys' \ other.left) < MaxCacheSize
      BY <1>6, <2>3, <3>1, FewerKeys
    <3>3. QED
      BY <1>5, <1>7, <2>2, <2>3, <3>2 DEF Bounded
  <2>4. QED
    BY <1>5, <1>7, <2>1, <2>2, <2>3 DEF Bounded
<1>9. CASE Cardinality(FreshKeys \ job.left) < MaxCacheSize
  <2>1. IsFiniteSet(FreshKeys \ job.left)
    BY <1>7, FS_Subset
  <2>2. CASE job.left = {key}
    <3>1. Cardinality(FreshKeys') < MaxCacheSize
      BY <1>6, <1>9, <2>1, <2>2, FewerKeys
    <3>2. QED
      BY <1>5, <1>7, <3>1 DEF Bounded
  <2>3. CASE job.left # {key}
    <3>1. rest \in jobs'
      BY <1>1, <2>3
    <3>2. FreshKeys' \ rest.left \subseteq FreshKeys \ job.left
      BY <1>4, <1>6
    <3>3. Cardinality(FreshKeys' \ rest.left) < MaxCacheSize
      BY <1>9, <2>1, <3>2, FewerKeys
    <3>4. QED
      BY <1>4, <1>5, <1>7, <3>1, <3>3 DEF Bounded
  <2>4. QED
    BY <2>2, <2>3
<1>10. CASE Cardinality(FreshKeys) < MaxCacheSize
  <2>1. Cardinality(FreshKeys') < MaxCacheSize
    BY <1>6, <1>7, <1>10, FewerKeys
  <2>2. QED
    BY <1>5, <1>7, <2>1 DEF Bounded
<1>11. QED
  BY <1>2, <1>8, <1>9, <1>10 DEF IndexInv, CacheOK, Bounded

LEMMA RunJobBounded ==
  ASSUME IndexInv, NEW job \in jobs, RunJob(job)
  PROVE  CacheOK'
<1> USE DEF CacheOK
<1>0. IsFiniteSet(index) /\ JobFieldsOK /\ Bounded /\ Dated
  BY DEF IndexInv, CacheOK
<1>1. CASE DropEntry(job)
  <2>1. FreshKeys' \subseteq FreshKeys /\ Dated'
    BY <1>0, <1>1, DropFresh DEF DropEntry
  <2>2. JobFieldsOK'
    BY <1>0, <1>1 DEF DropEntry, JobFieldsOK
  <2>3. QED
    BY <1>0, <1>1, <2>1, <2>2, ShrinkingBounded DEF DropEntry
<1>2. CASE DropIndex(job)
  <2>1. FreshKeys' \subseteq FreshKeys /\ Dated'
    BY <1>0, <1>2, IndexFresh DEF DropIndex
  <2>2. JobFieldsOK'
    BY <1>0, <1>2 DEF DropIndex, JobFieldsOK
  <2>3. IsFiniteSet(index')
    BY <1>0, <1>2, FS_Subset DEF DropIndex
  <2>4. QED
    BY <1>0, <1>2, <2>1, <2>2, <2>3, ShrinkingBounded DEF DropIndex
<1>3. CASE WriteEntry(job)
  <2> DEFINE counts == Job("count", job.by, job.key, NoText, {})
  <2>1. counts \in jobs' /\ jobs' = (jobs \ {job}) \cup {counts}
    BY <1>3 DEF WriteEntry
  <2>2. counts.kind = "count" /\ DOMAIN counts = {"kind", "by", "key", "text", "left"}
    BY DEF Job
  <2>3. Bounded' /\ JobFieldsOK'
    BY <1>0, <2>1, <2>2 DEF Bounded, JobFieldsOK
  <2>4. IsFiniteSet(index')
    BY <1>0, <1>3, FS_AddElement DEF WriteEntry
  <2>5. Dated'
    BY <1>0, <1>3 DEF WriteEntry, Put, NewEntry, Dated
  <2>6. QED
    BY <2>3, <2>4, <2>5
<1>4. CASE EvictCount(job)
  BY <1>0, <1>4, EvictCountBounded DEF EvictCount, Dated
<1>5. CASE EvictScan(job)
  BY <1>0, <1>5, EvictScanBounded DEF EvictScan, Dated
<1>6. CASE EvictEntry(job)
  <2>1. Dated'
    BY <1>0, <1>6, DropFresh DEF EvictEntry
  <2>2. QED
    BY <1>6, <2>1, EvictEntryBounded
<1>7. QED
  BY <1>1, <1>2, <1>3, <1>4, <1>5, <1>6 DEF RunJob

\* A step that adds whole jobs, keeps the evictions and no fresh key appears.
LEMMA QuietBounded ==
  ASSUME IndexInv, index' = index, FreshKeys' \subseteq FreshKeys, Dated', jobs \subseteq jobs',
         \A job \in jobs' \ jobs : DOMAIN job = {"kind", "by", "key", "text", "left"}
  PROVE  CacheOK'
<1>1. Bounded'
  BY ShrinkingBounded DEF IndexInv, CacheOK
<1>2. QED
  BY <1>1 DEF CacheOK, IndexInv, JobFieldsOK

LEMMA StandingBounded == ASSUME IndexInv, UNCHANGED cacheVars PROVE CacheOK'
<1>1. FreshKeys' \subseteq FreshKeys /\ Dated'
  BY IndexFresh DEF cacheVars, IndexInv, CacheOK
<1>2. QED
  BY <1>1, QuietBounded DEF cacheVars

LEMMA ChatBounded ==
  ASSUME IndexInv, NEW r \in Requests, Chat(r)
  PROVE  CacheOK'
<1>0. \A kind, by, key, text, left :
        DOMAIN Job(kind, by, key, text, left) = {"kind", "by", "key", "text", "left"}
  BY DEF Job
<1>1. CASE LookupMiss(r)
  <2>1. CASE StartDrop(r, CacheKey(r))
    <3>1. FreshKeys' \subseteq FreshKeys /\ Dated'
      BY <2>1, IndexFresh DEF StartDrop, IndexInv, CacheOK
    <3>2. QED
      BY <1>0, <2>1, <3>1, QuietBounded DEF StartDrop
  <2>2. QED
    BY <1>1, <2>1, StandingBounded DEF LookupMiss
<1>2. CASE AnswerFromCache(r)
  <2>1. /\ Fields(call[r].seen, EntryFields) /\ call[r].seen.born \in Nat /\ Dated
        /\ TouchEntry(CacheKey(r), call[r].seen)
    BY <1>2 DEF AnswerFromCache, IndexInv, Inv, GenuineHits, HitsDated, CacheOK
  <2>2. FreshKeys' \subseteq FreshKeys /\ Dated'
    BY <2>1, TouchFresh
  <2>3. QED
    BY <2>1, <2>2, QuietBounded DEF TouchEntry
<1>3. CASE ExecuteSucceeds(r)
  <2>1. StartSet(r, CacheKey(r), Answer(r))
    BY <1>3 DEF ExecuteSucceeds
  <2>2. FreshKeys' \subseteq FreshKeys /\ Dated'
    BY <2>1, IndexFresh DEF StartSet, IndexInv, CacheOK
  <2>3. QED
    BY <1>0, <2>1, <2>2, QuietBounded DEF StartSet
<1>4. CASE \/ LoadContext(r) \/ RouteRequest(r) \/ LookupHit(r) \/ EnsureConversation(r)
           \/ CreateConversation(r) \/ SaveUserMessage(r) \/ SaveAnswer(r)
  BY <1>4, StandingBounded DEF LoadContext, RouteRequest, LookupHit, EnsureConversation,
     CreateConversation, SaveUserMessage, SaveAnswer, StoreFault
<1>5. CASE \/ ExecuteRetries(r) \/ ExecuteFails(r) \/ EmissionFails(r)
           \/ ExecuteReportsError(r)
  BY <1>5, StandingBounded DEF ExecuteRetries, ExecuteFails, EmissionFails,
     ExecuteReportsError, StoreFault
<1>6. QED
  BY <1>1, <1>2, <1>3, <1>4, <1>5 DEF Chat

LEMMA CacheBounded ==
  ASSUME IndexInv, CacheStep
  PROVE  CacheOK'
<1>0. IsFiniteSet(index) /\ JobFieldsOK /\ Bounded /\ Dated
  BY DEF IndexInv, CacheOK
<1>1. ASSUME NEW job \in jobs, RunJob(job) PROVE CacheOK'
  BY <1>1, RunJobBounded
<1>2. ASSUME NEW job \in jobs, WriteFails(job) PROVE CacheOK'
  <2>1. FreshKeys' \subseteq FreshKeys /\ Dated'
    BY <1>0, <1>2, IndexFresh DEF WriteFails
  <2>2. Bounded'
    BY <1>0, <1>2, <2>1, ShrinkingBounded DEF WriteFails
  <2>3. QED
    BY <1>0, <1>2, <2>1, <2>2 DEF WriteFails, JobFieldsOK, CacheOK
<1>3. CASE TTLPasses
  <2>1. FreshKeys' \subseteq FreshKeys
    <3>1. \A key \in DOMAIN entries : Old(entries[key]) => Old(entries[key])'
      BY <1>0, <1>3 DEF TTLPasses, Old, Dated
    <3>2. QED
      BY <1>3, <3>1 DEF TTLPasses, FreshKeys, ValidKeys, Hit, Present
  <2>2. Dated'
    BY <1>0, <1>3 DEF TTLPasses, Dated
  <2>3. QED
    BY <1>3, <2>1, <2>2, QuietBounded DEF TTLPasses
<1>4. ASSUME NEW key, Expire(key) PROVE CacheOK'
  <2>1. FreshKeys' \subseteq FreshKeys /\ Dated'
    BY <1>0, <1>4, DropFresh DEF Expire
  <2>2. QED
    BY <1>4, <2>1, QuietBounded DEF Expire
<1>5. QED
  BY <1>1, <1>2, <1>3, <1>4 DEF CacheStep

LEMMA NextIndex == IndexInv /\ [Next]_vars => IndexInv'
<1> SUFFICES ASSUME IndexInv, [Next]_vars PROVE IndexInv'
  OBVIOUS
<1>1. ASSUME NEW r \in Requests, Chat(r) PROVE CacheOK' /\ CallsStep
  BY <1>1, ChatBounded, ChatStep DEF IndexInv, StepOK
<1>2. ASSUME NEW c \in Convs, DeleteByUser(c) PROVE CacheOK' /\ CallsStep
  BY <1>2, StandingBounded, DeleteByUserStep DEF DeleteByUser, IndexInv, StepOK
<1>3. ASSUME NEW c \in Convs, CreateByUser(c) PROVE CacheOK' /\ CallsStep
  BY <1>3, StandingBounded, StandingCalls DEF CreateByUser, IndexInv
<1>4. ASSUME CacheStep PROVE CacheOK' /\ CallsStep
  BY <1>4, CacheBounded, CacheStepStep DEF IndexInv, StepOK
<1>5. ASSUME UNCHANGED vars PROVE CacheOK' /\ CallsStep
  BY <1>5, StandingBounded, StandingCalls DEF vars, cacheVars, IndexInv
<1>6. CacheOK' /\ CallsStep
  BY <1>1, <1>2, <1>3, <1>4, <1>5 DEF Next
<1>7. HitsDated'
  BY <1>6 DEF CallsStep, HitsDated, IndexInv, CacheOK, Dated
<1>8. QED
  BY <1>6, <1>7, NextInv DEF IndexInv

LEMMA InitIndex == Init => IndexInv
<1> SUFFICES ASSUME Init PROVE IndexInv
  OBVIOUS
<1>1. HitsDated
  BY DEF Init, Idle, HitsDated
<1>2. IsFiniteSet(index) /\ JobFieldsOK /\ Dated
  BY FS_EmptySet DEF Init, CacheInit, JobFieldsOK, Dated
<1>3. Bounded
  <2>1. FreshKeys = {}
    BY DEF Init, CacheInit, FreshKeys, ValidKeys
  <2>2. QED
    BY <2>1, FS_EmptySet, CacheAssumption DEF Bounded
<1>4. QED
  BY <1>1, <1>2, <1>3, InitInv DEF IndexInv, CacheOK

\* When no eviction is under way the cache is below its bound (IndexedBound),
\* however the Sets, the hits, the evictions and the expiries interleave; what a
\* hit brings back after it was dropped is not counted.
THEOREM CacheStaysBounded == Spec => []IndexedBound
<1>1. IndexInv => IndexedBound
  BY DEF IndexInv, CacheOK, Bounded, IndexedBound
<1>2. QED
  BY <1>1, InitIndex, NextIndex, PTL DEF Spec
=============================================================================
