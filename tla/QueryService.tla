---------------------------- MODULE QueryService ----------------------------
(* The query service (internal/service/query_service.go): Query and QueryStream
   over the semantic cache, the retrieval chain and the model, while the maps
   of stock codes are reloaded. Requests run at once; the embedder, Redis, the
   chain and the client's stream fail.                                        *)
EXTENDS SemanticCache, Sequences

CONSTANTS
  Requests,    \* the requests
  Inputs,      \* what a request is: [question, code, stream]
  Stocked,     \* what the cache may hold at the start
  Guard(_),    \* what the answer guard makes of a question's answer: "refuses"
               \* without calling the model, "rewrites" it or "keeps" it
  Budget,      \* faults and TTL periods of a behaviour
  Reloads      \* reloads of the stock codes

ASSUME QueryAssumption ==
  /\ Budget \in Nat /\ Reloads \in Nat
  /\ CacheCapacity \in Nat \ {0} /\ BatchSize \in Nat \ {0}
  /\ \A qs \in Stocked : /\ qs \subseteq Questions /\ IsFiniteSet(qs)
                         /\ Cardinality(qs) <= CacheCapacity
  /\ IsFiniteSet(Requests) /\ Requests # {}

VARIABLES
  ask,      \* the input of each request
  call,     \* where each request is, and what it has read
  reply,    \* what its caller got
  stream,   \* the texts its client was sent, in order
  codes,    \* the maps of stock codes: [filling, left]
  down,     \* the process has crashed
  budget    \* what is left of Budget

queryVars == << ask, call, reply, stream, codes, down, budget >>
vars == << queryVars, cacheVars >>

(* An answer carries the question it was computed for. *)
Answer(q, by) == [question |-> q, by |-> by]
Raw == Answer("none", "model")   \* the model's chunks, before the guard
Earlier == "earlier"             \* who wrote what the cache holds at the start

Idle == [at |-> "start", hits |-> 0, born |-> 0, left |-> {}, best |-> NoCandidate]
NoReply == [status |-> "none", text |-> NoText, cached |-> FALSE]

(* The cache holds what earlier requests left in it. *)
Init ==
  /\ \E qs \in Stocked :
       /\ resp = [q \in qs |-> [text |-> Answer(q, Earlier), set |-> 0]]
       /\ vec = [q \in qs |-> [set |-> 0]]
       /\ meta = [q \in qs |-> [born |-> 0, hits |-> 0, set |-> 0]]
       /\ idx = qs
  /\ drops = {} /\ epoch = 0
  /\ ask \in [Requests -> Inputs]
  /\ call = [r \in Requests |-> Idle]
  /\ reply = [r \in Requests |-> NoReply]
  /\ stream = [r \in Requests |-> << >>]
  /\ codes = [filling |-> FALSE, left |-> Reloads]
  /\ down = FALSE /\ budget = Budget

Q(r) == ask[r].question
At(r, at) == call[r].at = at
Go(r, at) == call' = [call EXCEPT ![r].at = at]
End(r) == call' = [call EXCEPT ![r] = [Idle EXCEPT !.at = "done"]]
Spend == budget > 0 /\ budget' = budget - 1
Reply(r, status, text, cached) ==
  reply' = [reply EXCEPT ![r] = [status |-> status, text |-> text, cached |-> cached]]
Fail(r) == End(r) /\ Reply(r, "error", NoText, FALSE)
Send(r, text) == stream' = IF ask[r].stream THEN [stream EXCEPT ![r] = Append(@, text)]
                                            ELSE stream

(* A panic or a fatal error ends the process: the handler's goroutine is started
   by the timeout middleware, and nothing recovers it. *)
Crash == down' = TRUE /\ UNCHANGED << ask, call, reply, stream, codes, budget, cacheVars >>

(* extractStockCode ranges over the maps when the request names no stock; a map
   that is being filled may abort the process. *)
ExtractCode(r) ==
  /\ At(r, "start")
  /\ Go(r, "exact")
  /\ UNCHANGED << ask, reply, stream, codes, down, budget, cacheVars >>
ExtractRaces(r) == At(r, "start") /\ ask[r].code = "" /\ codes.filling /\ Crash

(* loadStockCodeMappings, from the ticker or after an import: the maps are
   replaced by empty ones and filled in place. *)
LoadCodes ==
  /\ \/ ~codes.filling /\ codes.left > 0
        /\ codes' = [filling |-> TRUE, left |-> codes.left - 1]
     \/ codes.filling /\ codes' = [codes EXCEPT !.filling = FALSE]
  /\ UNCHANGED << ask, call, reply, stream, down, budget, cacheVars >>

(* Get, exact match: an error of Redis counts as a miss. *)
ExactMatch(r) ==
  /\ At(r, "exact")
  /\ \/ ExactMiss(Q(r)) /\ Go(r, "embed") /\ UNCHANGED << budget, cacheVars >>
     \/ ExactStale(Q(r)) /\ Go(r, "embed") /\ StartDrop(Q(r)) /\ UNCHANGED budget
     \/ Go(r, "embed") /\ Spend /\ UNCHANGED cacheVars
     \/ /\ ExactHit(Q(r))
        /\ call' = [call EXCEPT ![r].at = "touch", ![r].hits = meta[Q(r)].hits + 1,
              ![r].born = meta[Q(r)].born,
              ![r].best = [Candidate(Q(r)) EXCEPT !.hits = 0]]
        /\ UNCHANGED << budget, cacheVars >>
  /\ UNCHANGED << ask, reply, stream, codes, down >>

(* Get, semantic match: the question's vector, the index, and one candidate
   after the other. *)
StartSemantic(r) ==
  /\ At(r, "embed")
  /\ \E batch \in Batches :
       call' = [call EXCEPT ![r].at = IF batch = {} THEN "run" ELSE "scan", ![r].left = batch]
  /\ UNCHANGED << ask, reply, stream, codes, down, budget, cacheVars >>

SemanticError(r) ==
  /\ At(r, "embed") /\ Spend /\ Go(r, "run")
  /\ UNCHANGED << ask, reply, stream, codes, down, cacheVars >>

ScanCandidate(r) ==
  /\ At(r, "scan")
  /\ \E q \in call[r].left :
       \E best \in IF IsCandidate(q) THEN Better(Q(r), call[r].best, Candidate(q))
                                     ELSE {call[r].best} :
         call' = [call EXCEPT ![r].left = @ \ {q}, ![r].best = best]
  /\ call[r].left # {}
  /\ UNCHANGED << ask, reply, stream, codes, down, budget, cacheVars >>

SemanticVerdict(r) ==
  /\ At(r, "scan") /\ call[r].left = {}
  /\ IF IsMatch(Q(r), call[r].best) THEN Go(r, "meta")
     ELSE call' = [call EXCEPT ![r].at = "run", ![r].best = NoCandidate]
  /\ UNCHANGED << ask, reply, stream, codes, down, budget, cacheVars >>

(* The metadata of the match is read again: gone since, it is a nil map. *)
ReadMeta(r) ==
  /\ At(r, "meta") /\ Has(meta, call[r].best.query)
  /\ call' = [call EXCEPT ![r].at = "touch", ![r].hits = call[r].best.hits + 1,
                ![r].born = meta[call[r].best.query].born]
  /\ UNCHANGED << ask, reply, stream, codes, down, budget, cacheVars >>
MetaGone(r) == At(r, "meta") /\ ~Has(meta, call[r].best.query) /\ Crash

(* A hit, exact or semantic: the metadata is written back and the answer
   returned, to a stream as one chunk. *)
AnswerFromCache(r) ==
  /\ At(r, "touch")
  /\ Touch(call[r].best.query, [born |-> call[r].born], call[r].hits)
  /\ \/ /\ Reply(r, "ok", call[r].best.text, TRUE)
        /\ Send(r, call[r].best.text)
        /\ UNCHANGED budget
     \/ /\ ask[r].stream /\ Spend
        /\ Reply(r, "error", NoText, FALSE) /\ UNCHANGED stream
  /\ End(r)
  /\ UNCHANGED << ask, codes, down >>

(* The chain of Query: retrieval, prompt, model, guard. Whatever the guard made
   of it, the answer goes into the cache before it is returned. *)
RunChain(r) ==
  /\ At(r, "run") /\ ~ask[r].stream
  /\ Go(r, "store")
  /\ UNCHANGED << ask, reply, stream, codes, down, budget, cacheVars >>

(* QueryStream: a refusal is sent without calling the model and not cached; else
   the model's chunks go out as they come, and the guard judges the whole. The
   answer is cached by a goroutine. *)
StreamRefusal(r) ==
  /\ At(r, "run") /\ ask[r].stream /\ Guard(Q(r)) = "refuses"
  /\ \/ Reply(r, "ok", Answer(Q(r), r), FALSE) /\ Send(r, Answer(Q(r), r)) /\ UNCHANGED budget
     \/ Spend /\ Reply(r, "error", NoText, FALSE) /\ UNCHANGED stream
  /\ End(r)
  /\ UNCHANGED << ask, codes, down, cacheVars >>

RunStream(r) ==
  /\ At(r, "run") /\ ask[r].stream /\ Guard(Q(r)) # "refuses"
  /\ Send(r, IF Guard(Q(r)) = "rewrites" THEN Raw ELSE Answer(Q(r), r))
  /\ Reply(r, "ok", Answer(Q(r), r), FALSE)
  /\ Go(r, "store")
  /\ UNCHANGED << ask, codes, down, budget, cacheVars >>

RunFails(r) ==
  /\ At(r, "run") /\ Spend /\ Fail(r)
  /\ \/ UNCHANGED stream
     \/ ask[r].stream /\ Guard(Q(r)) # "refuses" /\ Send(r, Raw)
  /\ UNCHANGED << ask, codes, down, cacheVars >>

(* Set: Query returns its answer when Set has ended, however it ended. *)
EndStore(r) ==
  /\ End(r)
  /\ IF ask[r].stream THEN UNCHANGED reply ELSE Reply(r, "ok", Answer(Q(r), r), FALSE)

StoreFails(r) ==
  /\ call[r].at \in {"store", "write"} /\ Spend /\ EndStore(r)
  /\ UNCHANGED << ask, stream, codes, down, cacheVars >>

CountEntries(r) ==
  /\ At(r, "store")
  /\ Go(r, IF MustEvict THEN "pick" ELSE "write")
  /\ UNCHANGED << ask, reply, stream, codes, down, budget, cacheVars >>

PickVictims(r) ==
  /\ At(r, "pick")
  /\ \E qs \in Victims : call' = [call EXCEPT ![r].at = "evict", ![r].left = qs]
  /\ UNCHANGED << ask, reply, stream, codes, down, budget, cacheVars >>

EvictNext(r) ==
  /\ At(r, "evict")
  /\ \/ call[r].left = {} /\ Go(r, "write") /\ UNCHANGED cacheVars
     \/ \E q \in call[r].left :
          Evict(q) /\ call' = [call EXCEPT ![r].left = @ \ {q}]
  /\ UNCHANGED << ask, reply, stream, codes, down, budget >>

StoreAnswer(r) ==
  /\ At(r, "write")
  /\ WriteEntry(Q(r), Answer(Q(r), r)) /\ EndStore(r)
  /\ UNCHANGED << ask, stream, codes, down, budget >>

Serve(r) ==
  \/ ExtractCode(r) \/ ExtractRaces(r) \/ ExactMatch(r) \/ StartSemantic(r)
  \/ SemanticError(r) \/ ScanCandidate(r) \/ SemanticVerdict(r) \/ ReadMeta(r)
  \/ MetaGone(r) \/ AnswerFromCache(r) \/ RunChain(r) \/ StreamRefusal(r)
  \/ RunStream(r) \/ RunFails(r) \/ StoreFails(r) \/ CountEntries(r)
  \/ PickVictims(r) \/ EvictNext(r) \/ StoreAnswer(r)

RedisStep ==
  /\ \/ \E q \in drops : DropKeys(q) /\ UNCHANGED budget
     \/ TTLPasses /\ Spend
     \/ \E q \in Questions : Expire(q) /\ UNCHANGED budget
  /\ UNCHANGED << ask, call, reply, stream, codes, down >>

Next == ~down /\ (LoadCodes \/ RedisStep \/ \E r \in Requests : Serve(r))

Spec == Init /\ [][Next]_vars

-----------------------------------------------------------------------------
(* Properties *)

(* Whatever is evicted, deleted, expired or replaced while a lookup goes through
   its candidates, the answer it returns was computed for the question asked or
   for one at least as similar as the threshold asks, and a stream got it whole. *)
HitsSimilar ==
  \A r \in Requests :
    reply[r].status = "ok" /\ reply[r].cached
      => /\ \/ reply[r].text.question = Q(r)
            \/ Score(Q(r), reply[r].text.question) >= Threshold
         /\ ask[r].stream => stream[r] = << reply[r].text >>

(* The live entries stay below MaxCacheSize but for the writers that counted at
   the same time: each may add one. *)
SizeBound ==
  Cardinality(Valid) <= CacheCapacity - 1 + Cardinality(Requests)

(* Violated: a lookup that found a match returns it, and the process lives. *)
StaysUp == ~down
=============================================================================
