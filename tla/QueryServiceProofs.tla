------------------------ MODULE QueryServiceProofs ------------------------
(***************************************************************************)
(* Three safety properties of QueryService over SemanticCache, for any      *)
(* number of requests, questions and entries and any measure of similarity. *)
(*                                                                         *)
(* FindableAnswers is inductive as it stands: every pipeline that adds an   *)
(* answer adds its metadata and its place in the index, every one that      *)
(* takes one of these away takes the answer too.                            *)
(*                                                                         *)
(* HitsSimilar needs to follow a candidate from the cache to the caller:    *)
(* its text was computed for the question it is filed under, the verdict    *)
(* compares that question with the one asked, and nothing was sent before.  *)
(*                                                                         *)
(* SizeBound is an account: live entries and requests under way together    *)
(* never grow.  A request adds an entry only by its last step, so a writer  *)
(* that has counted room keeps its place whatever the others do; a touch    *)
(* that comes after an eviction brings back an entry whose loss left room.  *)
(***************************************************************************)
EXTENDS QueryService, FiniteSetTheorems, TLAPS

-----------------------------------------------------------------------------
(* The keys in Redis.                                                      *)

Filed == DOMAIN resp \subseteq idx /\ DOMAIN resp \subseteq DOMAIN meta

LEMMA WithoutDomain ==
  ASSUME NEW keys, NEW q
  PROVE  DOMAIN Without(keys, q) = DOMAIN keys \ {q}
  BY DEF Without, Restrict

LEMMA PutDomain ==
  ASSUME NEW keys, NEW q, NEW value
  PROVE  /\ DOMAIN Put(keys, q, value) = DOMAIN keys \cup {q}
         /\ Put(keys, q, value)[q] = value
         /\ \A k \in DOMAIN keys \ {q} : Put(keys, q, value)[k] = keys[k]
  BY DEF Put

LEMMA EvictFiled == ASSUME NEW q, Filed, Evict(q) PROVE Filed'
<1>1. DOMAIN resp' = DOMAIN resp \ {q} /\ DOMAIN meta' = DOMAIN meta \ {q}
  BY WithoutDomain DEF Evict
<1>2. idx' = idx \ {q}
  BY DEF Evict
<1>3. QED
  BY <1>1, <1>2 DEF Filed

LEMMA TouchFiled == ASSUME NEW q, NEW seen, NEW hits, Filed, Touch(q, seen, hits) PROVE Filed'
<1>1. DOMAIN meta' = DOMAIN meta \cup {q}
  BY PutDomain DEF Touch
<1>2. QED
  BY <1>1 DEF Filed, Touch

LEMMA WriteFiled == ASSUME NEW q, NEW text, Filed, WriteEntry(q, text) PROVE Filed'
<1>1. DOMAIN resp' = DOMAIN resp \cup {q} /\ DOMAIN meta' = DOMAIN meta \cup {q}
  BY PutDomain DEF WriteEntry
<1>2. idx' = idx \cup {q}
  BY DEF WriteEntry
<1>3. QED
  BY <1>1, <1>2 DEF Filed

LEMMA DropFiled == ASSUME NEW q, Filed, DropKeys(q) PROVE Filed'
  BY WithoutDomain DEF Filed, DropKeys

LEMMA ExpireFiled == ASSUME NEW q, Filed, Expire(q) PROVE Filed'
<1>1. CASE resp' = Without(resp, q) /\ meta' = meta /\ idx' = idx
  BY <1>1, WithoutDomain DEF Filed
<1>2. CASE resp' = resp /\ meta' = meta /\ idx' = idx
  BY <1>2 DEF Filed
<1>3. CASE q \notin DOMAIN resp /\ resp' = resp /\ meta' = Without(meta, q) /\ idx' = idx
  <2>1. DOMAIN meta' = DOMAIN meta \ {q}
    BY <1>3, WithoutDomain
  <2>2. QED
    BY <1>3, <2>1 DEF Filed
<1>4. QED
  BY <1>1, <1>2, <1>3 DEF Expire, Has

LEMMA SameFiled == ASSUME Filed, UNCHANGED << resp, meta, idx >> PROVE Filed'
  BY DEF Filed

\* What a request does to the cache.
CacheMoves ==
  \/ UNCHANGED << resp, meta, idx >>
  \/ \E q, seen, hits : Touch(q, seen, hits)
  \/ \E q : Evict(q)
  \/ \E r \in Requests : WriteEntry(Q(r), Answer(Q(r), r))

LEMMA ServeCacheMoves == ASSUME NEW r \in Requests, Serve(r) PROVE CacheMoves
<1> USE DEF CacheMoves, cacheVars, Crash
<1>1. CASE ExtractCode(r) \/ ExtractRaces(r) \/ StartSemantic(r) \/ SemanticError(r)
  BY <1>1 DEF ExtractCode, ExtractRaces, StartSemantic, SemanticError
<1>2. CASE ExactMatch(r)
  BY <1>2 DEF ExactMatch, StartDrop
<1>3. CASE ScanCandidate(r) \/ SemanticVerdict(r) \/ ReadMeta(r) \/ MetaGone(r)
  BY <1>3 DEF ScanCandidate, SemanticVerdict, ReadMeta, MetaGone
<1>4. CASE AnswerFromCache(r)
  BY <1>4 DEF AnswerFromCache
<1>5. CASE RunChain(r) \/ StreamRefusal(r) \/ RunStream(r) \/ RunFails(r)
  BY <1>5 DEF RunChain, StreamRefusal, RunStream, RunFails
<1>6. CASE StoreFails(r) \/ CountEntries(r) \/ PickVictims(r)
  BY <1>6 DEF StoreFails, CountEntries, PickVictims
<1>7. CASE EvictNext(r)
  BY <1>7 DEF EvictNext
<1>8. CASE StoreAnswer(r)
  BY <1>8 DEF StoreAnswer
<1>9. QED
  BY <1>1, <1>2, <1>3, <1>4, <1>5, <1>6, <1>7, <1>8 DEF Serve

LEMMA NextFiled == Filed /\ [Next]_vars => Filed'
<1> SUFFICES ASSUME Filed, [Next]_vars PROVE Filed'
  OBVIOUS
<1>1. ASSUME NEW r \in Requests, Serve(r) PROVE Filed'
  BY <1>1, ServeCacheMoves, EvictFiled, TouchFiled, WriteFiled, SameFiled DEF CacheMoves
<1>2. CASE LoadCodes
  BY <1>2, SameFiled DEF LoadCodes, cacheVars
<1>3. CASE RedisStep
  BY <1>3, DropFiled, ExpireFiled, SameFiled DEF RedisStep, TTLPasses
<1>4. CASE UNCHANGED vars
  BY <1>4, SameFiled DEF vars, cacheVars
<1>5. QED
  BY <1>1, <1>2, <1>3, <1>4 DEF Next

\* Every answer in the cache is in the index and has its metadata
\* (FindableAnswers), whatever is touched, evicted, deleted or expires.
THEOREM AnswersFindable == Spec => []FindableAnswers
<1>1. Init => Filed
  BY DEF Init, Filed
<1>2. Filed => FindableAnswers
  BY DEF Filed, FindableAnswers
<1>3. QED
  BY <1>1, <1>2, NextFiled, PTL DEF Spec

-----------------------------------------------------------------------------
(* What a lookup returns.                                                  *)

\* An answer in the cache was computed for the question it is filed under.
Texts == \A q \in DOMAIN resp : resp[q].text.question = q

\* While it looks, a request has sent nothing.
Looking == {"start", "exact", "embed", "scan", "meta", "touch"}

Close(q, other) == other = q \/ Score(q, other) >= Threshold

\* How a request for q stands that is at c, has sent `sent` and answered rep.
Stands(c, sent, rep, q, streams) ==
  /\ c.best.text.question = c.best.query
  /\ c.at \in {"meta", "touch"} => Close(q, c.best.query)
  /\ c.at \in Looking => sent = << >>
  /\ rep.status = "ok" /\ rep.cached
       => /\ c.at = "done"
          /\ Close(q, rep.text.question)
          /\ streams => sent = << rep.text >>

Standing(r) == Stands(call[r], stream[r], reply[r], Q(r), ask[r].stream)

Shapes ==
  /\ DOMAIN call = Requests /\ DOMAIN stream = Requests /\ DOMAIN reply = Requests
  /\ \A r \in Requests : DOMAIN call[r] = DOMAIN Idle

Inv == Shapes /\ Texts /\ \A r \in Requests : Standing(r)

LEMMA RespTexts ==
  ASSUME Texts,
         \/ resp' = resp
         \/ \E q : resp' = Without(resp, q)
         \/ \E q, by : resp' = Put(resp, q, NewResp(Answer(q, by)))
  PROVE  Texts'
<1>1. CASE resp' = resp
  BY <1>1 DEF Texts
<1>2. ASSUME NEW q, resp' = Without(resp, q) PROVE Texts'
  BY <1>2 DEF Texts, Without, Restrict
<1>3. ASSUME NEW q, NEW value, value.text.question = q, resp' = Put(resp, q, value)
      PROVE  Texts'
  <2>1. /\ DOMAIN resp' = DOMAIN resp \cup {q}
        /\ resp'[q] = value
        /\ \A k \in DOMAIN resp \ {q} : resp'[k] = resp[k]
    BY <1>3 DEF Put
  <2>2. QED
    BY <1>3, <2>1 DEF Texts
<1>4. \A q, by : NewResp(Answer(q, by)).text.question = q
  BY DEF NewResp, Answer
<1>5. QED
  BY <1>1, <1>2, <1>3, <1>4

LEMMA NextTexts == Texts /\ [Next]_vars => Texts'
<1> SUFFICES ASSUME Texts, [Next]_vars PROVE Texts'
  OBVIOUS
<1>1. ASSUME NEW r \in Requests, Serve(r) PROVE Texts'
  BY <1>1, ServeCacheMoves, RespTexts DEF CacheMoves, Touch, Evict, WriteEntry
<1>2. CASE LoadCodes
  BY <1>2, RespTexts DEF LoadCodes, cacheVars
<1>3. CASE RedisStep
  BY <1>3, RespTexts DEF RedisStep, DropKeys, TTLPasses, Expire
<1>4. CASE UNCHANGED vars
  BY <1>4, RespTexts DEF vars, cacheVars
<1>5. QED
  BY <1>1, <1>2, <1>3, <1>4 DEF Next

-----------------------------------------------------------------------------
\* A step of r leaves the others where they are, and r in order.
StepOf(r) ==
  /\ ask' = ask
  /\ \E c : call' = [call EXCEPT ![r] = c] /\ DOMAIN c = DOMAIN Idle
  /\ stream' = stream \/ \E sent : stream' = [stream EXCEPT ![r] = sent]
  /\ reply' = reply \/ \E rep : reply' = [reply EXCEPT ![r] = rep]
  /\ Standing(r)'

LEMMA OthersStand ==
  ASSUME Inv, NEW r \in Requests, StepOf(r)
  PROVE  Shapes' /\ \A q \in Requests : Standing(q)'
<1>1. PICK c : call' = [call EXCEPT ![r] = c] /\ DOMAIN c = DOMAIN Idle
  BY DEF StepOf
<1>2. call'[r] = c /\ \A q \in Requests \ {r} : call'[q] = call[q]
  BY <1>1 DEF Inv, Shapes
<1>3. DOMAIN call' = Requests /\ DOMAIN stream' = Requests /\ DOMAIN reply' = Requests
  BY <1>1 DEF Inv, Shapes, StepOf
<1>4. Shapes'
  BY <1>1, <1>2, <1>3 DEF Inv, Shapes
<1>5. ASSUME NEW q \in Requests \ {r} PROVE Standing(q)'
  <2>1. call'[q] = call[q] /\ stream'[q] = stream[q] /\ reply'[q] = reply[q]
    BY <1>2, <1>5 DEF Inv, Shapes, StepOf
  <2>2. QED
    BY <1>5, <2>1 DEF Inv, StepOf, Standing, Q
<1>6. QED
  BY <1>4, <1>5 DEF StepOf

\* Moving on without a word to the caller.
LEMMA MoveStep ==
  ASSUME Inv, NEW r \in Requests, NEW c, ask' = ask, reply' = reply, stream' = stream,
         call' = [call EXCEPT ![r] = c], DOMAIN c = DOMAIN Idle,
         call[r].at # "done", c.at \in Looking => call[r].at \in Looking,
         c.best.text.question = c.best.query,
         c.at \in {"meta", "touch"} => Close(Q(r), c.best.query)
  PROVE  StepOf(r)
<1>1. call'[r] = c
  BY DEF Inv, Shapes
<1>2. Q(r)' = Q(r)
  BY DEF Q
<1>3. Standing(r)'
  BY <1>1, <1>2 DEF Inv, Standing, Stands
<1>4. QED
  BY <1>3 DEF StepOf

\* Only the place changes.
LEMMA GoStep ==
  ASSUME Inv, NEW r \in Requests, NEW at, Go(r, at), ask' = ask, reply' = reply,
         stream' = stream, call[r].at # "done", at \in Looking => call[r].at \in Looking,
         at \in {"meta", "touch"} => Close(Q(r), call[r].best.query)
  PROVE  StepOf(r)
<1> DEFINE c == [call[r] EXCEPT !.at = at]
<1>1. call' = [call EXCEPT ![r] = c]
  BY DEF Go
<1>2. DOMAIN c = DOMAIN Idle /\ c.at = at /\ c.best = call[r].best
  BY DEF Inv, Shapes, Idle
<1>3. c.best.text.question = c.best.query
  BY <1>2 DEF Inv, Standing, Stands
<1>4. QED
  BY <1>1, <1>2, <1>3, MoveStep

\* The end, with an answer that is not from the cache, an error or neither.
LEMMA EndStep ==
  ASSUME Inv, NEW r \in Requests, End(r), ask' = ask, call[r].at # "done",
         stream' = stream \/ \E sent : stream' = [stream EXCEPT ![r] = sent],
         \/ reply' = reply
         \/ \E status, text : Reply(r, status, text, FALSE)
  PROVE  StepOf(r)
<1> DEFINE c == [Idle EXCEPT !.at = "done"]
<1>1. call' = [call EXCEPT ![r] = c] /\ DOMAIN c = DOMAIN Idle
  BY DEF End, Idle
<1>2. c.at = "done" /\ c.best = NoCandidate
  BY DEF Idle
<1>3. call'[r] = c
  BY <1>1 DEF Inv, Shapes
<1>4. c.best.text.question = c.best.query
  BY <1>2 DEF NoCandidate, NoText
<1>5. ~(reply'[r].status = "ok" /\ reply'[r].cached)
  <2>1. CASE reply' = reply
    BY <2>1 DEF Inv, Standing, Stands
  <2>2. ASSUME NEW status, NEW text, Reply(r, status, text, FALSE)
        PROVE  ~(reply'[r].status = "ok" /\ reply'[r].cached)
    BY <2>2 DEF Reply, Inv, Shapes
  <2>3. QED
    BY <2>1, <2>2
<1>6. Standing(r)'
  BY <1>2, <1>3, <1>4, <1>5 DEF Standing, Stands, Looking
<1>7. QED
  BY <1>1, <1>6 DEF StepOf, Reply

-----------------------------------------------------------------------------
(* The steps, one by one.                                                  *)

LEMMA ExactMatchStep == ASSUME Inv, NEW r \in Requests, ExactMatch(r) PROVE StepOf(r)
<1>1. CASE Go(r, "embed")
  BY <1>1, GoStep DEF ExactMatch, At, Looking
<1>2. ASSUME ExactHit(Q(r)), NEW hits, NEW born,
             call' = [call EXCEPT ![r].at = "touch", ![r].hits = hits, ![r].born = born,
                        ![r].best = [Candidate(Q(r)) EXCEPT !.hits = 0]]
      PROVE  StepOf(r)
  <2> DEFINE best == [Candidate(Q(r)) EXCEPT !.hits = 0]
             c == [call[r] EXCEPT !.at = "touch", !.hits = hits, !.born = born, !.best = best]
  <2>1. best.query = Q(r) /\ best.text = resp[Q(r)].text
    BY DEF Candidate
  <2>2. resp[Q(r)].text.question = Q(r)
    BY <1>2 DEF ExactHit, Has, Inv, Texts
  <2>3. call' = [call EXCEPT ![r] = c]
    BY <1>2
  <2>4. DOMAIN c = DOMAIN Idle /\ c.at = "touch" /\ c.best = best
    BY DEF Inv, Shapes, Idle
  <2>5. c.best.text.question = c.best.query /\ Close(Q(r), c.best.query)
    BY <2>1, <2>2, <2>4 DEF Close
  <2>6. call[r].at = "exact" /\ UNCHANGED << ask, reply, stream >>
    BY DEF ExactMatch, At
  <2>7. QED
    BY <2>3, <2>4, <2>5, <2>6, MoveStep DEF Looking
<1>3. QED
  BY <1>1, <1>2 DEF ExactMatch

LEMMA StartSemanticStep ==
  ASSUME Inv, NEW r \in Requests, StartSemantic(r) \/ SemanticError(r)
  PROVE  StepOf(r)
<1>1. CASE SemanticError(r)
  BY <1>1, GoStep DEF SemanticError, At, Looking
<1>2. ASSUME NEW at \in {"run", "scan"}, NEW batch,
             call' = [call EXCEPT ![r].at = at, ![r].left = batch],
             At(r, "embed"), UNCHANGED << ask, reply, stream >>
      PROVE  StepOf(r)
  <2> DEFINE c == [call[r] EXCEPT !.at = at, !.left = batch]
  <2>1. call' = [call EXCEPT ![r] = c]
    BY <1>2
  <2>2. DOMAIN c = DOMAIN Idle /\ c.at = at /\ c.best = call[r].best
    BY DEF Inv, Shapes, Idle
  <2>3. c.best.text.question = c.best.query
    BY <2>2 DEF Inv, Standing, Stands
  <2>4. QED
    BY <1>2, <2>1, <2>2, <2>3, MoveStep DEF At, Looking
<1>3. CASE StartSemantic(r)
  <2>1. PICK batch \in Batches :
          call' = [call EXCEPT ![r].at = IF batch = {} THEN "run" ELSE "scan",
                               ![r].left = batch]
    BY <1>3 DEF StartSemantic
  <2>2. QED
    BY <1>2, <1>3, <2>1 DEF StartSemantic
<1>4. QED
  BY <1>1, <1>3

\* The candidate that is kept was filed under the question it answers.
LEMMA BetterFiled ==
  ASSUME NEW q, NEW best, NEW other, NEW kept \in Better(q, best, other),
         best.text.question = best.query, other.text.question = other.query
  PROVE  kept.text.question = kept.query
  BY DEF Better

LEMMA ScanCandidateStep == ASSUME Inv, NEW r \in Requests, ScanCandidate(r) PROVE StepOf(r)
<1>1. PICK q \in call[r].left :
        \E best \in IF IsCandidate(q) THEN Better(Q(r), call[r].best, Candidate(q))
                                      ELSE {call[r].best} :
          call' = [call EXCEPT ![r].left = @ \ {q}, ![r].best = best]
  BY DEF ScanCandidate
<1>2. PICK best \in IF IsCandidate(q) THEN Better(Q(r), call[r].best, Candidate(q))
                                      ELSE {call[r].best} :
        call' = [call EXCEPT ![r].left = @ \ {q}, ![r].best = best]
  BY <1>1
<1>3. call[r].best.text.question = call[r].best.query
  BY DEF Inv, Standing, Stands
<1>4. best.text.question = best.query
  <2>1. CASE IsCandidate(q)
    <3>1. Candidate(q).text.question = Candidate(q).query
      BY <2>1 DEF IsCandidate, Has, Candidate, Inv, Texts
    <3>2. best \in Better(Q(r), call[r].best, Candidate(q))
      BY <1>2, <2>1
    <3>3. QED
      BY <1>3, <3>1, <3>2, BetterFiled
  <2>2. CASE ~IsCandidate(q)
    BY <1>2, <1>3, <2>2
  <2>3. QED
    BY <2>1, <2>2
<1> DEFINE c == [call[r] EXCEPT !.left = @ \ {q}, !.best = best]
<1>5. call' = [call EXCEPT ![r] = c]
  BY <1>2
<1>6. DOMAIN c = DOMAIN Idle /\ c.at = call[r].at /\ c.best = best
  BY DEF Inv, Shapes, Idle
<1>7. QED
  BY <1>4, <1>5, <1>6, MoveStep DEF ScanCandidate, At, Looking

LEMMA SemanticVerdictStep == ASSUME Inv, NEW r \in Requests, SemanticVerdict(r) PROVE StepOf(r)
<1>1. CASE IsMatch(Q(r), call[r].best) /\ Go(r, "meta")
  <2>1. Close(Q(r), call[r].best.query)
    BY <1>1 DEF IsMatch, ScoreOf, Close
  <2>2. QED
    BY <1>1, <2>1, GoStep DEF SemanticVerdict, At, Looking
<1>2. CASE call' = [call EXCEPT ![r].at = "run", ![r].best = NoCandidate]
  <2> DEFINE c == [call[r] EXCEPT !.at = "run", !.best = NoCandidate]
  <2>1. call' = [call EXCEPT ![r] = c]
    BY <1>2
  <2>2. DOMAIN c = DOMAIN Idle /\ c.at = "run" /\ c.best = NoCandidate
    BY DEF Inv, Shapes, Idle
  <2>3. c.best.text.question = c.best.query
    BY <2>2 DEF NoCandidate, NoText
  <2>4. QED
    BY <2>1, <2>2, <2>3, MoveStep DEF SemanticVerdict, At, Looking
<1>3. QED
  BY <1>1, <1>2 DEF SemanticVerdict

LEMMA ReadMetaStep == ASSUME Inv, NEW r \in Requests, ReadMeta(r) PROVE StepOf(r)
<1>1. PICK hits, born : call' = [call EXCEPT ![r].at = "touch", ![r].hits = hits,
                                             ![r].born = born]
  BY DEF ReadMeta
<1> DEFINE c == [call[r] EXCEPT !.at = "touch", !.hits = hits, !.born = born]
<1>2. call' = [call EXCEPT ![r] = c]
  BY <1>1
<1>3. DOMAIN c = DOMAIN Idle /\ c.at = "touch" /\ c.best = call[r].best
  BY DEF Inv, Shapes, Idle
<1>4. c.best.text.question = c.best.query /\ Close(Q(r), c.best.query)
  BY <1>3 DEF Inv, Standing, Stands, ReadMeta, At
<1>5. QED
  BY <1>2, <1>3, <1>4, MoveStep DEF ReadMeta, At, Looking

LEMMA AnswerFromCacheStep == ASSUME Inv, NEW r \in Requests, AnswerFromCache(r) PROVE StepOf(r)
<1>1. /\ call[r].at = "touch" /\ stream[r] = << >>
      /\ Close(Q(r), call[r].best.query)
      /\ call[r].best.text.question = call[r].best.query
  BY DEF AnswerFromCache, At, Inv, Standing, Stands, Looking
<1>2. CASE Reply(r, "error", NoText, FALSE) /\ UNCHANGED stream
  BY <1>1, <1>2, EndStep DEF AnswerFromCache
<1>3. CASE Reply(r, "ok", call[r].best.text, TRUE) /\ Send(r, call[r].best.text)
  <2> DEFINE c == [Idle EXCEPT !.at = "done"]
  <2>1. call' = [call EXCEPT ![r] = c] /\ DOMAIN c = DOMAIN Idle
    BY DEF AnswerFromCache, End, Idle
  <2>2. call'[r].at = "done" /\ call'[r].best = NoCandidate
    BY <2>1 DEF Inv, Shapes, Idle
  <2>3. reply'[r] = [status |-> "ok", text |-> call[r].best.text, cached |-> TRUE]
    BY <1>3 DEF Reply, Inv, Shapes
  <2>4. ask' = ask /\ Q(r)' = Q(r)
    BY DEF AnswerFromCache, Q
  <2>5. ask[r].stream => stream'[r] = << call[r].best.text >>
    <3>1. Append(<< >>, call[r].best.text) = << call[r].best.text >>
      OBVIOUS
    <3>2. QED
      BY <1>1, <1>3, <3>1 DEF Send, Inv, Shapes
  <2>6. NoCandidate.text.question = NoCandidate.query
    BY DEF NoCandidate, NoText
  <2>7. Standing(r)'
    BY <1>1, <2>2, <2>3, <2>4, <2>5, <2>6 DEF Standing, Stands, Looking
  <2>8. QED
    BY <1>3, <2>1, <2>4, <2>7 DEF StepOf, Reply, Send
<1>4. QED
  BY <1>2, <1>3 DEF AnswerFromCache

LEMMA RunStep ==
  ASSUME Inv, NEW r \in Requests,
         RunChain(r) \/ StreamRefusal(r) \/ RunStream(r) \/ RunFails(r)
  PROVE  StepOf(r)
<1>1. CASE RunChain(r)
  BY <1>1, GoStep DEF RunChain, At, Looking
<1>2. CASE StreamRefusal(r)
  BY <1>2, EndStep DEF StreamRefusal, At, Send
<1>3. CASE RunFails(r)
  BY <1>3, EndStep DEF RunFails, Fail, At, Send
<1>4. CASE RunStream(r)
  <2> DEFINE c == [call[r] EXCEPT !.at = "store"]
  <2>1. call' = [call EXCEPT ![r] = c]
    BY <1>4 DEF RunStream, Go
  <2>2. DOMAIN c = DOMAIN Idle /\ c.at = "store" /\ c.best = call[r].best
    BY DEF Inv, Shapes, Idle
  <2>3. call'[r] = c
    BY <2>1 DEF Inv, Shapes
  <2>4. reply'[r].cached = FALSE
    BY <1>4 DEF RunStream, Reply, Inv, Shapes
  <2>5. Standing(r)'
    BY <2>2, <2>3, <2>4 DEF Inv, Standing, Stands, Looking
  <2>6. QED
    BY <1>4, <2>1, <2>2, <2>5 DEF StepOf, RunStream, Reply, Send
<1>5. QED
  BY <1>1, <1>2, <1>3, <1>4

LEMMA StoreStep ==
  ASSUME Inv, NEW r \in Requests,
         \/ StoreFails(r) \/ CountEntries(r) \/ PickVictims(r) \/ EvictNext(r) \/ StoreAnswer(r)
  PROVE  StepOf(r)
<1>1. CASE StoreFails(r) \/ StoreAnswer(r)
  BY <1>1, EndStep DEF StoreFails, StoreAnswer, EndStore, At
<1>2. CASE CountEntries(r)
  BY <1>2, GoStep DEF CountEntries, At, Looking
<1>3. ASSUME NEW at \in {"pick", "evict"}, NEW qs, At(r, at),
             call' = [call EXCEPT ![r].at = "evict", ![r].left = qs],
             UNCHANGED << ask, reply, stream >>
      PROVE  StepOf(r)
  <2> DEFINE c == [call[r] EXCEPT !.at = "evict", !.left = qs]
  <2>1. call' = [call EXCEPT ![r] = c]
    BY <1>3
  <2>2. DOMAIN c = DOMAIN Idle /\ c.at = "evict" /\ c.best = call[r].best
    BY DEF Inv, Shapes, Idle
  <2>3. c.best.text.question = c.best.query
    BY <2>2 DEF Inv, Standing, Stands
  <2>4. QED
    BY <1>3, <2>1, <2>2, <2>3, MoveStep DEF At, Looking
<1>4. CASE PickVictims(r)
  BY <1>3, <1>4 DEF PickVictims
<1>5. CASE EvictNext(r)
  <2>1. CASE Go(r, "write")
    BY <1>5, <2>1, GoStep DEF EvictNext, At, Looking
  <2>2. ASSUME NEW q, call' = [call EXCEPT ![r].left = @ \ {q}]
        PROVE  StepOf(r)
    <3> DEFINE c == [call[r] EXCEPT !.left = @ \ {q}]
    <3>1. call' = [call EXCEPT ![r] = c]
      BY <2>2
    <3>2. DOMAIN c = DOMAIN Idle /\ c.at = call[r].at /\ c.best = call[r].best
      BY DEF Inv, Shapes, Idle
    <3>3. c.best.text.question = c.best.query
      BY <3>2 DEF Inv, Standing, Stands
    <3>4. QED
      BY <1>5, <3>1, <3>2, <3>3, MoveStep DEF EvictNext, At, Looking
  <2>3. QED
    BY <1>5, <2>1, <2>2 DEF EvictNext
<1>6. QED
  BY <1>1, <1>2, <1>4, <1>5

Rests == UNCHANGED << ask, call, reply, stream >>

LEMMA ServeStep == ASSUME Inv, NEW r \in Requests, Serve(r) PROVE StepOf(r) \/ Rests
<1>1. CASE ExtractCode(r)
  BY <1>1, GoStep DEF ExtractCode, At, Looking
<1>2. CASE ExtractRaces(r) \/ MetaGone(r)
  BY <1>2 DEF ExtractRaces, MetaGone, Crash, Rests
<1>3. QED
  BY <1>1, <1>2, ExactMatchStep, StartSemanticStep, ScanCandidateStep, SemanticVerdictStep,
     ReadMetaStep, AnswerFromCacheStep, RunStep, StoreStep DEF Serve

LEMMA NextInv == Inv /\ [Next]_vars => Inv'
<1> SUFFICES ASSUME Inv, [Next]_vars PROVE Inv'
  OBVIOUS
<1>1. Texts'
  BY NextTexts DEF Inv
<1>2. ASSUME Rests PROVE Shapes' /\ \A r \in Requests : Standing(r)'
  BY <1>2 DEF Rests, Inv, Shapes, Standing, Q
<1>3. ASSUME NEW r \in Requests, Serve(r) PROVE Inv'
  BY <1>1, <1>2, <1>3, ServeStep, OthersStand DEF Inv
<1>4. CASE LoadCodes
  BY <1>1, <1>2, <1>4 DEF LoadCodes, Rests, Inv
<1>5. CASE RedisStep
  BY <1>1, <1>2, <1>5 DEF RedisStep, Rests, Inv
<1>6. CASE UNCHANGED vars
  BY <1>1, <1>2, <1>6 DEF vars, queryVars, Rests, Inv
<1>7. QED
  BY <1>3, <1>4, <1>5, <1>6 DEF Next

LEMMA InitInv == Init => Inv
<1> SUFFICES ASSUME Init PROVE Inv
  OBVIOUS
<1>1. Shapes
  BY DEF Init, Shapes
<1>2. Texts
  BY DEF Init, Texts, Answer
<1>3. ASSUME NEW r \in Requests PROVE Standing(r)
  <2>1. Idle.best.text.question = Idle.best.query /\ Idle.at = "start"
    BY DEF Idle, NoCandidate, NoText
  <2>2. call[r] = Idle /\ stream[r] = << >> /\ reply[r] = NoReply
    BY DEF Init
  <2>3. QED
    BY <2>1, <2>2 DEF Standing, Stands, NoReply
<1>4. QED
  BY <1>1, <1>2, <1>3 DEF Inv

\* An answer from the cache was computed for the question asked or for one as
\* similar as the threshold asks, and a stream got it whole (HitsSimilar).
THEOREM CachedAnswersSimilar == Spec => []HitsSimilar
<1>1. Inv => HitsSimilar
  BY DEF Inv, Standing, Stands, Close, HitsSimilar
<1>2. QED
  BY <1>1, InitInv, NextInv, PTL DEF Spec

-----------------------------------------------------------------------------
(* The size of the cache.                                                  *)

Active == {r \in Requests : call[r].at # "done"}
MaxLive == CacheCapacity - 1 + Cardinality(Requests)

\* The moments of the metadata, and the ones that were read, lie behind.
Dated ==
  /\ epoch \in Nat
  /\ \A q \in DOMAIN meta : meta[q].born \in 0..epoch
  /\ \A r \in Requests : call[r].born \in 0..epoch

\* The live entries that are not in `gone` leave a place for every request that
\* is under way: each may add one, by a write or by a late touch.
Room(gone) == Cardinality(Valid \ gone) + Cardinality(Active) <= MaxLive

\* A touch brings back an entry only when another was lost.
TouchRoom(c) ==
  c.at = "touch" /\ ~(c.born < epoch)
    => c.best.query \in Valid \/ c.best.query \notin idx \/ Room({})

Reserved(c) ==
  /\ c.at = "write" => Room({})
  /\ c.at = "evict" => Room(c.left)
  /\ TouchRoom(c)

SizeInv ==
  /\ Inv /\ Filed /\ Dated
  /\ IsFiniteSet(idx)
  /\ Cardinality(Valid) <= MaxLive
  /\ Cardinality(Valid) + Cardinality(Active) <= MaxLive + 1
  /\ \A r \in Requests : Reserved(call[r])

\* Counting.
LEMMA FewerCount ==
  ASSUME NEW few, NEW many, IsFiniteSet(many), few \subseteq many
  PROVE  /\ IsFiniteSet(few) /\ Cardinality(few) \in Nat /\ Cardinality(many) \in Nat
         /\ Cardinality(few) <= Cardinality(many)
  BY FS_Subset, FS_CardinalityType

LEMMA OneFewer ==
  ASSUME NEW few, NEW many, NEW x \in many, IsFiniteSet(many), few \subseteq many \ {x}
  PROVE  Cardinality(few) <= Cardinality(many) - 1
<1>1. /\ IsFiniteSet(many \ {x}) /\ Cardinality(many) \in Nat
      /\ Cardinality(many \ {x}) = Cardinality(many) - 1
  BY FS_RemoveElement, FS_CardinalityType
<1>2. Cardinality(few) <= Cardinality(many \ {x}) /\ Cardinality(few) \in Nat
  BY <1>1, FewerCount
<1>3. QED
  BY <1>1, <1>2

LEMMA OneMore ==
  ASSUME NEW few, NEW many, NEW x, IsFiniteSet(many), few \subseteq many \cup {x}
  PROVE  Cardinality(few) <= Cardinality(many) + 1
<1>1. /\ IsFiniteSet(many \cup {x}) /\ Cardinality(many) \in Nat
      /\ Cardinality(many \cup {x}) <= Cardinality(many) + 1
  BY FS_AddElement, FS_CardinalityType
<1>2. Cardinality(few) <= Cardinality(many \cup {x}) /\ Cardinality(few) \in Nat
  BY <1>1, FewerCount
<1>3. Cardinality(many \cup {x}) \in Nat
  BY <1>1, FS_CardinalityType
<1>4. QED
  BY <1>1, <1>2, <1>3

-----------------------------------------------------------------------------
\* A step touches the keys of one question only; an entry that comes to live is
\* paid for by a request that ends, or there was room.
OneKey(q) ==
  /\ Valid' \ {q} = Valid \ {q} /\ idx' \ {q} = idx \ {q}
  /\ epoch' = epoch
  /\ q \in idx' => q \in idx \/ q \in Valid'
  /\ Active' \subseteq Active
  /\ q \in Valid' => q \in Valid \/ \E r \in Active : r \notin Active'
  /\ Valid' \subseteq Valid \/ Room({})

LEMMA Finite ==
  ASSUME SizeInv
  PROVE  /\ IsFiniteSet(Valid) /\ IsFiniteSet(Active) /\ IsFiniteSet(idx)
         /\ MaxLive \in Nat
<1>1. IsFiniteSet(idx) /\ IsFiniteSet(Requests)
  BY QueryAssumption DEF SizeInv
<1>2. IsFiniteSet(Valid) /\ IsFiniteSet(Active)
  BY <1>1, FS_Subset DEF Valid, Active
<1>3. Cardinality(Requests) \in Nat
  BY <1>1, FS_CardinalityType
<1>4. QED
  BY <1>1, <1>2, <1>3, QueryAssumption DEF MaxLive

\* The sum of live entries and active requests does not grow.
LEMMA SumStays ==
  ASSUME SizeInv, NEW q, OneKey(q), NEW gone
  PROVE  /\ Cardinality(Valid' \ gone) \in Nat /\ Cardinality(Active') \in Nat
         /\ Cardinality(Valid \ gone) \in Nat /\ Cardinality(Active) \in Nat
         /\ Cardinality(Valid' \ gone) + Cardinality(Active')
              <= Cardinality(Valid \ gone) + Cardinality(Active)
         /\ q \in Valid /\ q \notin Valid' /\ q \notin gone
              => Cardinality(Valid' \ gone) + Cardinality(Active')
                   <= Cardinality(Valid \ gone) + Cardinality(Active) - 1
<1>1. IsFiniteSet(Valid) /\ IsFiniteSet(Active)
  BY Finite
<1>2. Valid' \subseteq Valid \cup {q} /\ IsFiniteSet(Valid \cup {q})
  BY <1>1, FS_AddElement DEF OneKey
<1>3. /\ IsFiniteSet(Valid \ gone) /\ Cardinality(Valid \ gone) \in Nat
      /\ Cardinality(Valid' \ gone) \in Nat
  <2>1. Valid' \ gone \subseteq Valid \cup {q} /\ Valid \ gone \subseteq Valid
    BY <1>2
  <2>2. QED
    BY <1>1, <1>2, <2>1, FewerCount
<1>4. /\ Cardinality(Active') \in Nat /\ Cardinality(Active) \in Nat
      /\ Cardinality(Active') <= Cardinality(Active)
  BY <1>1, FewerCount DEF OneKey
<1>5. CASE Valid' \subseteq Valid
  <2>1. Cardinality(Valid' \ gone) <= Cardinality(Valid \ gone)
    BY <1>3, <1>5, FewerCount
  <2>2. CASE q \in Valid /\ q \notin Valid' /\ q \notin gone
    <3>1. q \in Valid \ gone /\ Valid' \ gone \subseteq (Valid \ gone) \ {q}
      BY <1>5, <2>2
    <3>2. Cardinality(Valid' \ gone) <= Cardinality(Valid \ gone) - 1
      BY <1>3, <3>1, OneFewer
    <3>3. QED
      BY <1>3, <1>4, <3>2
  <2>3. QED
    BY <1>3, <1>4, <2>1, <2>2
<1>6. CASE ~(Valid' \subseteq Valid)
  <2>1. q \in Valid' /\ q \notin Valid
    BY <1>2, <1>6
  <2>2. PICK r \in Active : r \notin Active'
    BY <2>1 DEF OneKey
  <2>3. Cardinality(Active') <= Cardinality(Active) - 1
    <3>1. Active' \subseteq Active \ {r}
      BY <2>2 DEF OneKey
    <3>2. QED
      BY <1>1, <3>1, OneFewer
  <2>4. Cardinality(Valid' \ gone) <= Cardinality(Valid \ gone) + 1
    <3>1. Valid' \ gone \subseteq (Valid \ gone) \cup {q}
      BY <1>2
    <3>2. QED
      BY <1>3, <3>1, OneMore
  <2>5. QED
    BY <1>3, <1>4, <2>1, <2>3, <2>4
<1>7. QED
  BY <1>5, <1>6

LEMMA RoomStays ==
  ASSUME SizeInv, NEW q, OneKey(q), NEW gone, Room(gone)
  PROVE  Room(gone)'
<1>1. /\ Cardinality(Valid' \ gone) \in Nat /\ Cardinality(Active') \in Nat
      /\ Cardinality(Valid \ gone) \in Nat /\ Cardinality(Active) \in Nat
      /\ Cardinality(Valid' \ gone) + Cardinality(Active')
           <= Cardinality(Valid \ gone) + Cardinality(Active)
  BY SumStays
<1>2. MaxLive \in Nat /\ MaxLive' = MaxLive
  BY Finite DEF MaxLive
<1>3. QED
  BY <1>1, <1>2 DEF Room

\* The bounds hold after such a step, and an entry that was lost leaves room.
LEMMA BoundsStay ==
  ASSUME SizeInv, NEW q, OneKey(q)
  PROVE  /\ IsFiniteSet(idx')
         /\ Cardinality(Valid') <= MaxLive
         /\ Cardinality(Valid') + Cardinality(Active') <= MaxLive + 1
         /\ q \in Valid /\ q \notin Valid' => Room({})'
<1>1. Valid \ {} = Valid /\ Valid' \ {} = Valid'
  OBVIOUS
<1>2. /\ Cardinality(Valid') \in Nat /\ Cardinality(Active') \in Nat
      /\ Cardinality(Valid) \in Nat /\ Cardinality(Active) \in Nat
      /\ Cardinality(Valid') + Cardinality(Active') <= Cardinality(Valid) + Cardinality(Active)
      /\ q \in Valid /\ q \notin Valid'
           => Cardinality(Valid') + Cardinality(Active')
                <= Cardinality(Valid) + Cardinality(Active) - 1
  <2>1. PICK gone : gone = {}
    OBVIOUS
  <2>2. /\ Cardinality(Valid' \ gone) \in Nat /\ Cardinality(Active') \in Nat
        /\ Cardinality(Valid \ gone) \in Nat /\ Cardinality(Active) \in Nat
        /\ Cardinality(Valid' \ gone) + Cardinality(Active')
             <= Cardinality(Valid \ gone) + Cardinality(Active)
        /\ q \in Valid /\ q \notin Valid' /\ q \notin gone
             => Cardinality(Valid' \ gone) + Cardinality(Active')
                  <= Cardinality(Valid \ gone) + Cardinality(Active) - 1
    BY SumStays
  <2>3. Valid' \ gone = Valid' /\ Valid \ gone = Valid /\ q \notin gone
    BY <2>1
  <2>4. QED
    BY <2>2, <2>3
<1>3. MaxLive \in Nat /\ MaxLive' = MaxLive
  BY Finite DEF MaxLive
<1>4. /\ Cardinality(Valid) <= MaxLive
      /\ Cardinality(Valid) + Cardinality(Active) <= MaxLive + 1
  BY DEF SizeInv
<1>5. Cardinality(Valid') <= MaxLive
  <2>1. CASE Valid' \subseteq Valid
    <3>1. Cardinality(Valid') <= Cardinality(Valid)
      BY <2>1, Finite, FewerCount
    <3>2. QED
      BY <1>2, <1>3, <1>4, <3>1
  <2>2. CASE Room({})
    <3>1. Cardinality(Valid) + Cardinality(Active) <= MaxLive
      BY <1>1, <2>2 DEF Room
    <3>2. QED
      BY <1>2, <1>3, <3>1
  <2>3. QED
    BY <2>1, <2>2 DEF OneKey
<1>6. Cardinality(Valid') + Cardinality(Active') <= MaxLive + 1
  BY <1>2, <1>3, <1>4
<1>7. q \in Valid /\ q \notin Valid' => Room({})'
  BY <1>1, <1>2, <1>3, <1>4 DEF Room
<1>8. IsFiniteSet(idx')
  <2>1. idx' \subseteq idx \cup {q} /\ IsFiniteSet(idx \cup {q})
    BY Finite, FS_AddElement DEF OneKey
  <2>2. QED
    BY <2>1, FS_Subset
<1>9. QED
  BY <1>5, <1>6, <1>7, <1>8

\* A request that stands still keeps its place.
LEMMA StillReserved ==
  ASSUME SizeInv, NEW q, OneKey(q), NEW c, Reserved(c)
  PROVE  Reserved(c)'
<1>1. c.at = "write" => Room({})'
  BY RoomStays DEF Reserved
<1>2. c.at = "evict" => Room(c.left)'
  <2>1. PICK gone : gone = c.left
    OBVIOUS
  <2>2. Room(gone) => Room(gone)'
    BY RoomStays
  <2>3. QED
    BY <2>1, <2>2 DEF Reserved, Room
<1>3. TouchRoom(c)'
  <2>1. SUFFICES ASSUME c.at = "touch", ~(c.born < epoch')
                 PROVE  c.best.query \in Valid' \/ c.best.query \notin idx' \/ Room({})'
    BY DEF TouchRoom
  <2>2. c.best.query \in Valid \/ c.best.query \notin idx \/ Room({})
    BY <2>1 DEF Reserved, TouchRoom, OneKey
  <2>3. CASE Room({})
    BY <2>3, RoomStays
  <2>4. CASE c.best.query \in Valid
    <3>1. CASE c.best.query = q
      BY <2>4, <3>1, BoundsStay
    <3>2. CASE c.best.query # q
      BY <2>4, <3>2 DEF OneKey
    <3>3. QED
      BY <3>1, <3>2
  <2>5. CASE c.best.query \notin idx
    BY <2>5 DEF OneKey
  <2>6. QED
    BY <2>2, <2>3, <2>4, <2>5
<1>4. QED
  BY <1>1, <1>2, <1>3 DEF Reserved

-----------------------------------------------------------------------------
(* What the commands do to the live entries.                               *)

\* Metadata and index that stay.
LEMMA SameKeys ==
  ASSUME UNCHANGED << meta, idx, epoch >>, Active' \subseteq Active, NEW q
  PROVE  Valid' = Valid /\ OneKey(q)
<1>1. Valid' = Valid
  BY DEF Valid, Has, Old
<1>2. QED
  BY <1>1 DEF OneKey

\* Metadata that goes, with or without its place in the index.
LEMMA GoneKeys ==
  ASSUME NEW q, meta' = meta \/ meta' = Without(meta, q), idx' = idx \/ idx' = idx \ {q},
         epoch' = epoch, Active' \subseteq Active
  PROVE  OneKey(q) /\ Valid' \subseteq Valid /\ (idx' = idx \ {q} => q \notin Valid')
<1>1. \A k : k # q => (Has(meta', k) <=> Has(meta, k)) /\ (Has(meta, k) => meta'[k] = meta[k])
  BY DEF Without, Restrict, Has
<1>2. Has(meta', q) => Has(meta, q) /\ meta'[q] = meta[q]
  BY DEF Without, Restrict, Has
<1>3. Valid' \ {q} = Valid \ {q} /\ Valid' \subseteq Valid /\ idx' \ {q} = idx \ {q}
  BY <1>1, <1>2 DEF Valid, Old
<1>4. q \in idx' => q \in idx
  OBVIOUS
<1>5. idx' = idx \ {q} => q \notin Valid'
  BY DEF Valid
<1>6. QED
  BY <1>3, <1>4, <1>5 DEF OneKey

\* A touch and a write, by the last step of r.
LEMMA PutKeys ==
  ASSUME NEW q, NEW m, meta' = Put(meta, q, m), epoch' = epoch,
         NEW r \in Active, r \notin Active', Active' \subseteq Active,
         \/ idx' = idx /\ (q \in idx /\ ~Old(m) => q \in Valid \/ Room({}))
         \/ idx' = idx \cup {q} /\ ~Old(m) /\ Room({})
  PROVE  OneKey(q)
<1>1. /\ DOMAIN meta' = DOMAIN meta \cup {q} /\ meta'[q] = m
      /\ \A k \in DOMAIN meta \ {q} : meta'[k] = meta[k]
  BY DEF Put
<1>2. Valid' \ {q} = Valid \ {q}
  BY <1>1 DEF Valid, Has, Old
<1>3. CASE idx' = idx /\ (q \in idx /\ ~Old(m) => q \in Valid \/ Room({}))
  <2>1. Valid' \subseteq Valid \/ Room({})
    BY <1>1, <1>2, <1>3 DEF Valid, Has, Old
  <2>2. QED
    BY <1>2, <1>3, <2>1 DEF OneKey
<1>4. CASE idx' = idx \cup {q} /\ ~Old(m) /\ Room({})
  <2>1. q \in Valid'
    BY <1>1, <1>4 DEF Valid, Has, Old
  <2>2. QED
    BY <1>2, <1>4, <2>1 DEF OneKey
<1>5. QED
  BY <1>3, <1>4

-----------------------------------------------------------------------------
(* The dates.                                                              *)

LEMMA MetaDated ==
  ASSUME Dated, epoch' = epoch,
         \/ meta' = meta
         \/ \E q : meta' = Without(meta, q)
         \/ \E q, m : meta' = Put(meta, q, m) /\ m.born \in 0..epoch
  PROVE  \A q \in DOMAIN meta' : meta'[q].born \in 0..epoch'
<1>1. ASSUME NEW q, meta' = Without(meta, q)
      PROVE  \A k \in DOMAIN meta' : meta'[k].born \in 0..epoch'
  BY <1>1 DEF Without, Restrict, Dated
<1>2. ASSUME NEW q, NEW m, meta' = Put(meta, q, m), m.born \in 0..epoch
      PROVE  \A k \in DOMAIN meta' : meta'[k].born \in 0..epoch'
  BY <1>2 DEF Put, Dated
<1>3. QED
  BY <1>1, <1>2 DEF Dated

-----------------------------------------------------------------------------
(* The steps of a request.                                                 *)

\* What a step of r leaves: its place, its dates and the entries in order.
Served(r) ==
  /\ \E q : OneKey(q)
  /\ Reserved(call[r])'
  /\ call'[r].born \in 0..epoch' /\ epoch' = epoch
  /\ \A q \in DOMAIN meta' : meta'[q].born \in 0..epoch'

LEMMA OthersStill ==
  ASSUME SizeInv, NEW r \in Requests, Serve(r)
  PROVE  \A s \in Requests \ {r} : call'[s] = call[s]
<1>1. StepOf(r) \/ Rests
  BY ServeStep DEF SizeInv
<1>2. QED
  BY <1>1 DEF StepOf, Rests, SizeInv, Inv, Shapes

LEMMA ActiveStep ==
  ASSUME NEW r \in Requests, call[r].at # "done",
         \A s \in Requests \ {r} : call'[s] = call[s]
  PROVE  /\ r \in Active /\ Active' \subseteq Active
         /\ call'[r].at = "done" => r \notin Active'
  BY DEF Active

\* A step that leaves metadata and index alone and claims no place.
LEMMA PlainServed ==
  ASSUME SizeInv, NEW r \in Requests, call[r].at # "done",
         \A s \in Requests \ {r} : call'[s] = call[s],
         UNCHANGED << meta, idx, epoch >>, call'[r].born \in 0..epoch, Reserved(call[r])'
  PROVE  Served(r)
<1>1. \A q : OneKey(q)
  BY SameKeys, ActiveStep
<1>2. QED
  BY <1>1, MetaDated DEF Served, SizeInv

LEMMA RecordFields ==
  ASSUME SizeInv, NEW r \in Requests
  PROVE  DOMAIN call[r] = {"at", "hits", "born", "left", "best"}
  BY DEF SizeInv, Inv, Shapes, Idle

LEMMA RecordStep ==
  ASSUME SizeInv, NEW r \in Requests, NEW c, call' = [call EXCEPT ![r] = c]
  PROVE  call'[r] = c
  BY DEF SizeInv, Inv, Shapes

LEMMA EndServed ==
  ASSUME SizeInv, NEW r \in Requests, End(r)
  PROVE  call'[r].at = "done" /\ call'[r].born \in 0..epoch /\ Reserved(call[r])'
<1> DEFINE c == [Idle EXCEPT !.at = "done"]
<1>1. call'[r] = c
  BY RecordStep DEF End
<1>2. c.at = "done" /\ c.born = 0
  BY DEF Idle
<1>3. QED
  BY <1>1, <1>2 DEF Reserved, TouchRoom, SizeInv, Dated

LEMMA GoServed ==
  ASSUME SizeInv, NEW r \in Requests, NEW at, Go(r, at),
         at \notin {"write", "evict", "touch"}
  PROVE  call'[r].born \in 0..epoch /\ Reserved(call[r])'
<1> DEFINE c == [call[r] EXCEPT !.at = at]
<1>1. call'[r] = c
  BY RecordStep DEF Go
<1>2. c.at = at /\ c.born = call[r].born
  BY RecordFields
<1>3. QED
  BY <1>1, <1>2 DEF Reserved, TouchRoom, SizeInv, Dated

\* The two reads that lead to a touch find an entry that lives, or one that is
\* in no index.
LEMMA ExactMatchServed ==
  ASSUME SizeInv, NEW r \in Requests, ExactMatch(r)
  PROVE  Served(r)
<1>0. /\ \A s \in Requests \ {r} : call'[s] = call[s]
      /\ call[r].at # "done" /\ UNCHANGED << meta, idx, epoch >>
  BY OthersStill DEF ExactMatch, Serve, At, StartDrop, cacheVars
<1>1. CASE Go(r, "embed")
  BY <1>0, <1>1, GoServed, PlainServed
<1>2. CASE /\ ExactHit(Q(r))
           /\ call' = [call EXCEPT ![r].at = "touch", ![r].hits = meta[Q(r)].hits + 1,
                 ![r].born = meta[Q(r)].born,
                 ![r].best = [Candidate(Q(r)) EXCEPT !.hits = 0]]
  <2> DEFINE best == [Candidate(Q(r)) EXCEPT !.hits = 0]
             c == [call[r] EXCEPT !.at = "touch", !.hits = meta[Q(r)].hits + 1,
                                  !.born = meta[Q(r)].born, !.best = best]
  <2>1. call' = [call EXCEPT ![r] = c]
    BY <1>2
  <2>2. call'[r] = c
    BY <2>1, RecordStep
  <2>3. best.query = Q(r)
    BY DEF Candidate
  <2>4. c.at = "touch" /\ c.born = meta[Q(r)].born /\ c.best.query = Q(r)
    BY <2>3, RecordFields
  <2>5. Q(r) \in DOMAIN meta /\ Q(r) \in Valid
    BY <1>2 DEF ExactHit, Has, Valid, SizeInv, Filed
  <2>6. Q(r) \in Valid'
    BY <1>0, <2>5 DEF Valid, Has, Old
  <2>7. Reserved(call[r])'
    BY <2>2, <2>4, <2>6 DEF Reserved, TouchRoom
  <2>8. call'[r].born \in 0..epoch
    BY <2>2, <2>4, <2>5 DEF SizeInv, Dated
  <2>9. QED
    BY <1>0, <2>7, <2>8, PlainServed
<1>3. QED
  BY <1>1, <1>2 DEF ExactMatch

LEMMA ReadMetaServed ==
  ASSUME SizeInv, NEW r \in Requests, ReadMeta(r)
  PROVE  Served(r)
<1>0. /\ \A s \in Requests \ {r} : call'[s] = call[s]
      /\ call[r].at # "done" /\ UNCHANGED << meta, idx, epoch >>
  BY OthersStill DEF ReadMeta, Serve, At, cacheVars
<1> DEFINE q == call[r].best.query
           c == [call[r] EXCEPT !.at = "touch", !.hits = call[r].best.hits + 1,
                                !.born = meta[q].born]
<1>1. call' = [call EXCEPT ![r] = c]
  BY DEF ReadMeta
<1>2. call'[r] = c
  BY <1>1, RecordStep
<1>3. c.at = "touch" /\ c.born = meta[q].born /\ c.best = call[r].best
  BY RecordFields
<1>4. q \in DOMAIN meta
  BY DEF ReadMeta, Has
<1>5. ~(meta[q].born < epoch) => q \in Valid' \/ q \notin idx'
  BY <1>0, <1>4 DEF Valid, Has, Old
<1>6. call'[r].at = "touch" /\ call'[r].born = meta[q].born /\ call'[r].best.query = q
  BY <1>2, <1>3
<1>7. Reserved(call[r])'
  BY <1>0, <1>5, <1>6 DEF Reserved, TouchRoom
<1>8. call'[r].born \in 0..epoch
  BY <1>4, <1>6 DEF SizeInv, Dated
<1>9. QED
  BY <1>0, <1>7, <1>8, PlainServed

\* A touch.
LEMMA AnswerServed ==
  ASSUME SizeInv, NEW r \in Requests, AnswerFromCache(r)
  PROVE  Served(r)
<1>0. \A s \in Requests \ {r} : call'[s] = call[s]
  BY OthersStill DEF Serve
<1>1. PICK q : q = call[r].best.query
  OBVIOUS
<1>2. PICK m : m = Touched([born |-> call[r].born], call[r].hits)
  OBVIOUS
<1>3. m.born = call[r].born
  BY <1>2 DEF Touched
<1>4. /\ meta' = Put(meta, q, m) /\ idx' = idx /\ epoch' = epoch
      /\ call[r].at = "touch" /\ End(r)
  BY <1>1, <1>2 DEF AnswerFromCache, Touch, At
<1>5. /\ r \in Active /\ r \notin Active' /\ Active' \subseteq Active
      /\ call'[r].born \in 0..epoch /\ Reserved(call[r])'
  BY <1>0, <1>4, EndServed, ActiveStep
<1>6. q \in idx /\ ~Old(m) => q \in Valid \/ Room({})
  BY <1>1, <1>3, <1>4 DEF SizeInv, Reserved, TouchRoom, Old
<1>7. OneKey(q)
  BY <1>4, <1>5, <1>6, PutKeys
<1>8. m.born \in 0..epoch
  BY <1>3 DEF SizeInv, Dated
<1>9. \A k \in DOMAIN meta' : meta'[k].born \in 0..epoch'
  BY <1>4, <1>8, MetaDated DEF SizeInv
<1>10. QED
  BY <1>4, <1>5, <1>7, <1>9 DEF Served

\* The write.
LEMMA StoreServed ==
  ASSUME SizeInv, NEW r \in Requests, StoreAnswer(r)
  PROVE  Served(r)
<1>0. \A s \in Requests \ {r} : call'[s] = call[s]
  BY OthersStill DEF Serve
<1>1. PICK q : q = Q(r)
  OBVIOUS
<1>2. PICK m : m = NewMeta
  OBVIOUS
<1>3. m.born = epoch
  BY <1>2 DEF NewMeta
<1>4. /\ meta' = Put(meta, q, m) /\ idx' = idx \cup {q} /\ epoch' = epoch
      /\ call[r].at = "write" /\ End(r)
  BY <1>1, <1>2 DEF StoreAnswer, WriteEntry, At, EndStore
<1>5. /\ r \in Active /\ r \notin Active' /\ Active' \subseteq Active
      /\ call'[r].born \in 0..epoch /\ Reserved(call[r])'
  BY <1>0, <1>4, EndServed, ActiveStep
<1>6. epoch \in Nat /\ ~Old(m) /\ m.born \in 0..epoch
  BY <1>3 DEF SizeInv, Dated, Old
<1>7. Room({})
  BY <1>4 DEF SizeInv, Reserved
<1>8. OneKey(q)
  BY <1>4, <1>5, <1>6, <1>7, PutKeys
<1>9. \A k \in DOMAIN meta' : meta'[k].born \in 0..epoch'
  BY <1>4, <1>6, MetaDated DEF SizeInv
<1>10. QED
  BY <1>4, <1>5, <1>8, <1>9 DEF Served

\* The count: a place is there for every active request, or the eviction begins.
LEMMA CountServed ==
  ASSUME SizeInv, NEW r \in Requests, CountEntries(r)
  PROVE  Served(r)
<1>0. /\ \A s \in Requests \ {r} : call'[s] = call[s]
      /\ call[r].at # "done" /\ UNCHANGED << meta, idx, epoch >>
  BY OthersStill DEF CountEntries, Serve, At, cacheVars
<1>1. CASE MustEvict
  <2>1. Go(r, "pick")
    BY <1>1 DEF CountEntries
  <2>2. QED
    BY <1>0, <2>1, GoServed, PlainServed
<1>2. CASE ~MustEvict
  <2> DEFINE c == [call[r] EXCEPT !.at = "write"]
  <2>1. call' = [call EXCEPT ![r] = c]
    BY <1>2 DEF CountEntries, Go
  <2>2. call'[r] = c
    BY <2>1, RecordStep
  <2>3. c.at = "write" /\ c.born = call[r].born
    BY RecordFields
  <2>4. Cardinality(Valid) <= CacheCapacity - 1 /\ Cardinality(Valid) \in Nat
    BY <1>2, Finite, FewerCount, QueryAssumption DEF MustEvict
  <2>5. /\ Cardinality(Active) <= Cardinality(Requests)
        /\ Cardinality(Active) \in Nat /\ Cardinality(Requests) \in Nat
    BY FewerCount, QueryAssumption DEF Active
  <2>6. Room({})
    <3>1. Valid \ {} = Valid
      OBVIOUS
    <3>2. QED
      BY <2>4, <2>5, <3>1, QueryAssumption DEF Room, MaxLive
  <2>7. Room({})'
    <3>1. PICK q : OneKey(q)
      BY <1>0, SameKeys, ActiveStep
    <3>2. QED
      BY <2>6, <3>1, RoomStays
  <2>8. Reserved(call[r])'
    BY <2>2, <2>3, <2>7 DEF Reserved, TouchRoom
  <2>9. call'[r].born \in 0..epoch
    BY <2>2, <2>3 DEF SizeInv, Dated
  <2>10. QED
    BY <1>0, <2>8, <2>9, PlainServed
<1>3. QED
  BY <1>1, <1>2

LEMMA PickServed ==
  ASSUME SizeInv, NEW r \in Requests, PickVictims(r)
  PROVE  Served(r)
<1>0. /\ \A s \in Requests \ {r} : call'[s] = call[s]
      /\ call[r].at # "done" /\ UNCHANGED << meta, idx, epoch >>
  BY OthersStill DEF PickVictims, Serve, At, cacheVars
<1>1. PICK qs \in Victims : call' = [call EXCEPT ![r].at = "evict", ![r].left = qs]
  BY DEF PickVictims
<1> DEFINE c == [call[r] EXCEPT !.at = "evict", !.left = qs]
<1>2. call' = [call EXCEPT ![r] = c]
  BY <1>1
<1>3. call'[r] = c
  BY <1>2, RecordStep
<1>4. c.at = "evict" /\ c.left = qs /\ c.born = call[r].born
  BY RecordFields
<1>5. /\ IsFiniteSet(Entries) /\ qs \subseteq Entries /\ Valid \subseteq Entries
      /\ \/ Cardinality(qs) + CacheCapacity \div 2 = Cardinality(Entries)
         \/ qs = {} /\ Cardinality(Entries) < CacheCapacity \div 2
  BY Finite, FS_Subset DEF Victims, Entries, Valid
<1>6. Cardinality(Entries \ qs) = Cardinality(Entries) - Cardinality(qs)
  <2>1. Entries \cap qs = qs
    BY <1>5
  <2>2. QED
    BY <1>5, <2>1, FS_Difference
<1>7. /\ Cardinality(Entries) \in Nat /\ Cardinality(qs) \in Nat
      /\ IsFiniteSet(Entries \ qs) /\ Cardinality(Entries \ qs) \in Nat
  BY <1>5, FewerCount
<1>8. Cardinality(Entries \ qs) <= CacheCapacity - 1
  <2>1. /\ CacheCapacity \in Nat \ {0} /\ CacheCapacity \div 2 \in Nat
        /\ CacheCapacity \div 2 <= CacheCapacity - 1
    BY QueryAssumption
  <2>2. CASE qs = {} /\ Cardinality(Entries) < CacheCapacity \div 2
    <3>1. Entries \ qs = Entries
      BY <2>2
    <3>2. QED
      BY <1>7, <2>1, <2>2, <3>1
  <2>3. CASE Cardinality(qs) + CacheCapacity \div 2 = Cardinality(Entries)
    BY <1>6, <1>7, <2>1, <2>3
  <2>4. QED
    BY <1>5, <2>2, <2>3
<1>9. Cardinality(Valid \ qs) <= CacheCapacity - 1 /\ Cardinality(Valid \ qs) \in Nat
  <2>1. Valid \ qs \subseteq Entries \ qs
    BY <1>5
  <2>2. Cardinality(Valid \ qs) <= Cardinality(Entries \ qs) /\ Cardinality(Valid \ qs) \in Nat
    BY <1>7, <2>1, FewerCount
  <2>3. QED
    BY <1>7, <1>8, <2>2, QueryAssumption
<1>10. /\ Cardinality(Active) <= Cardinality(Requests)
       /\ Cardinality(Active) \in Nat /\ Cardinality(Requests) \in Nat
  BY FewerCount, QueryAssumption DEF Active
<1>11. Room(qs)
  BY <1>9, <1>10, QueryAssumption DEF Room, MaxLive
<1>12. Room(qs)'
  <2>1. PICK q : OneKey(q)
    BY <1>0, SameKeys, ActiveStep
  <2>2. QED
    BY <1>11, <2>1, RoomStays
<1>13. Reserved(call[r])'
  BY <1>3, <1>4, <1>12 DEF Reserved, TouchRoom, Room
<1>14. call'[r].born \in 0..epoch
  BY <1>3, <1>4 DEF SizeInv, Dated
<1>15. QED
  BY <1>0, <1>13, <1>14, PlainServed

\* An eviction takes from the entries what it takes from its list.
LEMMA EvictServed ==
  ASSUME SizeInv, NEW r \in Requests, EvictNext(r)
  PROVE  Served(r)
<1>0. /\ \A s \in Requests \ {r} : call'[s] = call[s]
      /\ call[r].at = "evict"
  BY OthersStill DEF EvictNext, Serve, At
<1>1. PICK gone : gone = call[r].left
  OBVIOUS
<1>2. Room(gone)
  BY <1>0, <1>1 DEF SizeInv, Reserved, Room
<1>3. CASE call[r].left = {} /\ Go(r, "write") /\ UNCHANGED cacheVars
  <2> DEFINE c == [call[r] EXCEPT !.at = "write"]
  <2>1. call' = [call EXCEPT ![r] = c]
    BY <1>3 DEF Go
  <2>2. call'[r] = c
    BY <2>1, RecordStep
  <2>3. c.at = "write" /\ c.born = call[r].born
    BY RecordFields
  <2>4. PICK q : OneKey(q)
    BY <1>0, <1>3, SameKeys, ActiveStep DEF cacheVars
  <2>5. Room({})'
    BY <1>1, <1>2, <1>3, <2>4, RoomStays
  <2>6. Reserved(call[r])'
    BY <2>2, <2>3, <2>5 DEF Reserved, TouchRoom
  <2>7. call'[r].born \in 0..epoch
    BY <2>2, <2>3 DEF SizeInv, Dated
  <2>8. QED
    BY <1>0, <1>3, <2>6, <2>7, PlainServed DEF cacheVars
<1>4. ASSUME NEW q \in call[r].left, Evict(q), call' = [call EXCEPT ![r].left = @ \ {q}]
      PROVE  Served(r)
  <2> DEFINE c == [call[r] EXCEPT !.left = @ \ {q}]
  <2>1. call' = [call EXCEPT ![r] = c]
    BY <1>4
  <2>2. call'[r] = c
    BY <2>1, RecordStep
  <2>3. c.at = "evict" /\ c.born = call[r].born /\ c.left = gone \ {q}
    BY <1>0, <1>1, RecordFields
  <2>4. Active' \subseteq Active
    BY <1>0, ActiveStep
  <2>5. OneKey(q) /\ q \notin Valid'
    BY <1>4, <2>4, GoneKeys DEF Evict
  <2>6. Room(gone)'
    BY <1>2, <2>5, RoomStays
  <2>7. Valid' \ gone = Valid' \ (gone \ {q})
    BY <2>5
  <2>8. Reserved(call[r])'
    BY <2>2, <2>3, <2>6, <2>7 DEF Reserved, TouchRoom, Room
  <2>9. call'[r].born \in 0..epoch
    BY <2>2, <2>3 DEF SizeInv, Dated
  <2>10. \A k \in DOMAIN meta' : meta'[k].born \in 0..epoch'
    BY <1>4, MetaDated DEF Evict, SizeInv
  <2>11. QED
    BY <1>4, <2>5, <2>8, <2>9, <2>10 DEF Served, Evict
<1>5. QED
  BY <1>3, <1>4 DEF EvictNext

\* The other steps claim no place.
LEMMA OtherServed ==
  ASSUME SizeInv, NEW r \in Requests,
         \/ ExtractCode(r) \/ StartSemantic(r) \/ SemanticError(r) \/ ScanCandidate(r)
         \/ SemanticVerdict(r) \/ RunChain(r) \/ StreamRefusal(r) \/ RunStream(r)
         \/ RunFails(r) \/ StoreFails(r)
  PROVE  Served(r)
<1>0. /\ \A s \in Requests \ {r} : call'[s] = call[s]
      /\ call[r].at # "done" /\ UNCHANGED << meta, idx, epoch >>
  <2>1. \A s \in Requests \ {r} : call'[s] = call[s]
    BY OthersStill DEF Serve
  <2>2. call[r].at # "done" /\ UNCHANGED << meta, idx, epoch >>
    BY DEF ExtractCode, StartSemantic, SemanticError, ScanCandidate, SemanticVerdict,
       RunChain, StreamRefusal, RunStream, RunFails, StoreFails, At, cacheVars
  <2>3. QED
    BY <2>1, <2>2
<1>1. ASSUME Go(r, "exact") \/ Go(r, "run") \/ Go(r, "meta") \/ Go(r, "store")
      PROVE  Served(r)
  <2>1. PICK at \in {"exact", "run", "meta", "store"} : Go(r, at)
    BY <1>1
  <2>2. call'[r].born \in 0..epoch /\ Reserved(call[r])'
    BY <2>1, GoServed
  <2>3. QED
    BY <1>0, <2>2, PlainServed
<1>2. ASSUME End(r) PROVE Served(r)
  BY <1>0, <1>2, EndServed, PlainServed
\* The scan: the place may change, the date does not.
<1>3. ASSUME NEW c, call' = [call EXCEPT ![r] = c], c.born = call[r].born,
             c.at \in {"run", "scan"}
      PROVE  Served(r)
  <2>1. call'[r] = c
    BY <1>3, RecordStep
  <2>2. Reserved(call[r])'
    BY <1>3, <2>1 DEF Reserved, TouchRoom
  <2>3. call'[r].born \in 0..epoch
    BY <1>3, <2>1 DEF SizeInv, Dated
  <2>4. QED
    BY <1>0, <2>2, <2>3, PlainServed
<1>4. CASE StartSemantic(r)
  <2>1. PICK at \in {"run", "scan"}, batch \in Batches :
          call' = [call EXCEPT ![r].at = at, ![r].left = batch]
    BY <1>4 DEF StartSemantic
  <2> DEFINE c == [call[r] EXCEPT !.at = at, !.left = batch]
  <2>2. call' = [call EXCEPT ![r] = c] /\ c.born = call[r].born /\ c.at = at
    BY <2>1, RecordFields
  <2>3. QED
    BY <1>3, <2>2
<1>5. CASE ScanCandidate(r)
  <2>1. PICK q, best :
          call' = [call EXCEPT ![r].left = @ \ {q}, ![r].best = best]
    BY <1>5 DEF ScanCandidate
  <2> DEFINE c == [call[r] EXCEPT !.left = @ \ {q}, !.best = best]
  <2>2. call' = [call EXCEPT ![r] = c] /\ c.born = call[r].born /\ c.at = call[r].at
    BY <2>1, RecordFields
  <2>3. QED
    BY <1>3, <1>5, <2>2 DEF ScanCandidate, At
<1>6. CASE SemanticVerdict(r)
  <2>1. CASE Go(r, "meta")
    BY <1>1, <2>1
  <2>2. CASE call' = [call EXCEPT ![r].at = "run", ![r].best = NoCandidate]
    <3> DEFINE c == [call[r] EXCEPT !.at = "run", !.best = NoCandidate]
    <3>1. call' = [call EXCEPT ![r] = c] /\ c.born = call[r].born /\ c.at = "run"
      BY <2>2, RecordFields
    <3>2. QED
      BY <1>3, <3>1
  <2>3. QED
    BY <1>6, <2>1, <2>2 DEF SemanticVerdict
<1>7. CASE ExtractCode(r) \/ SemanticError(r) \/ RunChain(r) \/ RunStream(r)
  BY <1>1, <1>7 DEF ExtractCode, SemanticError, RunChain, RunStream
<1>8. CASE StreamRefusal(r) \/ RunFails(r) \/ StoreFails(r)
  BY <1>2, <1>8 DEF StreamRefusal, RunFails, Fail, StoreFails, EndStore
<1>9. QED
  BY <1>4, <1>5, <1>6, <1>7, <1>8

LEMMA ServeServed ==
  ASSUME SizeInv, NEW r \in Requests, Serve(r), ~Crash
  PROVE  Served(r)
<1>1. ~ExtractRaces(r) /\ ~MetaGone(r)
  BY DEF ExtractRaces, MetaGone
<1>2. QED
  BY <1>1, OtherServed, ExactMatchServed, ReadMetaServed, AnswerServed, StoreServed,
     CountServed, PickServed, EvictServed DEF Serve

\* What has been served leaves the other requests their places.
LEMMA ServedSize ==
  ASSUME SizeInv, NEW r \in Requests, Serve(r), Served(r), Inv', Filed'
  PROVE  SizeInv'
<1>1. PICK q : OneKey(q)
  BY DEF Served
<1>2. Inv' /\ Filed'
  OBVIOUS
<1>3. \A s \in Requests \ {r} : call'[s] = call[s]
  BY OthersStill
<1>4. ASSUME NEW s \in Requests \ {r} PROVE Reserved(call[s])'
  <2>1. PICK c : c = call[s]
    OBVIOUS
  <2>2. Reserved(c)
    BY <2>1 DEF SizeInv
  <2>3. Reserved(c)'
    BY <1>1, <2>2, StillReserved
  <2>4. c = call'[s]
    BY <1>3, <1>4, <2>1
  <2>5. QED
    BY <2>3, <2>4 DEF Reserved, TouchRoom
<1>5. Dated'
  BY <1>3 DEF Served, Dated, SizeInv
<1>6. /\ IsFiniteSet(idx') /\ Cardinality(Valid') <= MaxLive
      /\ Cardinality(Valid') + Cardinality(Active') <= MaxLive + 1
  BY <1>1, BoundsStay
<1>7. MaxLive' = MaxLive
  BY DEF MaxLive
<1>8. QED
  BY <1>2, <1>4, <1>5, <1>6, <1>7 DEF SizeInv, Served

-----------------------------------------------------------------------------
(* The other steps.                                                        *)

\* Steps that leave the requests alone and only take entries away.
LEMMA FewerLive ==
  ASSUME SizeInv, call' = call, IsFiniteSet(idx'), Valid' \subseteq Valid, NEW gone
  PROVE  /\ Room(gone) => Room(gone)'
         /\ Cardinality(Valid') <= MaxLive
         /\ Cardinality(Valid') + Cardinality(Active') <= MaxLive + 1
<1>1. Active' = Active /\ MaxLive' = MaxLive /\ MaxLive \in Nat
  BY Finite DEF Active, MaxLive
<1>2. Cardinality(Active) \in Nat
  BY Finite, FS_CardinalityType
<1>3. /\ Cardinality(Valid') <= Cardinality(Valid)
      /\ Cardinality(Valid') \in Nat /\ Cardinality(Valid) \in Nat
  BY Finite, FewerCount
<1>4. /\ Cardinality(Valid' \ gone) <= Cardinality(Valid \ gone)
      /\ Cardinality(Valid' \ gone) \in Nat /\ Cardinality(Valid \ gone) \in Nat
  <2>1. Valid' \ gone \subseteq Valid \ gone /\ IsFiniteSet(Valid \ gone)
    BY Finite, FewerCount
  <2>2. QED
    BY <2>1, FewerCount
<1>5. Cardinality(Valid') <= MaxLive
  BY <1>1, <1>3 DEF SizeInv
<1>6. Cardinality(Valid') + Cardinality(Active') <= MaxLive + 1
  BY <1>1, <1>2, <1>3 DEF SizeInv
<1>7. Room(gone) => Room(gone)'
  BY <1>1, <1>2, <1>4 DEF Room
<1>8. QED
  BY <1>5, <1>6, <1>7

\* The deletions that were begun, and the keys whose TTL has run out.
LEMMA GoneSize ==
  ASSUME SizeInv, NEW q, Inv', Filed', call' = call, epoch' = epoch,
         meta' = meta \/ meta' = Without(meta, q), idx' = idx \/ idx' = idx \ {q}
  PROVE  SizeInv'
<1>1. OneKey(q)
  BY GoneKeys DEF Active
<1>2. ASSUME NEW s \in Requests PROVE Reserved(call[s])'
  <2>1. PICK c : c = call[s]
    OBVIOUS
  <2>2. Reserved(c)
    BY <2>1 DEF SizeInv
  <2>3. Reserved(c)'
    BY <1>1, <2>2, StillReserved
  <2>4. QED
    BY <2>1, <2>3 DEF Reserved, TouchRoom
<1>3. Dated'
  BY MetaDated DEF Dated, SizeInv
<1>4. /\ IsFiniteSet(idx') /\ Cardinality(Valid') <= MaxLive
      /\ Cardinality(Valid') + Cardinality(Active') <= MaxLive + 1
  BY <1>1, BoundsStay
<1>5. MaxLive' = MaxLive
  BY DEF MaxLive
<1>6. QED
  BY <1>2, <1>3, <1>4, <1>5 DEF SizeInv

\* A TTL period ages every entry, and what was read of it.
LEMMA AgedSize ==
  ASSUME SizeInv, Inv', Filed', call' = call, TTLPasses
  PROVE  SizeInv'
<1>1. epoch' = epoch + 1 /\ meta' = meta /\ idx' = idx /\ epoch \in Nat
  BY DEF TTLPasses, SizeInv, Dated
<1>2. Dated'
  BY <1>1 DEF SizeInv, Dated
<1>3. Valid' \subseteq Valid
  BY <1>1 DEF Valid, Has, Old, SizeInv, Dated
<1>4. \A gone : Room(gone) => Room(gone)'
  BY <1>1, <1>3, FewerLive DEF SizeInv
<1>5. ASSUME NEW s \in Requests PROVE Reserved(call[s])'
  <2>1. PICK c : c = call[s]
    OBVIOUS
  <2>2. Reserved(c) /\ c.born < epoch'
    BY <1>1, <2>1 DEF SizeInv, Dated
  <2>3. TouchRoom(c)'
    BY <2>2 DEF TouchRoom
  <2>4. (c.at = "write" => Room({})') /\ (c.at = "evict" => Room(c.left)')
    BY <1>4, <2>2 DEF Reserved
  <2>5. Reserved(c)'
    BY <2>3, <2>4 DEF Reserved, Room
  <2>6. QED
    BY <2>1, <2>5 DEF Reserved, TouchRoom
<1>6. /\ Cardinality(Valid') <= MaxLive
      /\ Cardinality(Valid') + Cardinality(Active') <= MaxLive + 1
  BY <1>1, <1>3, FewerLive DEF SizeInv
<1>7. MaxLive' = MaxLive
  BY DEF MaxLive
<1>8. QED
  BY <1>1, <1>2, <1>5, <1>6, <1>7 DEF SizeInv

LEMMA NextSize == SizeInv /\ [Next]_vars => SizeInv'
<1> SUFFICES ASSUME SizeInv, [Next]_vars PROVE SizeInv'
  OBVIOUS
<1>0. Inv' /\ Filed'
  BY NextInv, NextFiled DEF SizeInv
<1>1. ASSUME UNCHANGED << call, meta, idx, epoch >> PROVE SizeInv'
  BY <1>0, <1>1, GoneSize
<1>2. ASSUME NEW r \in Requests, Serve(r) PROVE SizeInv'
  <2>1. CASE Crash
    BY <1>1, <2>1 DEF Crash, cacheVars
  <2>2. CASE ~Crash
    BY <1>0, <1>2, <2>2, ServeServed, ServedSize
  <2>3. QED
    BY <2>1, <2>2
<1>3. CASE LoadCodes
  BY <1>1, <1>3 DEF LoadCodes, cacheVars
<1>4. CASE RedisStep
  <2>1. CASE TTLPasses
    BY <1>0, <1>4, <2>1, AgedSize DEF RedisStep
  <2>2. ASSUME NEW q, DropKeys(q) \/ Expire(q) PROVE SizeInv'
    <3>1. /\ epoch' = epoch
          /\ meta' = meta \/ meta' = Without(meta, q)
          /\ idx' = idx \/ idx' = idx \ {q}
      BY <2>2 DEF DropKeys, Expire
    <3>2. call' = call
      BY <1>4 DEF RedisStep
    <3>3. QED
      BY <1>0, <3>1, <3>2, GoneSize
  <2>3. QED
    BY <1>4, <2>1, <2>2 DEF RedisStep
<1>5. CASE UNCHANGED vars
  BY <1>1, <1>5 DEF vars, queryVars, cacheVars
<1>6. QED
  BY <1>2, <1>3, <1>4, <1>5 DEF Next

LEMMA InitSize == Init => SizeInv
<1> SUFFICES ASSUME Init PROVE SizeInv
  OBVIOUS
<1>1. Inv /\ Filed
  BY InitInv DEF Init, Filed
<1>2. PICK qs \in Stocked :
        /\ meta = [q \in qs |-> [born |-> 0, hits |-> 0, set |-> 0]]
        /\ idx = qs
  BY DEF Init
<1>3. \A r \in Requests : call[r].at = "start" /\ call[r].born = 0
  BY DEF Init, Idle
<1>4. Dated
  BY <1>2, <1>3 DEF Init, Dated
<1>5. /\ IsFiniteSet(idx) /\ Cardinality(idx) <= CacheCapacity
      /\ IsFiniteSet(Requests) /\ Requests # {} /\ CacheCapacity \in Nat \ {0}
  BY <1>2, QueryAssumption
<1>6. Cardinality(Requests) \in Nat /\ Cardinality(Requests) # 0
  BY <1>5, FS_CardinalityType, FS_EmptySet
<1>7. Active = Requests
  BY <1>3 DEF Active
<1>8. Cardinality(Valid) <= CacheCapacity /\ Cardinality(Valid) \in Nat
  <2>1. Valid \subseteq idx
    BY DEF Valid
  <2>2. Cardinality(Valid) <= Cardinality(idx) /\ Cardinality(Valid) \in Nat
        /\ Cardinality(idx) \in Nat
    BY <1>5, <2>1, FewerCount
  <2>3. QED
    BY <1>5, <2>2
<1>9. /\ Cardinality(Valid) <= MaxLive
      /\ Cardinality(Valid) + Cardinality(Active) <= MaxLive + 1
  BY <1>5, <1>6, <1>7, <1>8 DEF MaxLive
<1>10. \A r \in Requests : Reserved(call[r])
  BY <1>3 DEF Reserved, TouchRoom
<1>11. QED
  BY <1>1, <1>4, <1>5, <1>9, <1>10 DEF SizeInv

\* The live entries stay below the capacity of the cache but for one of each
\* request that is under way (SizeBound): what a writer adds, and what a late
\* touch brings back, it pays for by its end.
THEOREM SizeStaysBounded == Spec => []SizeBound
<1>1. SizeInv => SizeBound
  BY DEF SizeInv, SizeBound, MaxLive
<1>2. QED
  BY <1>1, InitSize, NextSize, PTL DEF Spec
=============================================================================
