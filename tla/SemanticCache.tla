--------------------------- MODULE SemanticCache ---------------------------
(* The semantic answer cache of the query service over Redis
   (internal/cache/semantic_cache.go): the answer, the vector and the metadata
   of a question under keys of their own, each with its own TTL, and a set that
   indexes the questions. Every Redis command, and every pipeline of one round
   trip, is a step; the reads of one candidate are one step.                 *)
EXTENDS Naturals, FiniteSets, Functions

CONSTANTS
  Questions,      \* what is asked; MD5 tells questions apart
  Score(_, _),    \* the cosine similarity of two questions
  Threshold,      \* similarityThreshold
  CacheCapacity,  \* maxCacheSize
  BatchSize       \* how many of the indexed questions a lookup considers

VARIABLES
  resp,    \* semantic_cache:resp:  question -> [text, set]
  vec,     \* semantic_cache:vec:   question -> [set]
  meta,    \* semantic_cache:meta:  question -> [born, hits, set]
  idx,     \* semantic_cache:idx
  drops,   \* the questions whose keys a goroutine is about to delete
  epoch    \* how many times a whole TTL has passed

cacheVars == << resp, vec, meta, idx, drops, epoch >>

(* set is the moment the key's TTL began, born the cached_at of the metadata. *)
NewResp(text) == [text |-> text, set |-> epoch]
NewVec == [set |-> epoch]
(* Mutant: cached_at lies ahead of the clock. *)
MutNewMeta == [born |-> epoch + 1, hits |-> 0, set |-> epoch]
NewMeta == [born |-> epoch, hits |-> 0, set |-> epoch]
Touched(m, hits) == [born |-> m.born, hits |-> hits, set |-> epoch]
Old(m) == m.born < epoch

Has(keys, q) == q \in DOMAIN keys
Without(keys, q) == Restrict(keys, DOMAIN keys \ {q})
Put(keys, q, value) ==
  [k \in DOMAIN keys \cup {q} |-> IF k = q THEN value ELSE keys[k]]

(* getExactMatch: what the pipelined GETs of answer and metadata make of q. An
   answer without metadata, which would panic in a nil map, is never there
   (FindableAnswers). *)
ExactMiss(q) == ~Has(resp, q)
ExactStale(q) == Has(resp, q) /\ Old(meta[q])
ExactHit(q) == Has(resp, q) /\ ~Old(meta[q])

(* An expired answer: a goroutine deletes the three keys; the question stays in
   the index. *)
StartDrop(q) ==
  /\ drops' = drops \cup {q}
  /\ UNCHANGED << resp, vec, meta, idx, epoch >>

DropKeys(q) ==
  /\ q \in drops
  /\ drops' = drops \ {q}
  /\ resp' = Without(resp, q) /\ vec' = Without(vec, q) /\ meta' = Without(meta, q)
  /\ UNCHANGED << idx, epoch >>

(* A hit writes the metadata it read back: the key gets a new TTL, cached_at
   stays. *)
Touch(q, seen, hits) ==
  /\ meta' = Put(meta, q, Touched(seen, hits))
  /\ UNCHANGED << resp, vec, idx, drops, epoch >>

(* getAllCandidates: the first BatchSize members of the index, in no order. *)
Batches == {qs \in SUBSET idx : \/ Cardinality(qs) = BatchSize
                                \/ qs = idx /\ Cardinality(idx) < BatchSize}
IsCandidate(q) ==
  Has(vec, q) /\ Has(meta, q) /\ Has(resp, q) /\ ~Old(meta[q])
Candidate(q) == [query |-> q, text |-> resp[q].text, hits |-> meta[q].hits]
NoText == [question |-> "none", by |-> "none"]
NoCandidate == [query |-> "none", text |-> NoText, hits |-> 0]

(* getSemanticMatch keeps the candidate with the highest positive score, any of
   them on a tie. *)
ScoreOf(q, candidate) == IF candidate = NoCandidate THEN 0 ELSE Score(q, candidate.query)
Better(q, best, other) ==
  IF ScoreOf(q, other) > ScoreOf(q, best) THEN {other}
  ELSE IF ScoreOf(q, other) = ScoreOf(q, best) /\ best # NoCandidate THEN {best, other}
  ELSE {best}
(* Mutant: the best candidate is taken however far it is. *)
MutIsMatch(q, best) == best # NoCandidate
IsMatch(q, best) == best # NoCandidate /\ ScoreOf(q, best) >= Threshold

(* Stats, the first half of checkAndEvict. *)
Valid == {q \in idx : Has(meta, q) /\ ~Old(meta[q])}
(* Mutant: one entry too many is let in. *)
MutMustEvict == Cardinality(Valid) > CacheCapacity
MustEvict == Cardinality(Valid) >= CacheCapacity

(* Its second half: the least used entries, down to half of the capacity. *)
Entries == {q \in idx : Has(meta, q)}
Victims ==
  {qs \in SUBSET Entries :
     /\ \/ Cardinality(qs) + CacheCapacity \div 2 = Cardinality(Entries)
        \/ qs = {} /\ Cardinality(Entries) < CacheCapacity \div 2
     /\ \A q \in qs, other \in Entries \ qs : meta[q].hits <= meta[other].hits}

(* Mutant: the answer is left behind. *)
MutEvict(q) ==
  /\ vec' = Without(vec, q) /\ meta' = Without(meta, q) /\ idx' = idx \ {q}
  /\ UNCHANGED << resp, drops, epoch >>
Evict(q) ==
  /\ resp' = Without(resp, q) /\ vec' = Without(vec, q) /\ meta' = Without(meta, q)
  /\ idx' = idx \ {q}
  /\ UNCHANGED << drops, epoch >>

(* The pipeline at the end of Set. *)
WriteEntry(q, text) ==
  /\ resp' = Put(resp, q, NewResp(text))
  /\ vec' = Put(vec, q, NewVec)
  /\ meta' = Put(meta, q, NewMeta)
  /\ idx' = idx \cup {q}
  /\ UNCHANGED << drops, epoch >>

(* A whole TTL passes; Redis drops the keys whose TTL has run out one by one.
   Metadata is never set before the answer and the vector are. *)
TTLPasses == epoch' = epoch + 1 /\ UNCHANGED << resp, vec, meta, idx, drops >>

Expire(q) ==
  /\ \/ /\ Has(resp, q) /\ resp[q].set < epoch
        /\ resp' = Without(resp, q) /\ UNCHANGED << vec, meta >>
     \/ /\ Has(vec, q) /\ vec[q].set < epoch
        /\ vec' = Without(vec, q) /\ UNCHANGED << resp, meta >>
     \/ /\ Has(meta, q) /\ meta[q].set < epoch /\ ~Has(resp, q) /\ ~Has(vec, q)
        /\ meta' = Without(meta, q) /\ UNCHANGED << resp, vec >>
  /\ UNCHANGED << idx, drops, epoch >>

(* An answer that Redis holds is in the index that lookups and evictions go by,
   and has its metadata: no order of touches, evictions, deletions and expiries
   leaves it out of reach, or where getExactMatch writes into a nil map. *)
FindableAnswers == DOMAIN resp \subseteq idx \cap DOMAIN meta
=============================================================================
