----------------------------- MODULE ExactCache -----------------------------
(* The exact-answer cache of the chat pipeline over Redis
   (internal/cache/exact_cache.go): one JSON entry per key under its own TTL, a
   set that indexes the keys, and the goroutines that clean up behind a caller.
   Every Redis command, and every pipeline of one round trip, is a step.      *)
EXTENDS Naturals, FiniteSets, Functions

CONSTANTS
  Callers,       \* the callers; each starts at most one job of a kind
  MaxCacheSize   \* maxCacheSize

ASSUME CacheAssumption == MaxCacheSize \in Nat \ {0}   \* 0 asks for the default

VARIABLES
  entries,   \* the entries Redis holds: key -> [text, hits, born, late]
  index,     \* the members of exact_cache:idx
  jobs,      \* the goroutines under way
  epoch      \* how many times a whole TTL has passed

cacheVars == << entries, index, jobs, epoch >>

(* born stands for cached_at. A hit writes the entry back with the TTL of the
   Redis key renewed and cached_at unchanged. late is history: a hit brought the
   entry back when it was already gone or expired. *)
NewEntry(text) == [text |-> text, hits |-> 0, born |-> epoch, late |-> FALSE]
NoEntry == [text |-> "", hits |-> 0, born |-> 0, late |-> FALSE]
Old(entry) == entry.born < epoch

Present(key) == key \in DOMAIN entries
Drop(keys) == Restrict(entries, DOMAIN entries \ keys)
Put(key, entry) ==
  [k \in DOMAIN entries \cup {key} |-> IF k = key THEN entry ELSE entries[k]]

Job(kind, by, key, text, left) ==
  [kind |-> kind, by |-> by, key |-> key, text |-> text, left |-> left]
NoText == ""

CacheInit == /\ entries = << >>
             /\ index = {}
             /\ jobs = {}
             /\ epoch = 0

(* The first half of Get: GET, and the verdict on what it returned. *)
Stale(key) == Present(key) /\ Old(entries[key])
Hit(key) == Present(key) /\ ~Old(entries[key])

(* An expired entry: the caller goes on as on a miss and leaves a goroutine
   that deletes the key and then removes it from the index. *)
StartDrop(by, key) ==
  /\ jobs' = jobs \cup {Job("del", by, key, NoText, {})}
  /\ UNCHANGED << entries, index, epoch >>

DropEntry(job) ==
  /\ job.kind = "del"
  /\ entries' = Drop({job.key})
  /\ jobs' = (jobs \ {job}) \cup {[job EXCEPT !.kind = "srem"]}
  /\ UNCHANGED << index, epoch >>

DropIndex(job) ==
  /\ job.kind = "srem"
  /\ index' = index \ {job.key}
  /\ jobs' = jobs \ {job}
  /\ UNCHANGED << entries, epoch >>

(* The second half of Get on a hit: the entry that was read is written back,
   whatever has become of the key since. *)
TouchEntry(key, seen) ==
  /\ entries' = Put(key, [seen EXCEPT !.hits = @ + 1,
                                      !.late = Hit(key) => entries[key].late])
  /\ UNCHANGED << index, jobs, epoch >>

(* Set, called from a goroutine: SET and SADD in one pipeline, then another
   goroutine that evicts. *)
StartSet(by, key, text) ==
  /\ jobs' = jobs \cup {Job("set", by, key, text, {})}
  /\ UNCHANGED << entries, index, epoch >>

WriteEntry(job) ==
  /\ job.kind = "set"
  /\ entries' = Put(job.key, NewEntry(job.text))
  /\ index' = index \cup {job.key}
  /\ jobs' = (jobs \ {job}) \cup {Job("count", job.by, job.key, NoText, {})}
  /\ UNCHANGED epoch

(* Redis refuses the pipeline: Set returns before it starts the eviction. *)
WriteFails(job) ==
  /\ job.kind = "set"
  /\ jobs' = jobs \ {job}
  /\ UNCHANGED << entries, index, epoch >>

(* Stats: the indexed entries that are there and not expired. *)
ValidKeys == {key \in index : Hit(key)}

(* Mutant: one entry too many is let in. *)
MutEvictCount(job) ==
  /\ job.kind = "count"
  /\ jobs' = (jobs \ {job}) \cup
       IF Cardinality(ValidKeys) <= MaxCacheSize THEN {}
                                                 ELSE {[job EXCEPT !.kind = "scan"]}
  /\ UNCHANGED << entries, index, epoch >>
(* checkAndEvict counts, *)
EvictCount(job) ==
  /\ job.kind = "count"
  /\ jobs' = (jobs \ {job}) \cup
       IF Cardinality(ValidKeys) < MaxCacheSize THEN {}
                                                ELSE {[job EXCEPT !.kind = "scan"]}
  /\ UNCHANGED << entries, index, epoch >>

(* then reads the indexed entries again and picks the least used, down to half
   of the capacity, *)
Indexed == {key \in index : Present(key)}
LeastUsed(keys) ==
  \A key \in keys, other \in Indexed \ keys : entries[key].hits <= entries[other].hits

EvictScan(job) ==
  /\ job.kind = "scan"
  /\ \E keys \in SUBSET Indexed :
       /\ Cardinality(keys) + MaxCacheSize \div 2 = Cardinality(Indexed)
          \/ (keys = {} /\ Cardinality(Indexed) < MaxCacheSize \div 2)
       /\ LeastUsed(keys)
       /\ jobs' = (jobs \ {job}) \cup
            IF keys = {} THEN {} ELSE {[job EXCEPT !.kind = "evict", !.left = keys]}
  /\ UNCHANGED << entries, index, epoch >>

(* and deletes them one pipeline at a time. *)
EvictEntry(job) ==
  /\ job.kind = "evict"
  /\ \E key \in job.left :
       /\ entries' = Drop({key})
       /\ index' = index \ {key}
       /\ jobs' = (jobs \ {job}) \cup
            IF job.left = {key} THEN {} ELSE {[job EXCEPT !.left = @ \ {key}]}
  /\ UNCHANGED epoch

RunJob(job) ==
  \/ DropEntry(job) \/ DropIndex(job) \/ WriteEntry(job)
  \/ EvictCount(job) \/ EvictScan(job) \/ EvictEntry(job)

(* Time: a whole TTL passes; Redis drops a key whose TTL has run out. Nothing
   removes the key from the index then. *)
TTLPasses ==
  /\ epoch' = epoch + 1
  /\ UNCHANGED << entries, index, jobs >>

Expire(key) ==
  /\ Stale(key)
  /\ entries' = Drop({key})
  /\ UNCHANGED << index, jobs, epoch >>

(* When no eviction is under way the index finds fewer live entries than
   MaxCacheSize (ExactCacheConfig.MaxCacheSize), not counting the ones that a
   hit wrote back too late: an eviction that raced with other writers has left
   the rest to theirs. *)
FreshKeys == {key \in ValidKeys : ~entries[key].late}
IndexedBound ==
  (~\E job \in jobs : job.kind \in {"count", "scan", "evict"})
    => Cardinality(FreshKeys) < MaxCacheSize
=============================================================================
