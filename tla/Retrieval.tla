----------------------------- MODULE Retrieval -----------------------------
(***************************************************************************)
(* HybridRetriever.Retrieve behind its two callers: a query, whose chunks   *)
(* go to the model and whose answer goes through the answer guard, and      *)
(* RetrieveEvidence, which the tools call.  Documents are imported at the   *)
(* same time, the request's context may end, the database may fail.         *)
(***************************************************************************)
EXTENDS AnswerGuard

CONSTANTS
    Requests,   \* what may be asked: [kind, stock, types, range, year, metric, local, stream]
    Drafts,     \* what the model may answer
    Samples,    \* the local sample documents, {} unless the server loads them
    TopK,       \* RAGQueryRequest.TopK
    Budget      \* bound: faults of the embedder, the database and the model

ASSUME RetrievalAssumption == TopK \in Nat \ {0} /\ Budget \in Nat /\ IsFiniteSet(Samples)

VARIABLES
    at,         \* where Retrieve, and then the query, is
    req,        \* the request
    types,      \* the document types of this round
    round,      \* rounds begun
    vector,     \* the goroutine of the vector search: where it is, what it found
    keyword,    \* the goroutine of the keyword search
    available,  \* the document types found for a second round
    blind,      \* listings of the document types that failed
    ended,      \* the request's context has ended
    found,      \* the chunks retrieved
    answer,     \* the query's answer
    status,     \* "none", "ok" or "error"
    budget

plan == <<types, round, available, blind>>
legs == <<vector, keyword>>
result == <<found, status>>
vars == <<at, req, plan, legs, ended, result, answer, budget, storeVars>>

DefaultTypes == {"announcement", "report", "news"}

(* normalizeRequest fills in the types of a query, not those of a tool's call. *)
Normalized(r) ==
    IF r.kind = "query" /\ r.types = {} THEN [r EXCEPT !.types = DefaultTypes] ELSE r

Leg(place, chunkSet) == [at |-> place, found |-> chunkSet]

Init ==
    /\ StoreInit
    /\ at = "start"
    /\ req \in {Normalized(r) : r \in Requests}
    /\ types = {} /\ round = 0 /\ available = {} /\ blind = 0
    /\ vector = Leg("off", {}) /\ keyword = Leg("off", {})
    /\ ended = FALSE
    /\ found = {} /\ status = "none" /\ answer = NoAnswer
    /\ budget = Budget

Filter == [stock |-> req.stock, types |-> types, range |-> req.range]
Top(n, s) == kSubset(Min({Cardinality(s), n}), s)

(* A call that holds the request's context fails once that has ended.       *)
Works == ~ended /\ UNCHANGED budget
Fails ==
    \/ ended /\ UNCHANGED budget
    \/ budget > 0 /\ budget' = budget - 1

(* matchesTimeRange lets a date it cannot read pass.                        *)
MatchesTimeRange(d) == req.range = "latest" \/ d.published # "old"
OfStock(d) == req.stock \in {d.stock, "GENERAL"}

MutMatchDocuments(ds, ts) ==   \* Mutant: the types are not looked at.
    {d \in ds : OfStock(d) /\ MatchesTimeRange(d) /\ MatchesDocument(req, d)}
MatchDocuments(ds, ts) ==
    {d \in ds : OfStock(d) /\ d.type \in ts /\ MatchesTimeRange(d) /\ MatchesDocument(req, d)}

ChunksFromDocuments(ds) == {[doc |-> Key(d), type |-> d.type, text |-> d.text] : d \in ds}

-----------------------------------------------------------------------------
(* Retrieve                                                                *)

(* What is retrieved goes to the query's chain, or back to the tool.        *)
Return(cs) ==
    /\ found' = cs
    /\ at' = IF req.kind = "query" THEN "generate" ELSE "done"
    /\ status' = IF req.kind = "query" THEN status ELSE "ok"

Go(place) == at' = place /\ UNCHANGED result
Fail == at' = "done" /\ status' = "error" /\ UNCHANGED found

(* performRetrieval begins by starting both searches.                       *)
StartRound(ts) ==
    /\ Go("gather")
    /\ types' = ts
    /\ round' = round + 1
    /\ vector' = Leg("search", {})
    /\ keyword' = Leg("search", {})

FirstTypes == IF req.types = {} THEN DefaultTypes ELSE req.types

Begin ==
    /\ at = "start"
    /\ IF req.local
       THEN /\ \E ds \in Top(TopK, MatchDocuments(Samples, FirstTypes)) :
                   Return(ChunksFromDocuments(ds))
            /\ UNCHANGED <<types, round, legs>>
       ELSE StartRound(FirstTypes)
    /\ touched' = {}
    /\ UNCHANGED <<req, available, blind, ended, answer, budget, docs, chunks, imports>>

(* retrieveByVectorSearch: whatever fails, it has found nothing.            *)
VectorSearch ==
    /\ vector.at = "search"
    /\ \/ /\ Works
          /\ \E cs \in ChunkQuery(Filter, TRUE, TopK) :
                 vector' = Leg("send", {c \in cs : MatchesChunk(req, c)})
       \/ Fails /\ vector' = Leg("send", {})
    /\ UNCHANGED <<at, req, plan, keyword, ended, result, answer, storeVars>>

(* retrieveByBM25 does not hold the request's context.  Without a hit, or    *)
(* when its query failed, it ranks every document that passes, the samples  *)
(* alone when they cannot be listed.                                        *)
KeywordHits(cs) == {c \in cs : MatchesChunk(req, c)}

KeywordSearch ==
    /\ keyword.at = "search"
    /\ \E cs \in ChunkQuery(Filter, FALSE, 4 * TopK) :
           \E kept \in Top(2 * TopK, KeywordHits(cs)) :
               keyword' = Leg(IF kept = {} THEN "list" ELSE "send", kept)
    /\ UNCHANGED <<at, req, plan, vector, ended, result, answer, budget, storeVars>>

(* BM25.Search ranks every document, those without a term of the question    *)
(* too, and keeps the first; their order is left open.                      *)
BM25Search(ds) == Top(2 * TopK, ds)

KeywordList ==
    /\ keyword.at = "list"
    /\ \E listed \in {ListDocuments, {}} :
           /\ \E ds \in BM25Search(MatchDocuments(Samples \cup listed, types)) :
                  keyword' = Leg("send", ChunksFromDocuments(ds))
           /\ IF listed = ListDocuments THEN UNCHANGED budget
              ELSE budget > 0 /\ budget' = budget - 1
    /\ UNCHANGED <<at, req, plan, vector, ended, result, answer, storeVars>>

(* mergeAndRankChunks: one chunk of each document, the vector search's where *)
(* it has one.  The scores, which rank them, are left open.                 *)
Candidates(k) ==
    LET near == {c \in vector.found : c.doc = k}
    IN  IF near # {} THEN near ELSE {c \in keyword.found : c.doc = k}

Merged ==
    LET keys == {c.doc : c \in vector.found \cup keyword.found}
        all == UNION {Candidates(k) : k \in keys}
    IN  {cs \in SUBSET all :
            /\ Cardinality(cs) = Min({Cardinality(keys), TopK})
            /\ \A c, d \in cs : c.doc = d.doc => c = d}

Merge ==
    /\ at = "gather" /\ vector.at = "send" /\ keyword.at = "send"
    /\ vector' = Leg("off", {}) /\ keyword' = Leg("off", {})
    /\ \E cs \in Merged : IF cs # {} THEN Return(cs) ELSE Go("fallback")
    /\ UNCHANGED <<req, plan, ended, answer, budget, storeVars>>

(* The context ends first: nobody receives from the goroutines any more.    *)
GiveUp ==
    /\ at = "gather" /\ ended
    /\ Fail
    /\ UNCHANGED <<req, plan, legs, ended, answer, budget, storeVars>>

(* The fallback search: its error, and documents that do not match after all, *)
(* lead to the scan of every document.                                      *)
MutAfterFallback(ds) == IF ds = {} THEN "list" ELSE "types"   \* Mutant: its documents end the search.
AfterFallback(ds) == "list"

FallbackSearch ==
    /\ at = "fallback"
    /\ \/ /\ Works
          /\ \E ds \in FallbackDocumentSearch(Filter, 4 * TopK) :
                 LET matched == MatchDocuments(ds, types)
                 IN  IF matched = {} THEN Go(AfterFallback(ds))
                     ELSE \E top \in Top(TopK, matched) : Return(ChunksFromDocuments(top))
       \/ Fails /\ Go(AfterFallback({}))
    /\ UNCHANGED <<req, plan, legs, ended, answer, storeVars>>

(* A request that named no types looks for those there are, once.           *)
Miss == IF req.types = {} /\ round = 1 THEN Go("types") ELSE Return({})

ListAll ==
    /\ at = "list"
    /\ \/ /\ Works
          /\ LET listed == MatchDocuments(ListDocuments, types)
                 matched == IF listed # {} THEN listed ELSE MatchDocuments(Samples, types)
             IN  IF matched = {} THEN Miss
                 ELSE \E top \in Top(TopK, matched) : Return(ChunksFromDocuments(top))
       \/ Fails /\ Fail
    /\ UNCHANGED <<req, plan, legs, ended, answer, storeVars>>

(* getAvailableDocTypes asks the database twice, and the samples; an error    *)
(* counts as no types.                                                      *)
Listing ==
    \/ Works /\ available' = available \cup ListAvailableDocTypes(req.stock) /\ UNCHANGED blind
    \/ Fails /\ blind' = blind + 1 /\ UNCHANGED available

ListTypes ==
    /\ at = "types"
    /\ Listing
    /\ Go("documents")
    /\ UNCHANGED <<req, types, round, legs, ended, answer, storeVars>>

Downgrade ==
    /\ at = "documents"
    /\ Listing
    /\ LET ts == available' \cup {d.type : d \in {s \in Samples : OfStock(s)}}
       IN  IF ts \in {{}, DefaultTypes}
           THEN Return({}) /\ UNCHANGED <<types, round, legs>>
           ELSE StartRound(ts)
    /\ UNCHANGED <<req, ended, answer, storeVars>>

-----------------------------------------------------------------------------
(* The query                                                               *)

(* A stream asks the guard before it asks the model.                        *)
RefuseStream ==
    /\ at = "generate" /\ req.stream /\ Guarded(req, found)
    /\ answer' = Refusal(req)
    /\ at' = "done" /\ status' = "ok"
    /\ UNCHANGED <<req, plan, legs, ended, found, budget, storeVars>>

Generate ==
    /\ at = "generate" /\ ~(req.stream /\ Guarded(req, found))
    /\ \/ /\ Works
          /\ \E draft \in Drafts : answer' \in ApplyAnswerGuard(req, found, draft)
          /\ at' = "done" /\ status' = "ok" /\ UNCHANGED found
       \/ Fails /\ Fail /\ UNCHANGED answer
    /\ UNCHANGED <<req, plan, legs, ended, storeVars>>

ContextEnds ==
    /\ at \notin {"start", "done"} /\ ~ended
    /\ ended' = TRUE
    /\ UNCHANGED <<at, req, plan, legs, result, answer, budget, storeVars>>

Next ==
    \/ Begin \/ VectorSearch \/ KeywordSearch \/ KeywordList \/ Merge \/ GiveUp
    \/ FallbackSearch \/ ListAll \/ ListTypes \/ Downgrade \/ RefuseStream \/ Generate
    \/ ContextEnds
    \/ at # "done" /\ Import /\ UNCHANGED <<at, req, plan, legs, ended, result, answer, budget>>

Spec == Init /\ [][Next]_vars

-----------------------------------------------------------------------------
(* Properties                                                              *)

Asked == IF req.types = {} /\ round = 2 THEN types ELSE FirstTypes
Versions(k) == {d \in Samples \cup UNION {Range(b) : b \in Range(Batches) \cup Stored} : Key(d) = k}

(* Whichever of the searches, fallbacks and rounds found it, and whatever is *)
(* imported in between, a chunk is of the stock and of a type asked for, of  *)
(* the year the question names, and speaks of its metric or belongs to a    *)
(* document that was once imported with it as a keyword (performRetrieval). *)
WithinFilters(c) ==
    /\ req.stock \in {c.doc.stock, "GENERAL"}
    /\ c.type \in MapDocTypes(Asked)
    /\ MatchesYear(req, c.doc.title, c.text)
    /\ Mentions(req, TitleText(c.doc.title).metrics \cup c.text.metrics
                     \cup UNION {d.keywords : d \in Versions(c.doc)})

FiltersKept == \A c \in found : WithinFilters(c)

(* A retrieval that succeeds with no chunk has missed nothing: no document   *)
(* that nobody wrote since it began meets the request, whichever of its     *)
(* calls failed; for a request that named no types no document of any type  *)
(* does, unless both listings of the types failed (Retrieve's downgrade).   *)
NothingMissed ==
    at \in {"generate", "done"} /\ status # "error" /\ found = {} /\ round > 0 =>
        \A d \in {e \in ListDocuments : Key(e) \notin touched} \cup Samples :
            OfStock(d) /\ MatchesTimeRange(d) /\ MatchesDocument(req, d) =>
                \/ d.type \notin FirstTypes /\ (req.types # {} \/ blind = 2)

(* An answer to a question with a year or a metric that is not the guard's   *)
(* refusal rests on a retrieved chunk that meets both; the guard's own      *)
(* answer cites one with a figure; the model's named the year or none; and  *)
(* the guard refuses only where no chunk has the figure (ApplyAnswerGuard). *)
AnswerGrounded ==
    at = "done" /\ req.kind = "query" /\ status = "ok" /\ HasConstraints(req) =>
        IF answer.by = "guard"
        THEN Evidence(req, found) = {}
        ELSE /\ \E c \in found : MatchesYear(req, c.doc.title, c.text)
                                 /\ Mentions(req, TitleText(c.doc.title).metrics \cup c.text.metrics)
             /\ answer.by = "evidence" => answer.cites \in {c.doc.title : c \in Evidence(req, found)}
             /\ answer.by = "model" => answer.years = {} \/ req.year \in answer.years \cup {0}
=============================================================================
