-------------------------- MODULE RetrievalProofs --------------------------
(***************************************************************************)
(* What retrieval and the tools on its evidence keep, for every document,   *)
(* request, draft and evidence of an agent's own.                           *)
(*                                                                          *)
(* FilterInv says of every chunk a search holds what FiltersKept says of    *)
(* the chunks returned, and that a row of the tables has the keywords of a  *)
(* version that was imported.  MissOk carries what one round has ruled out  *)
(* into the next, by the types that were found in between.  EvidenceOk ties *)
(* the evidence set to the chunks it was made of; FiguresInv holds from the *)
(* table on, and of nothing but the evidence it was extracted from.         *)
(***************************************************************************)
EXTENDS EvidenceTools, TLAPS, FiniteSetTheorems, WellFoundedInduction

\* The tables are finite, and a row has the keywords of one of its document's
\* versions.
RowsOk ==
    /\ IsFiniteSet(DOMAIN docs) /\ IsFiniteSet(DOMAIN chunks)
    /\ \A k \in DOMAIN docs :
           /\ k = [title |-> k.title, stock |-> k.stock]
           /\ \E d \in Versions(k) : docs[k].keywords = d.keywords

StoreOk == RowsOk /\ imports \in [DOMAIN Batches -> [at : Nat \ {0}, row : BOOLEAN]]

\* Where a round is, and what types it asks for.
RoundOk ==
    /\ round \in 0..2
    /\ at = "start" => round = 0
    /\ at \in {"gather", "fallback", "list", "types", "documents"} => round > 0
    /\ at \in {"types", "documents"} \/ round = 2 => req.types = {}
    /\ at \in {"types", "documents"} => round = 1
    /\ round > 0 => types = Asked
    /\ vector.at # "off" \/ keyword.at # "off" => round > 0

\* Every chunk is within the filters from the moment a search has found it.
ChunksOk ==
    /\ \A c \in vector.found \cup keyword.found : WithinFilters(c)
    /\ at \notin {"generate", "done"} => found = {}
    /\ at \in {"start", "fallback", "list", "types", "documents"} =>
           vector = Leg("off", {}) /\ keyword = Leg("off", {})

FilterInv == StoreOk /\ RoundOk /\ ChunksOk /\ FiltersKept

\* The documents nobody has written since the retrieval began, and those that
\* meet the request but for their type.
Untouched == {d \in ListDocuments : Key(d) \notin touched}
Old == Untouched \cup Samples
Fits(d) == OfStock(d) /\ MatchesTimeRange(d) /\ MatchesDocument(req, d)

\* Once the first round has found nothing none of them is of its types, and the
\* second one asks for the types of all of them, unless both listings failed.
MissOk ==
    /\ at \in {"types", "documents"} \/ round = 2 => \A d \in Old : Fits(d) => d.type \notin FirstTypes
    /\ blind \in 0..2
    /\ at \notin {"documents", "generate", "done"} /\ round < 2 => blind = 0
    /\ at = "documents" => blind < 2
    /\ at = "documents" /\ blind = 0 => \A d \in Untouched : OfStock(d) => d.type \in available
    /\ round = 2 /\ blind < 2 => \A d \in Untouched : OfStock(d) => d.type \in types
    /\ round = 2 => \A d \in Samples : OfStock(d) => d.type \in types
    /\ at # "done" => status # "error"

-----------------------------------------------------------------------------
(* The tables                                                              *)

\* A set of places in a sequence has a last one.
LEMMA MaxOf ==
    ASSUME NEW n \in Nat, NEW S \in SUBSET (1..n), S # {}
    PROVE  Max(S) \in S
<1> DEFINE Mirror == {m \in Nat : \E i \in S : m = n - i}
<1>1. PICK i \in S : TRUE
  OBVIOUS
<1>2. n - i \in Mirror
  OBVIOUS
<1>3. PICK m \in Mirror : \A x \in Mirror : ~(<<x, m>> \in OpToRel(<, Nat))
  <2>1. Mirror \subseteq Nat /\ Mirror # {}
    BY <1>2
  <2>2. QED
    BY <2>1, NatLessThanWellFounded, WFMin
<1>4. \A x \in Mirror : ~(x < m)
  BY <1>3 DEF OpToRel
<1>5. PICK j \in S : m = n - j
  OBVIOUS
<1>6. \A k \in S : j >= k
  <2> SUFFICES ASSUME NEW k \in S, ~(j >= k) PROVE FALSE
    OBVIOUS
  <2>1. n - k \in Mirror /\ n - k < m
    BY <1>5
  <2>2. QED
    BY <1>4, <2>1
<1>7. QED
  BY <1>6 DEF Max

\* What the elements of a finite set are mapped to is finite.
LEMMA ImageFinite ==
    ASSUME NEW S, IsFiniteSet(S), NEW T, NEW f \in [S -> T], \A t \in T : \E x \in S : f[x] = t
    PROVE  IsFiniteSet(T)
<1>1. f \in Surjection(S, T)
  BY DEF Surjection
<1>2. QED
  BY <1>1, FS_Surjection

LEMMA InitStore == StoreInit => StoreOk
<1> SUFFICES ASSUME StoreInit PROVE StoreOk
  OBVIOUS
<1>1. PICK batch \in Stored :
         /\ docs = [k \in {Key(d) : d \in Range(batch)} |-> LastRow(batch, k)]
         /\ chunks = [c \in {[doc |-> Key(batch[i]), index |-> i] : i \in DOMAIN batch} |->
                         batch[c.index].text]
  BY DEF StoreInit
<1>2. PICK n \in Nat : DOMAIN batch = 1..n /\ IsFiniteSet(1..n)
  BY StoreAssumption, FS_Interval
<1>3. DOMAIN docs = {Key(batch[i]) : i \in 1..n}
  BY <1>1, <1>2 DEF Range
<1>4. IsFiniteSet(DOMAIN docs)
  <2> DEFINE f == [i \in 1..n |-> Key(batch[i])]
  <2>1. f \in [1..n -> DOMAIN docs] /\ \A k \in DOMAIN docs : \E i \in 1..n : f[i] = k
    BY <1>3
  <2> HIDE DEF f
  <2>2. QED
    BY <1>2, <2>1, ImageFinite
<1>5. IsFiniteSet(DOMAIN chunks)
  <2> DEFINE f == [i \in 1..n |-> [doc |-> Key(batch[i]), index |-> i]]
  <2>1. f \in [1..n -> DOMAIN chunks] /\ \A c \in DOMAIN chunks : \E i \in 1..n : f[i] = c
    BY <1>1, <1>2
  <2> HIDE DEF f
  <2>2. QED
    BY <1>2, <2>1, ImageFinite
<1>6. ASSUME NEW k \in DOMAIN docs
      PROVE  k = [title |-> k.title, stock |-> k.stock] /\ \E d \in Versions(k) : docs[k].keywords = d.keywords
  <2> DEFINE own == Own(batch, k)
             last == Max(own)
             d == batch[last]
  <2>1. own \subseteq 1..n /\ own # {}
    BY <1>2, <1>3 DEF Own
  <2>2. last \in own
    BY <2>1, MaxOf
  <2>3. Key(d) = k /\ d \in Range(batch)
    BY <1>2, <2>2 DEF Own, Range
  <2>4. d \in Versions(k)
    BY <2>3 DEF Versions
  <2>5. docs[k].keywords = d.keywords
    BY <1>1 DEF LastRow, Row
  <2>6. QED
    BY <2>3, <2>4, <2>5 DEF Key
<1>7. imports \in [DOMAIN Batches -> [at : Nat \ {0}, row : BOOLEAN]]
  BY DEF StoreInit
<1>8. QED
  BY <1>4, <1>5, <1>6, <1>7 DEF StoreOk, RowsOk

LEMMA RecordIsVersion ==
    ASSUME StoreOk, NEW b \in DOMAIN Batches, Importing(b)
    PROVE  Record(b) \in Versions(Key(Record(b))) /\ imports[b].at \in Nat \ {0}
<1>1. Batches[b] \in Range(Batches) /\ Batches[b] \in Seq(Range(Batches[b]))
  BY StoreAssumption DEF Range
<1>2. imports[b].at \in 1..Len(Batches[b])
  BY <1>1 DEF StoreOk, Importing
<1>3. Record(b) \in Range(Batches[b])
  BY <1>1, <1>2 DEF Record, Range
<1>4. QED
  BY <1>1, <1>2, <1>3 DEF Versions

LEMMA PutFinite ==
    ASSUME NEW rows, IsFiniteSet(DOMAIN rows), NEW key, NEW row
    PROVE  IsFiniteSet(DOMAIN Put(rows, key, row))
BY FS_AddElement DEF Put

LEMMA StepStore ==
    ASSUME StoreOk, Import \/ UNCHANGED storeVars \/ UNCHANGED <<docs, chunks, imports>>
    PROVE  StoreOk'
<1>1. ASSUME NEW b \in DOMAIN Batches, UpsertDocument(b) PROVE StoreOk'
  <2> DEFINE d == Record(b)
  <2>1. d \in Versions(Key(d))
    BY <1>1, RecordIsVersion DEF UpsertDocument
  <2>2. docs' = Put(docs, Key(d), Row(d, docs)) /\ Row(d, docs).keywords = d.keywords
    BY <1>1 DEF UpsertDocument, WithRow, Row
  <2>3. IsFiniteSet(DOMAIN docs')
    BY <2>2, PutFinite DEF StoreOk, RowsOk
  <2>4. Key(d) = [title |-> Key(d).title, stock |-> Key(d).stock]
    BY DEF Key
  <2>5. \A k \in DOMAIN docs' :
           /\ k = [title |-> k.title, stock |-> k.stock]
           /\ \E e \in Versions(k) : docs'[k].keywords = e.keywords
    BY <2>1, <2>2, <2>4 DEF Put, StoreOk, RowsOk
  <2>6. imports' \in [DOMAIN Batches -> [at : Nat \ {0}, row : BOOLEAN]]
    BY <1>1 DEF UpsertDocument, StoreOk
  <2>7. QED
    BY <1>1, <2>3, <2>5, <2>6 DEF UpsertDocument, StoreOk, RowsOk
<1>2. ASSUME NEW b \in DOMAIN Batches, UpsertChunk(b) PROVE StoreOk'
  <2>1. IsFiniteSet(DOMAIN chunks')
    BY <1>2, PutFinite DEF UpsertChunk, WithChunk, StoreOk, RowsOk
  <2>2. imports' \in [DOMAIN Batches -> [at : Nat \ {0}, row : BOOLEAN]]
    BY <1>2, RecordIsVersion DEF UpsertChunk, StoreOk
  <2>3. QED
    BY <1>2, <2>1, <2>2 DEF UpsertChunk, StoreOk, RowsOk
<1>3. ASSUME NEW b \in DOMAIN Batches, UpsertFails(b) PROVE StoreOk'
  <2>1. Len(Batches[b]) + 1 \in Nat \ {0}
    BY StoreAssumption DEF Range
  <2>2. QED
    BY <1>3, <2>1 DEF UpsertFails, StoreOk, RowsOk
<1>4. CASE UNCHANGED storeVars \/ UNCHANGED <<docs, chunks, imports>>
  BY <1>4 DEF storeVars, StoreOk, RowsOk
<1>5. QED
  BY <1>1, <1>2, <1>3, <1>4 DEF Import

\* What ListDocuments returns is of a row, under the row's key.
LEMMA Listed ==
    ASSUME StoreOk, NEW d \in ListDocuments
    PROVE  /\ Key(d) \in DOMAIN docs /\ d = Document(Key(d))
           /\ \E e \in Versions(Key(d)) : d.keywords = e.keywords
<1>1. PICK k \in DOMAIN docs : d = Document(k)
  BY DEF ListDocuments
<1>2. k = [title |-> k.title, stock |-> k.stock]
  BY DEF StoreOk, RowsOk
<1>3. Key(d) = k /\ d.keywords = docs[k].keywords
  BY <1>1, <1>2 DEF Document, Key
<1>4. QED
  BY <1>1, <1>3 DEF StoreOk, RowsOk

\* A document whose row and chunks are as they were is listed as it was.
LEMMA SameDocument ==
    ASSUME NEW k, docs'[k] = docs[k], ChunksOf(k)' = ChunksOf(k),
           \A c \in ChunksOf(k) : chunks'[c] = chunks[c]
    PROVE  Document(k)' = Document(k)
<1>1. [c \in ChunksOf(k) |-> chunks[c]]' = [c \in ChunksOf(k) |-> chunks[c]]
  OBVIOUS
<1>2. Content(k)' = Content(k)
  BY <1>1 DEF Content
<1>3. QED
  BY <1>2 DEF Document

\* An import may take documents out of these, never add or change one.
LEMMA UntouchedShrinks ==
    ASSUME StoreOk, Import \/ UNCHANGED storeVars
    PROVE  Untouched' \subseteq Untouched
<1>1. CASE UNCHANGED storeVars
  <2>1. ListDocuments' = ListDocuments
    BY <1>1 DEF storeVars, ListDocuments, Document, Content, ChunksOf
  <2>2. QED
    BY <1>1, <2>1 DEF storeVars, Untouched
<1>2. ASSUME Import PROVE Untouched' \subseteq Untouched
  <2>1. touched \subseteq touched'
    BY <1>2 DEF Import, UpsertDocument, UpsertChunk, UpsertFails
  <2>2. ASSUME NEW k \in DOMAIN docs', k \notin touched'
        PROVE  k \in DOMAIN docs /\ Document(k)' = Document(k)
    <3>1. PICK b \in DOMAIN Batches : UpsertDocument(b) \/ UpsertChunk(b) \/ UpsertFails(b)
      BY <1>2 DEF Import
    <3>2. CASE UpsertDocument(b)
      <4>1. k # Key(Record(b)) /\ docs' = Put(docs, Key(Record(b)), Row(Record(b), docs)) /\ chunks' = chunks
        BY <2>2, <3>2 DEF UpsertDocument, WithRow
      <4>2. k \in DOMAIN docs /\ docs'[k] = docs[k]
        BY <2>2, <4>1 DEF Put
      <4>3. ChunksOf(k)' = ChunksOf(k)
        BY <4>1 DEF ChunksOf
      <4>4. QED
        BY <4>1, <4>2, <4>3, SameDocument
    <3>3. CASE UpsertChunk(b)
      <4> DEFINE key == [doc |-> Key(Record(b)), index |-> imports[b].at]
      <4>1. k # key.doc /\ chunks' = Put(chunks, key, Record(b).text) /\ docs' = docs
        BY <2>2, <3>3 DEF UpsertChunk, WithChunk
      <4> HIDE DEF key
      <4>2. ChunksOf(k)' = ChunksOf(k) /\ \A c \in ChunksOf(k) : chunks'[c] = chunks[c]
        BY <4>1 DEF ChunksOf, Put
      <4>3. QED
        BY <2>2, <4>1, <4>2, SameDocument
    <3>4. CASE UpsertFails(b)
      <4>1. docs' = docs /\ chunks' = chunks
        BY <3>4 DEF UpsertFails
      <4>2. QED
        BY <2>2, <4>1, SameDocument DEF ChunksOf
    <3>5. QED
      BY <3>1, <3>2, <3>3, <3>4
  <2>3. StoreOk'
    BY <1>2, StepStore
  <2>4. SUFFICES ASSUME NEW d \in Untouched' PROVE d \in Untouched
    OBVIOUS
  <2>5. PICK k \in DOMAIN docs' : d = Document(k)'
    BY <2>4 DEF Untouched, ListDocuments
  <2>6. k = [title |-> k.title, stock |-> k.stock]
    BY <2>3 DEF StoreOk, RowsOk
  <2>7. Key(d) = k
    BY <2>5, <2>6 DEF Document, Key
  <2>8. k \notin touched'
    BY <2>4, <2>7 DEF Untouched
  <2>9. QED
    BY <2>1, <2>2, <2>5, <2>7, <2>8 DEF Untouched, ListDocuments
<1>3. QED
  BY <1>1, <1>2

LEMMA StepTables ==
    ASSUME [Next]_vars
    PROVE  /\ Import \/ UNCHANGED <<docs, chunks, imports>>
           /\ at # "start" => Import \/ UNCHANGED storeVars
           /\ req' = req
BY DEF Next, vars, plan, legs, result, storeVars, Begin, VectorSearch, KeywordSearch, KeywordList,
       Merge, GiveUp, FallbackSearch, ListAll, ListTypes, Downgrade, RefuseStream, Generate, ContextEnds

-----------------------------------------------------------------------------
(* The filters                                                             *)

\* A document that matches makes a chunk within the filters.
LEMMA FromDocuments ==
    ASSUME StoreOk, NEW ts, ts = Asked, NEW all \in SUBSET (Samples \cup ListDocuments),
           NEW ds \in SUBSET MatchDocuments(all, ts), NEW c \in ChunksFromDocuments(ds)
    PROVE  WithinFilters(c)
<1>1. PICK d \in ds : c = [doc |-> Key(d), type |-> d.type, text |-> d.text]
  BY DEF ChunksFromDocuments
<1>2. /\ d \in all /\ req.stock \in {d.stock, "GENERAL"} /\ d.type \in Asked
      /\ MatchesDocument(req, d)
  BY DEF MatchDocuments, OfStock
<1>3. c.doc.title = d.title /\ c.doc.stock = d.stock /\ c.doc = Key(d) /\ c.type = d.type /\ c.text = d.text
  BY <1>1 DEF Key
<1>4. d.keywords \subseteq UNION {e.keywords : e \in Versions(c.doc)}
  <2>1. CASE d \in Samples
    <3>1. d \in Versions(c.doc)
      BY <1>3, <2>1 DEF Versions
    <3>2. QED
      BY <3>1
  <2>2. CASE d \in ListDocuments
    BY <1>3, <2>2, Listed
  <2>3. QED
    BY <1>2, <2>1, <2>2
<1>5. c.type \in MapDocTypes(Asked)
  BY <1>2, <1>3 DEF MapDocTypes
<1>6. QED
  BY <1>2, <1>3, <1>4, <1>5 DEF WithinFilters, MatchesDocument, Mentions

\* A chunk that a query finds and that matches is within the filters.
LEMMA FromChunks ==
    ASSUME StoreOk, types = Asked, NEW literal \in BOOLEAN, NEW limit,
           NEW cs \in ChunkQuery(Filter, literal, limit), NEW c \in cs, MatchesChunk(req, c)
    PROVE  WithinFilters(c)
<1>1. PICK place \in DOMAIN chunks :
         place.doc \in Rows(Filter, literal) /\ c = Chunk(place.doc, chunks[place])
  BY DEF ChunkQuery
<1>2. c.doc = place.doc /\ c.type = docs[place.doc].type
  BY <1>1 DEF Chunk
<1>3. req.stock \in {c.doc.stock, "GENERAL"} /\ c.type \in MapDocTypes(Asked)
  BY <1>1, <1>2 DEF Rows, Filter
<1>4. QED
  BY <1>3 DEF WithinFilters, MatchesChunk, Mentions

LEMMA TopOf == ASSUME NEW n, NEW S, NEW t \in Top(n, S) PROVE t \subseteq S
BY DEF Top, kSubset

LEMMA FiltersStay ==
    ASSUME NEW c, WithinFilters(c), UNCHANGED <<req, types, round>>
    PROVE  WithinFilters(c)'
<1>1. Asked' = Asked
  BY DEF Asked, FirstTypes
<1>2. QED
  BY <1>1 DEF WithinFilters, MatchesYear, Mentions

LEMMA InitFilters == ToolsInit => FilterInv
<1> SUFFICES ASSUME ToolsInit PROVE FilterInv
  OBVIOUS
<1>1. StoreOk
  BY InitStore DEF ToolsInit, Init
<1>2. RoundOk /\ ChunksOk /\ FiltersKept
  BY DEF ToolsInit, Init, RoundOk, ChunksOk, FiltersKept, Leg, Asked
<1>3. QED
  BY <1>1, <1>2 DEF FilterInv

LEMMA StepRound == ASSUME RoundOk, ChunksOk, [Next]_vars PROVE RoundOk'
<1> USE DEF RoundOk, Asked, FirstTypes
<1>0. req' = req
  BY StepTables
<1>1. CASE Begin
  BY <1>0, <1>1 DEF Begin, StartRound, Return, Go, legs
<1>2. CASE VectorSearch \/ KeywordSearch \/ KeywordList
  BY <1>0, <1>2 DEF VectorSearch, KeywordSearch, KeywordList, plan, Leg
<1>3. CASE Merge
  BY <1>0, <1>3 DEF Merge, Return, Go, plan, Leg
<1>4. CASE GiveUp \/ RefuseStream \/ Generate \/ ContextEnds
  BY <1>0, <1>4 DEF GiveUp, RefuseStream, Generate, ContextEnds, Fail, plan, legs
<1>5. CASE FallbackSearch
  BY <1>0, <1>5 DEF FallbackSearch, AfterFallback, Return, Go, plan, legs
<1>6. CASE ListAll
  BY <1>0, <1>6 DEF ListAll, Miss, Fail, Return, Go, plan, legs
<1>7. CASE ListTypes
  BY <1>0, <1>7 DEF ListTypes, Go, legs
<1>8. CASE Downgrade
  BY <1>0, <1>8 DEF Downgrade, StartRound, Return, Go, legs
<1>9. CASE UNCHANGED <<at, req, plan, legs>>
  BY <1>9 DEF plan, legs
<1>10. QED
  BY <1>1, <1>2, <1>3, <1>4, <1>5, <1>6, <1>7, <1>8, <1>9 DEF Next, vars

LEMMA StepFilters ==
    ASSUME StoreOk, RoundOk, ChunksOk, FiltersKept, [Next]_vars
    PROVE  ChunksOk' /\ FiltersKept'
<1> DEFINE Idle == {"start", "fallback", "list", "types", "documents"}
<1>0. req' = req
  BY StepTables
<1>a. \A chunkSet : Leg("off", chunkSet).found = chunkSet
  BY DEF Leg
<1>b. /\ at \in Idle => vector = Leg("off", {}) /\ keyword = Leg("off", {})
      /\ \A c \in vector.found \cup keyword.found : WithinFilters(c)
      /\ at \notin {"generate", "done"} => found = {}
  BY DEF ChunksOk
\* Most steps stay in their round.
<1>c. ASSUME UNCHANGED <<types, round>>,
             \A c \in vector'.found \cup keyword'.found : WithinFilters(c),
             \A c \in found' : WithinFilters(c),
             at' \in {"generate", "done"} \/ found' = {},
             at' \in Idle => vector' = Leg("off", {}) /\ keyword' = Leg("off", {})
      PROVE  ChunksOk' /\ FiltersKept'
  BY <1>0, <1>c, FiltersStay DEF ChunksOk, FiltersKept
<1>1. CASE Begin
  <2>1. CASE ~req.local
    <3>1. /\ at' = "gather" /\ found' = found
          /\ vector' = Leg("search", {}) /\ keyword' = Leg("search", {})
      BY <1>1, <2>1 DEF Begin, StartRound, Go, result
    <3>2. QED
      BY <1>1, <1>b, <3>1 DEF Begin, ChunksOk, FiltersKept, Leg
  <2>2. CASE req.local
    <3>1. PICK ds \in Top(TopK, MatchDocuments(Samples, FirstTypes)) :
             Return(ChunksFromDocuments(ds)) /\ UNCHANGED <<types, round, legs>>
      BY <1>1, <2>2 DEF Begin
    <3>2. ds \in SUBSET MatchDocuments(Samples, FirstTypes)
      BY <3>1, TopOf
    <3>3. FirstTypes = Asked
      BY <1>1 DEF Begin, RoundOk, Asked
    <3>4. \A c \in found' : WithinFilters(c)
      BY <3>1, <3>2, <3>3, FromDocuments DEF Return
    <3>5. at' \in {"generate", "done"} /\ vector' = vector /\ keyword' = keyword
      BY <3>1 DEF Return, legs
    <3>6. QED
      BY <1>b, <1>c, <3>1, <3>4, <3>5
  <2>3. QED
    BY <2>1, <2>2
<1>2. CASE VectorSearch
  <2>1. at \notin Idle /\ types = Asked
    BY <1>2, <1>b DEF VectorSearch, RoundOk, Leg
  <2>2. \A c \in vector'.found : WithinFilters(c)
    <3>1. CASE vector' = Leg("send", {})
      BY <3>1 DEF Leg
    <3>2. CASE \E cs \in ChunkQuery(Filter, TRUE, TopK) :
                  vector' = Leg("send", {c \in cs : MatchesChunk(req, c)})
      <4>1. PICK cs \in ChunkQuery(Filter, TRUE, TopK) :
               vector' = Leg("send", {c \in cs : MatchesChunk(req, c)})
        BY <3>2
      <4>2. SUFFICES ASSUME NEW c \in vector'.found PROVE WithinFilters(c)
        OBVIOUS
      <4>3. c \in cs /\ MatchesChunk(req, c)
        BY <4>1 DEF Leg
      <4>4. QED
        BY <2>1, <4>3, FromChunks
    <3>3. QED
      BY <1>2, <3>1, <3>2 DEF VectorSearch
  <2>3. UNCHANGED <<at, found, types, round, keyword>>
    BY <1>2 DEF VectorSearch, plan, result
  <2>4. QED
    BY <1>b, <1>c, <2>1, <2>2, <2>3 DEF FiltersKept
<1>3. CASE KeywordSearch
  <2>1. at \notin Idle /\ types = Asked
    BY <1>3, <1>b DEF KeywordSearch, RoundOk, Leg
  <2>2. PICK cs \in ChunkQuery(Filter, FALSE, 4 * TopK) : \E kept \in Top(2 * TopK, KeywordHits(cs)) :
           keyword' = Leg(IF kept = {} THEN "list" ELSE "send", kept)
    BY <1>3 DEF KeywordSearch
  <2>3. keyword'.found \subseteq KeywordHits(cs)
    BY <2>2, TopOf DEF Leg
  <2>4. \A c \in keyword'.found : WithinFilters(c)
    BY <2>1, <2>3, FromChunks DEF KeywordHits
  <2>5. UNCHANGED <<at, found, types, round, vector>>
    BY <1>3 DEF KeywordSearch, plan, result
  <2>6. QED
    BY <1>b, <1>c, <2>1, <2>4, <2>5 DEF FiltersKept
<1>4. CASE KeywordList
  <2>1. at \notin Idle /\ types = Asked
    BY <1>4, <1>b DEF KeywordList, RoundOk, Leg
  <2>2. PICK listed \in {ListDocuments, {}} :
           \E ds \in BM25Search(MatchDocuments(Samples \cup listed, types)) :
               keyword' = Leg("send", ChunksFromDocuments(ds))
    BY <1>4 DEF KeywordList
  <2>3. PICK ds \in SUBSET MatchDocuments(Samples \cup listed, types) :
           keyword' = Leg("send", ChunksFromDocuments(ds))
    BY <2>2, TopOf DEF BM25Search
  <2>4. \A c \in keyword'.found : WithinFilters(c)
    <3>1. keyword'.found = ChunksFromDocuments(ds) /\ Samples \cup listed \in SUBSET (Samples \cup ListDocuments)
      BY <2>3 DEF Leg
    <3>2. QED
      BY <2>1, <3>1, FromDocuments
  <2>5. UNCHANGED <<at, found, types, round, vector>>
    BY <1>4 DEF KeywordList, plan, result
  <2>6. QED
    BY <1>b, <1>c, <2>1, <2>4, <2>5 DEF FiltersKept
<1>5. CASE Merge
  <2>1. PICK cs \in Merged : IF cs # {} THEN Return(cs) ELSE Go("fallback")
    BY <1>5 DEF Merge
  <2>2. \A c \in cs : WithinFilters(c)
    BY <1>b, <2>1 DEF Merged, Candidates
  <2>3. \A c \in found' : WithinFilters(c)
    BY <2>1, <2>2, <1>b, <1>5 DEF Merge, Return, Go, result
  <2>4. at' \in {"generate", "done"} \/ found' = {}
    BY <2>1, <1>b, <1>5 DEF Merge, Return, Go, result
  <2>5. UNCHANGED <<types, round>> /\ vector' = Leg("off", {}) /\ keyword' = Leg("off", {})
    BY <1>5 DEF Merge, plan
  <2>6. QED
    BY <1>a, <1>c, <2>3, <2>4, <2>5
<1>6. CASE FallbackSearch \/ ListAll
  <2>1. at \in Idle /\ at \notin {"generate", "done"} /\ types = Asked /\ UNCHANGED <<types, round, legs>>
    BY <1>6 DEF FallbackSearch, ListAll, RoundOk, plan
  <2>2. \/ \E all \in SUBSET (Samples \cup ListDocuments) :
               \E ds \in SUBSET MatchDocuments(all, types) : Return(ChunksFromDocuments(ds))
        \/ Return({}) \/ found' = found
    <3>1. CASE FallbackSearch
      <4>1. SUFFICES ASSUME NEW all \in FallbackDocumentSearch(Filter, 4 * TopK),
                            NEW ds \in Top(TopK, MatchDocuments(all, types)), Return(ChunksFromDocuments(ds))
                     PROVE  all \in SUBSET (Samples \cup ListDocuments) /\ ds \in SUBSET MatchDocuments(all, types)
        BY <3>1 DEF FallbackSearch, Go, result
      <4>2. QED
        BY TopOf DEF FallbackDocumentSearch, ListDocuments, Rows
    <3>2. CASE ListAll
      <4>1. SUFFICES ASSUME NEW all \in {ListDocuments, Samples},
                            NEW ds \in Top(TopK, MatchDocuments(all, types)), Return(ChunksFromDocuments(ds))
                     PROVE  all \in SUBSET (Samples \cup ListDocuments) /\ ds \in SUBSET MatchDocuments(all, types)
        BY <3>2 DEF ListAll, Miss, Go, Fail, result
      <4>2. QED
        BY TopOf
    <3>3. QED
      BY <1>6, <3>1, <3>2
  <2>3. \A c \in found' : WithinFilters(c)
    BY <1>b, <2>1, <2>2, FromDocuments DEF Return
  <2>4. at' \in {"generate", "done"} \/ found' = {}
    BY <1>b, <2>1, <2>2 DEF Return
  <2>5. vector' = Leg("off", {}) /\ keyword' = Leg("off", {})
    BY <1>b, <2>1 DEF legs
  <2>6. QED
    BY <1>a, <1>c, <2>1, <2>3, <2>4, <2>5
<1>7. CASE Downgrade
  <2>1. PICK ts : \/ Return({}) /\ UNCHANGED <<types, round, legs>>
                  \/ StartRound(ts)
    BY <1>7 DEF Downgrade
  <2>2. vector'.found = {} /\ keyword'.found = {} /\ found' = {} /\ at' \notin Idle
    BY <1>7, <1>a, <1>b, <2>1 DEF Downgrade, StartRound, Return, Go, result, Leg, legs
  <2>3. QED
    BY <2>2 DEF ChunksOk, FiltersKept
<1>8. CASE ListTypes
  <2>1. at = "types" /\ at' = "documents" /\ UNCHANGED <<found, types, round, legs>>
    BY <1>8 DEF ListTypes, Go, result
  <2>2. QED
    BY <1>b, <1>c, <2>1 DEF legs, FiltersKept
<1>9. CASE GiveUp \/ RefuseStream \/ Generate \/ ContextEnds
  <2>1. UNCHANGED <<found, types, round, legs>> /\ (at' = at \/ at' = "done")
    BY <1>9 DEF GiveUp, RefuseStream, Generate, ContextEnds, Fail, result, plan
  <2>2. QED
    BY <1>b, <1>c, <2>1 DEF legs, FiltersKept
<1>10. CASE UNCHANGED <<at, req, plan, legs, result>>
  BY <1>b, <1>c, <1>10 DEF plan, legs, result, FiltersKept
<1>11. QED
  BY <1>1, <1>2, <1>3, <1>4, <1>5, <1>6, <1>7, <1>8, <1>9, <1>10 DEF Next, vars

-----------------------------------------------------------------------------
(* What is missed                                                          *)

\* Of finitely many documents, none of which is lost but by the limit, one is
\* left.
LEMMA TopNotEmpty ==
    ASSUME NEW S, IsFiniteSet(S), S # {}, NEW t \in Top(TopK, S)
    PROVE  t # {}
<1> DEFINE both == {Cardinality(S), TopK}
<1>1. Cardinality(S) \in Nat /\ Cardinality(S) # 0
  BY FS_CardinalityType, FS_EmptySet
<1>2. TopK \in Nat \ {0}
  BY RetrievalAssumption
<1>3. \E x \in both : \A y \in both : x <= y
  BY <1>1, <1>2
<1>4. Min(both) \in both
  BY <1>3 DEF Min
<1>5. Cardinality(t) = Min(both)
  BY DEF Top, kSubset
<1>6. Cardinality({}) = 0
  BY FS_EmptySet
<1>7. QED
  BY <1>1, <1>2, <1>4, <1>5, <1>6

LEMMA DocumentsFinite ==
    ASSUME StoreOk, NEW all \in SUBSET (Samples \cup ListDocuments), NEW ts
    PROVE  IsFiniteSet(MatchDocuments(all, ts))
<1> DEFINE f == [k \in DOMAIN docs |-> Document(k)]
<1>1. f \in [DOMAIN docs -> ListDocuments] /\ \A d \in ListDocuments : \E k \in DOMAIN docs : f[k] = d
  BY DEF ListDocuments
<1> HIDE DEF f
<1>2. IsFiniteSet(ListDocuments)
  <2>1. IsFiniteSet(DOMAIN docs)
    BY DEF StoreOk, RowsOk
  <2>2. QED
    BY <1>1, <2>1, ImageFinite
<1>3. IsFiniteSet(Samples \cup ListDocuments)
  BY <1>2, FS_Union, RetrievalAssumption
<1>4. MatchDocuments(all, ts) \subseteq Samples \cup ListDocuments
  BY DEF MatchDocuments
<1>5. QED
  BY <1>3, <1>4, FS_Subset

\* What matches is returned, if not all of it.
LEMMA SomethingFound ==
    ASSUME StoreOk, NEW all \in SUBSET (Samples \cup ListDocuments), NEW ts,
           MatchDocuments(all, ts) # {}, NEW top \in Top(TopK, MatchDocuments(all, ts)),
           Return(ChunksFromDocuments(top))
    PROVE  found' # {}
<1>1. top # {}
  BY TopNotEmpty, DocumentsFinite
<1>2. QED
  BY <1>1 DEF Return, ChunksFromDocuments

LEMMA StepMiss ==
    ASSUME FilterInv, MissOk, NothingMissed, [Next]_vars
    PROVE  MissOk' /\ NothingMissed'
<1> USE DEF FilterInv
<1> DEFINE Over == {"generate", "done"}
<1>0. req' = req /\ FirstTypes' = FirstTypes
  BY StepTables DEF FirstTypes
<1>a. at # "start" => Untouched' \subseteq Untouched /\ Old' \subseteq Old
  BY StepTables, UntouchedShrinks DEF Old
<1>b. \A d : (Fits(d)' <=> Fits(d)) /\ (OfStock(d)' <=> OfStock(d))
  BY <1>0 DEF Fits, OfStock, MatchesTimeRange, MatchesDocument, MatchesYear, Mentions
<1>c. NothingMissed <=>
         (at \in Over /\ status # "error" /\ found = {} /\ round > 0 =>
             \A d \in Old : Fits(d) => d.type \notin FirstTypes /\ (req.types # {} \/ blind = 2))
  BY DEF NothingMissed, Old, Untouched, Fits
<1>d. NothingMissed' <=>
         (at' \in Over /\ status' # "error" /\ found' = {} /\ round' > 0 =>
             \A d \in Old' : Fits(d) => d.type \notin FirstTypes /\ (req.types # {} \/ blind' = 2))
  BY <1>0, <1>b DEF NothingMissed, Old, Untouched, Fits
<1>e. MissOk' <=>
    /\ at' \in {"types", "documents"} \/ round' = 2 => \A d \in Old' : Fits(d) => d.type \notin FirstTypes
    /\ blind' \in 0..2
    /\ at' \notin {"documents", "generate", "done"} /\ round' < 2 => blind' = 0
    /\ at' = "documents" => blind' < 2
    /\ at' = "documents" /\ blind' = 0 => \A d \in Untouched' : OfStock(d) => d.type \in available'
    /\ round' = 2 /\ blind' < 2 => \A d \in Untouched' : OfStock(d) => d.type \in types'
    /\ round' = 2 => \A d \in Samples : OfStock(d) => d.type \in types'
    /\ at' # "done" => status' # "error"
  BY <1>0, <1>b DEF MissOk
\* Most steps stay in their round, and return something if they return.
<1>f. ASSUME UNCHANGED <<types, round, available, blind>>, at # "start",
             at' \in {"types", "documents"} => at' = at,
             at' \notin {"documents", "generate", "done"} => at \notin {"documents", "generate", "done"},
             at' # "done" => status' # "error",
             at' \in Over /\ status' # "error" /\ found' = {} =>
                 at \in Over /\ status # "error" /\ found = {}
      PROVE  MissOk' /\ NothingMissed'
  BY <1>a, <1>c, <1>d, <1>e, <1>f DEF MissOk
<1>1. CASE at = "start"
  <2>1. Begin \/ UNCHANGED <<at, plan, result>>
    BY <1>1 DEF Next, vars, plan, result, VectorSearch, KeywordSearch, KeywordList, Merge, GiveUp,
                FallbackSearch, ListAll, ListTypes, Downgrade, RefuseStream, Generate, ContextEnds
  <2>2. round = 0 /\ blind = 0 /\ status # "error"
    BY <1>1 DEF RoundOk, MissOk
  <2>3. CASE Begin
    <3>1. \/ at' = "gather" /\ round' = 1 /\ status' = status
          \/ at' \in Over /\ round' = 0 /\ (at' # "done" => status' = status)
      BY <2>2, <2>3 DEF Begin, StartRound, Return, Go, result
    <3>2. blind' = 0
      BY <2>2, <2>3 DEF Begin
    <3>3. QED
      BY <1>d, <1>e, <2>2, <3>1, <3>2
  <2>4. CASE UNCHANGED <<at, plan, result>>
    BY <1>1, <1>d, <1>e, <2>2, <2>4 DEF plan, result
  <2>5. QED
    BY <2>1, <2>3, <2>4
<1>2. CASE VectorSearch \/ KeywordSearch \/ KeywordList
  BY <1>1, <1>2, <1>f DEF VectorSearch, KeywordSearch, KeywordList, plan, result, MissOk
<1>3. CASE Merge
  BY <1>3, <1>f DEF Merge, Return, Go, plan, result, MissOk
<1>4. CASE GiveUp \/ RefuseStream \/ Generate
  BY <1>4, <1>f DEF GiveUp, RefuseStream, Generate, Fail, plan, MissOk
<1>5. CASE FallbackSearch
  <2>1. /\ at = "fallback" /\ UNCHANGED <<types, round, available, blind>>
        /\ \/ at' = "list" /\ status' = status
           \/ at' \in Over /\ found' # {} /\ (at' # "done" => status' = status)
    <3>1. CASE Go("list")
      BY <1>5, <3>1 DEF FallbackSearch, Go, plan, result
    <3>2. CASE \E ds \in FallbackDocumentSearch(Filter, 4 * TopK) :
                  /\ MatchDocuments(ds, types) # {}
                  /\ \E top \in Top(TopK, MatchDocuments(ds, types)) : Return(ChunksFromDocuments(top))
      <4>1. PICK ds \in FallbackDocumentSearch(Filter, 4 * TopK) :
                  /\ MatchDocuments(ds, types) # {}
                  /\ \E top \in Top(TopK, MatchDocuments(ds, types)) : Return(ChunksFromDocuments(top))
        BY <3>2
      <4>2. ds \in SUBSET (Samples \cup ListDocuments)
        BY DEF FallbackDocumentSearch, ListDocuments, Rows
      <4>3. found' # {}
        BY <4>1, <4>2, SomethingFound
      <4>4. QED
        BY <1>5, <4>1, <4>3 DEF FallbackSearch, Return, plan
    <3>3. QED
      BY <1>5, <3>1, <3>2 DEF FallbackSearch, AfterFallback
  <2>2. QED
    BY <1>f, <2>1 DEF MissOk
<1>6. CASE ListAll
  <2>1. at = "list" /\ UNCHANGED <<types, round, available, blind, storeVars>> /\ round > 0 /\ types = Asked
    BY <1>6 DEF ListAll, plan, RoundOk
  <2>2. CASE MatchDocuments(ListDocuments, types) # {} /\ \E top \in Top(TopK, MatchDocuments(ListDocuments, types)) :
                Return(ChunksFromDocuments(top))
    <3>1. found' # {} /\ at' \in Over /\ (at' # "done" => status' = status)
      BY <2>2, SomethingFound DEF Return
    <3>2. QED
      BY <1>f, <2>1, <3>1 DEF MissOk
  <2>3. CASE MatchDocuments(Samples, types) # {} /\ \E top \in Top(TopK, MatchDocuments(Samples, types)) :
                Return(ChunksFromDocuments(top))
    <3>1. found' # {} /\ at' \in Over /\ (at' # "done" => status' = status)
      BY <2>3, SomethingFound DEF Return
    <3>2. QED
      BY <1>f, <2>1, <3>1 DEF MissOk
  <2>4. CASE Fail
    BY <1>f, <2>1, <2>4 DEF Fail
  <2>5. CASE MatchDocuments(ListDocuments, types) = {} /\ MatchDocuments(Samples, types) = {} /\ Miss
    <3>1. \A d \in Old : Fits(d) => d.type \notin types
      BY <2>5 DEF MatchDocuments, Fits, Old, Untouched
    <3>2. CASE req.types = {} /\ round = 1
      <4>1. at' = "types" /\ status' = status /\ types = FirstTypes
        BY <2>1, <2>5, <3>2 DEF Miss, Go, result, Asked, FirstTypes
      <4>2. QED
        BY <1>a, <1>d, <1>e, <2>1, <3>1, <3>2, <4>1 DEF MissOk
    <3>3. CASE ~(req.types = {} /\ round = 1)
      <4>1. at' \in Over /\ found' = {} /\ (at' # "done" => status' = status)
        BY <2>5, <3>3 DEF Miss, Return
      <4>2. CASE round = 1
        <5>1. req.types # {} /\ types = FirstTypes
          BY <2>1, <3>3, <4>2 DEF Asked
        <5>2. QED
          BY <1>a, <1>d, <1>e, <2>1, <3>1, <4>1, <4>2, <5>1 DEF MissOk
      <4>3. CASE round = 2
        <5>1. \A d \in Old : Fits(d) => d.type \notin FirstTypes /\ blind = 2
          BY <3>1, <4>3 DEF MissOk, Old, Fits
        <5>2. QED
          BY <1>a, <1>d, <1>e, <2>1, <4>1, <4>3, <5>1 DEF MissOk
      <4>4. QED
        BY <2>1, <4>2, <4>3 DEF RoundOk
    <3>4. QED
      BY <3>2, <3>3
  <2>6. QED
    BY <1>6, <2>2, <2>3, <2>4, <2>5 DEF ListAll
<1>7. ASSUME Listing PROVE /\ available \subseteq available'
                           /\ \/ blind' = blind /\ \A d \in Untouched : OfStock(d) => d.type \in available'
                              \/ blind' = blind + 1 /\ available' = available
  <2>1. ASSUME NEW d \in Untouched, OfStock(d) PROVE d.type \in ListAvailableDocTypes(req.stock)
    BY <2>1 DEF Untouched, ListDocuments, Document, OfStock, ListAvailableDocTypes
  <2>2. QED
    BY <1>7, <2>1 DEF Listing
<1>8. CASE ListTypes
  <2>1. /\ at = "types" /\ at' = "documents" /\ status' = status /\ UNCHANGED <<types, round>>
        /\ Listing /\ blind = 0 /\ round = 1
    BY <1>8 DEF ListTypes, Go, result, MissOk, RoundOk
  <2>2. QED
    BY <1>7, <1>a, <1>d, <1>e, <2>1 DEF MissOk
<1>9. CASE Downgrade
  <2> DEFINE ts == available' \cup {d.type : d \in {s \in Samples : OfStock(s)}}
  <2>1. /\ at = "documents" /\ Listing /\ round = 1 /\ req.types = {} /\ FirstTypes = DefaultTypes
        /\ blind \in {0, 1} /\ blind' \in 0..2
    BY <1>7, <1>9 DEF Downgrade, RoundOk, MissOk, FirstTypes
  <2>2. blind' < 2 => \A d \in Untouched : OfStock(d) => d.type \in ts
    BY <1>7, <2>1 DEF MissOk
  <2>3. \A d \in Samples : OfStock(d) => d.type \in ts
    OBVIOUS
  <2>4. CASE ts \in {{}, DefaultTypes}
    <3>1. at' \in Over /\ (at' # "done" => status' = status) /\ UNCHANGED <<types, round>>
      BY <1>9, <2>4 DEF Downgrade, Return
    <3>2. \A d \in Old : Fits(d) => d.type \notin FirstTypes /\ blind' = 2
      BY <2>1, <2>2, <2>3, <2>4 DEF MissOk, Old, Fits
    <3>3. QED
      BY <1>a, <1>d, <1>e, <2>1, <3>1, <3>2 DEF MissOk
  <2>5. CASE ts \notin {{}, DefaultTypes}
    <3>1. at' = "gather" /\ status' = status /\ types' = ts /\ round' = 2
      BY <1>9, <2>1, <2>5 DEF Downgrade, StartRound, Go, result
    <3>2. QED
      BY <1>a, <1>d, <1>e, <2>1, <2>2, <2>3, <3>1 DEF MissOk
  <2>6. QED
    BY <2>4, <2>5
<1>10. CASE UNCHANGED <<at, req, plan, result>>
  BY <1>1, <1>10, <1>f DEF plan, result, MissOk
<1>11. CASE Begin \/ ContextEnds
  BY <1>1, <1>10, <1>11 DEF Begin, ContextEnds
<1>12. QED
  BY <1>2, <1>3, <1>4, <1>5, <1>6, <1>8, <1>9, <1>10, <1>11 DEF Next, vars

-----------------------------------------------------------------------------
(* The answer guard                                                        *)

\* What AnswerGrounded says of an answer to q that rests on the chunks cs.
Grounded(q, cs, a) ==
    IF a.by = "guard" THEN Evidence(q, cs) = {}
    ELSE /\ \E c \in cs : MatchesChunk(q, c)
         /\ a.by = "evidence" => a.cites \in {c.doc.title : c \in Evidence(q, cs)}
         /\ a.by = "model" => a.years = {} \/ q.year \in a.years \cup {0}

LEMMA RefusalGrounded ==
    ASSUME NEW q, NEW cs, Evidence(q, cs) = {}
    PROVE  Grounded(q, cs, Refusal(q))
BY DEF Grounded, Refusal, Answer

LEMMA EvidenceGrounded ==
    ASSUME NEW q, NEW cs, NEW a \in FromEvidence(q, cs)
    PROVE  Grounded(q, cs, a)
<1>1. PICK c \in Evidence(q, cs) : a.by = "evidence" /\ a.cites = c.doc.title
  BY DEF FromEvidence, Answer
<1>2. c \in cs /\ MatchesChunk(q, c)
  BY DEF Evidence
<1>3. QED
  BY <1>1, <1>2 DEF Grounded

LEMMA PolishGrounded ==
    ASSUME NEW q, NEW cs, NEW draft, ~Guarded(q, cs), HasConstraints(q), NEW a \in Polish(draft, cs),
           q.year \in DraftYears(draft) \cup {0}
    PROVE  Grounded(q, cs, a)
<1>1. \E c \in cs : MatchesChunk(q, c)
  BY DEF Guarded
<1>2. CASE a = Answer("model", DraftYears(draft), "")
  BY <1>1, <1>2 DEF Grounded, Answer
<1>3. CASE a.by = "polished"
  BY <1>1, <1>3 DEF Grounded
<1>4. a = Answer("model", DraftYears(draft), "") \/ a.by = "polished"
  <2> DEFINE years(c) == UNION {draft[i].years \cup (IF draft[i].refuses THEN {} ELSE draft[i].after) :
                                   i \in Kept(draft)} \cup TitleYears(c.doc.title)
  <2>1. Polish(draft, cs) \subseteq {Answer("model", DraftYears(draft), "")}
                                    \cup {Answer("polished", years(c), c.doc.title) : c \in cs}
    BY DEF Polish
  <2> HIDE DEF years
  <2>2. ASSUME NEW c \in cs, a = Answer("polished", years(c), c.doc.title) PROVE a.by = "polished"
    BY <2>2 DEF Answer
  <2>3. QED
    BY <2>1, <2>2
<1>5. QED
  BY <1>2, <1>3, <1>4

LEMMA GuardGrounds ==
    ASSUME NEW q, HasConstraints(q), NEW cs, NEW draft, NEW a \in ApplyAnswerGuard(q, cs, draft)
    PROVE  Grounded(q, cs, a)
<1>1. CASE Guarded(q, cs)
  <2>1. Evidence(q, cs) = {}
    BY <1>1 DEF Guarded, Evidence
  <2>2. QED
    BY <1>1, <2>1, RefusalGrounded DEF ApplyAnswerGuard
<1>2. CASE ~Guarded(q, cs)
  <2>1. CASE a \in FromEvidence(q, cs)
    BY <2>1, EvidenceGrounded
  <2>2. CASE a \in Polish(draft, cs) /\ q.year \in DraftYears(draft) \cup {0}
    BY <1>2, <2>2, PolishGrounded
  <2>3. CASE a = Answer("model", {}, "")
    BY <1>2, <2>3 DEF Grounded, Guarded, Answer
  <2>4. CASE a = Refusal(q) /\ FromEvidence(q, cs) = {}
    <3>1. Evidence(q, cs) = {}
      BY <2>4 DEF FromEvidence
    <3>2. QED
      BY <2>4, <3>1, RefusalGrounded
  <2>5. QED
    BY <1>2, <2>1, <2>2, <2>3, <2>4 DEF ApplyAnswerGuard
<1>3. QED
  BY <1>1, <1>2

LEMMA AnswerForm ==
    AnswerGrounded <=>
        (at = "done" /\ req.kind = "query" /\ status = "ok" /\ HasConstraints(req) =>
            Grounded(req, found, answer))
BY DEF AnswerGrounded, Grounded, MatchesChunk

LEMMA StepAnswer == ASSUME AnswerGrounded, [Next]_vars PROVE AnswerGrounded'
<1> DEFINE Answered == at = "done" /\ req.kind = "query" /\ status = "ok" /\ HasConstraints(req)
<1>0. req' = req /\ (HasConstraints(req)' <=> HasConstraints(req))
  BY StepTables DEF HasConstraints
<1>a. AnswerGrounded' <=> (Answered' => Grounded(req, found', answer'))
  BY <1>0 DEF AnswerGrounded, Grounded, MatchesChunk, Evidence, MatchesYear, Mentions
<1>1. CASE RefuseStream
  <2>1. Guarded(req, found) /\ found' = found /\ answer' = Refusal(req)
    BY <1>1 DEF RefuseStream
  <2>2. Evidence(req, found) = {}
    BY <2>1 DEF Guarded, Evidence
  <2>3. QED
    BY <1>a, <2>1, <2>2, RefusalGrounded
<1>2. CASE Generate
  <2>1. CASE Fail
    BY <1>a, <2>1 DEF Fail
  <2>2. CASE found' = found /\ \E draft \in Drafts : answer' \in ApplyAnswerGuard(req, found, draft)
    BY <1>0, <1>a, <2>2, GuardGrounds
  <2>3. QED
    BY <1>2, <2>1, <2>2 DEF Generate
<1>3. CASE UNCHANGED <<at, found, answer, status>>
  BY <1>0, <1>a, <1>3, AnswerForm
<1>4. CASE at # "done" /\ (req.kind # "query" \/ at' # "done" \/ status' # "ok")
  BY <1>0, <1>a, <1>4
<1>5. CASE VectorSearch \/ KeywordSearch \/ KeywordList \/ ContextEnds
  BY <1>3, <1>5 DEF VectorSearch, KeywordSearch, KeywordList, ContextEnds, result
<1>6. CASE Begin \/ Merge \/ GiveUp \/ FallbackSearch \/ ListAll \/ ListTypes \/ Downgrade
  <2>1. at # "done" /\ (Fail \/ (\E place \in {"gather", "fallback", "list", "types", "documents"} : Go(place))
                          \/ \E cs : Return(cs))
    BY <1>6 DEF Begin, Merge, GiveUp, FallbackSearch, AfterFallback, ListAll, Miss, ListTypes, Downgrade,
                StartRound
  <2>2. QED
    BY <1>4, <2>1 DEF Fail, Go, Return
<1>7. QED
  BY <1>1, <1>2, <1>3, <1>5, <1>6 DEF Next, vars, result

-----------------------------------------------------------------------------
(* The retrieval, with the tools behind it                                 *)

RetrievalInv == FilterInv /\ MissOk /\ NothingMissed /\ AnswerGrounded

LEMMA InitRetrieval == ToolsInit => RetrievalInv
<1> SUFFICES ASSUME ToolsInit PROVE RetrievalInv
  OBVIOUS
<1>1. MissOk /\ NothingMissed /\ AnswerGrounded
  BY DEF ToolsInit, Init, MissOk, NothingMissed, AnswerGrounded
<1>2. QED
  BY <1>1, InitFilters DEF RetrievalInv

LEMMA StepRetrieval == RetrievalInv /\ [ToolsNext]_<<vars, toolVars>> => RetrievalInv'
<1> SUFFICES ASSUME RetrievalInv, [ToolsNext]_<<vars, toolVars>> PROVE RetrievalInv'
  OBVIOUS
<1> USE DEF RetrievalInv, FilterInv
<1>1. CASE [Next]_vars
  BY <1>1, StepTables, StepStore, StepRound, StepFilters, StepMiss, StepAnswer
\* The agent brings evidence of its own, and nothing is retrieved.
<1>2. CASE TakeGiven
  <2>1. /\ at = "start" /\ at' = "done" /\ status' = "ok" /\ req.kind = "metrics"
        /\ UNCHANGED <<req, plan, legs, found, answer, storeVars>>
    BY <1>2 DEF TakeGiven
  <2>2. StoreOk' /\ RoundOk' /\ round' = 0
    BY <2>1, StepStore DEF RoundOk, Asked, FirstTypes, plan, legs
  <2>3. ChunksOk' /\ FiltersKept'
    BY <2>1, FiltersStay DEF ChunksOk, FiltersKept, plan, legs
  <2>4. MissOk' /\ NothingMissed' /\ AnswerGrounded'
    BY <2>1, <2>2 DEF MissOk, NothingMissed, AnswerGrounded, plan
  <2>5. QED
    BY <2>2, <2>3, <2>4
<1>3. QED
  BY <1>1, <1>2 DEF ToolsNext, TakeRetrieved, Rerank, Dedupe, ExtractMetrics, NormalizeUnits,
                    ComparePeriods, GenerateReport

LEMMA RetrievalInvariant == ToolsSpec => []RetrievalInv
BY InitRetrieval, StepRetrieval, PTL DEF ToolsSpec

\* Whichever search, fallback or round found a chunk, and whatever is imported
\* in between, it is within the filters of the request (performRetrieval).
THEOREM FiltersAreKept == ToolsSpec => []FiltersKept
<1>1. RetrievalInv => FiltersKept
  BY DEF RetrievalInv, FilterInv
<1>2. QED
  BY <1>1, RetrievalInvariant, PTL

\* A retrieval that succeeds with nothing has missed no document that was there
\* before it began, whichever of its calls failed (Retrieve).
THEOREM NothingIsMissed == ToolsSpec => []NothingMissed
<1>1. RetrievalInv => NothingMissed
  BY DEF RetrievalInv
<1>2. QED
  BY <1>1, RetrievalInvariant, PTL

\* Whatever the model answers, what the guard lets out rests on a retrieved
\* chunk, and it refuses only where none has the figure (ApplyAnswerGuard).
THEOREM AnswersAreGrounded == ToolsSpec => []AnswerGrounded
<1>1. RetrievalInv => AnswerGrounded
  BY DEF RetrievalInv
<1>2. QED
  BY <1>1, RetrievalInvariant, PTL

-----------------------------------------------------------------------------
(* The evidence                                                            *)

FoundFinite == IsFiniteSet(vector.found) /\ IsFiniteSet(keyword.found) /\ IsFiniteSet(found)

LEMMA ChunkQueryFinite ==
    ASSUME StoreOk, NEW filter, NEW literal, NEW limit, NEW cs \in ChunkQuery(filter, literal, limit)
    PROVE  IsFiniteSet(cs)
<1>1. PICK places \in SUBSET DOMAIN chunks : cs = {Chunk(c.doc, chunks[c]) : c \in places}
  BY DEF ChunkQuery
<1>2. IsFiniteSet(places)
  BY FS_Subset DEF StoreOk, RowsOk
<1> DEFINE f == [c \in places |-> Chunk(c.doc, chunks[c])]
<1>3. f \in [places -> cs] /\ \A c \in cs : \E place \in places : f[place] = c
  BY <1>1
<1>4. QED
  BY <1>2, <1>3, ImageFinite

LEMMA FromDocumentsFinite ==
    ASSUME StoreOk, NEW all \in SUBSET (Samples \cup ListDocuments), NEW ts,
           NEW ds \in SUBSET MatchDocuments(all, ts)
    PROVE  IsFiniteSet(ChunksFromDocuments(ds))
<1>1. IsFiniteSet(ds)
  BY DocumentsFinite, FS_Subset
<1> DEFINE f == [d \in ds |-> [doc |-> Key(d), type |-> d.type, text |-> d.text]]
           cs == ChunksFromDocuments(ds)
<1>2. f \in [ds -> cs] /\ \A c \in cs : \E d \in ds : f[d] = c
  BY DEF ChunksFromDocuments
<1> HIDE DEF f, cs
<1>3. IsFiniteSet(cs)
  BY <1>1, <1>2, ImageFinite
<1>4. QED
  BY <1>3 DEF cs

LEMMA StepFinite ==
    ASSUME StoreOk, FoundFinite, [Next]_vars
    PROVE  FoundFinite'
<1> USE DEF FoundFinite
<1>1. IsFiniteSet({}) /\ Leg("search", {}).found = {} /\ Leg("off", {}).found = {}
  BY FS_EmptySet DEF Leg
<1>2. CASE Begin
  <2>1. CASE ~req.local
    BY <1>1, <1>2, <2>1 DEF Begin, StartRound, Go, result
  <2>2. CASE req.local
    <3>1. PICK ds \in Top(TopK, MatchDocuments(Samples, FirstTypes)) :
             Return(ChunksFromDocuments(ds)) /\ UNCHANGED legs
      BY <1>2, <2>2 DEF Begin
    <3>2. ds \in SUBSET MatchDocuments(Samples, FirstTypes)
      BY <3>1, TopOf
    <3>3. IsFiniteSet(found')
      BY <3>1, <3>2, FromDocumentsFinite DEF Return
    <3>4. QED
      BY <3>1, <3>3 DEF legs
  <2>3. QED
    BY <2>1, <2>2
<1>3. CASE VectorSearch
  <2>1. UNCHANGED <<keyword, found>>
    BY <1>3 DEF VectorSearch, result
  <2>2. CASE vector' = Leg("send", {})
    BY <1>1, <2>1, <2>2 DEF Leg
  <2>3. CASE \E cs \in ChunkQuery(Filter, TRUE, TopK) :
                vector' = Leg("send", {c \in cs : MatchesChunk(req, c)})
    <3>1. PICK cs \in ChunkQuery(Filter, TRUE, TopK) :
             vector' = Leg("send", {c \in cs : MatchesChunk(req, c)})
      BY <2>3
    <3>2. vector'.found \in SUBSET cs /\ IsFiniteSet(cs)
      BY <3>1, ChunkQueryFinite DEF Leg
    <3>3. QED
      BY <2>1, <3>2, FS_Subset
  <2>4. QED
    BY <1>3, <2>2, <2>3 DEF VectorSearch
<1>4. CASE KeywordSearch
  <2>1. PICK cs \in ChunkQuery(Filter, FALSE, 4 * TopK) : \E kept \in Top(2 * TopK, KeywordHits(cs)) :
           keyword' = Leg(IF kept = {} THEN "list" ELSE "send", kept)
    BY <1>4 DEF KeywordSearch
  <2>2. PICK kept \in SUBSET cs : keyword'.found = kept
    BY <2>1, TopOf DEF Leg, KeywordHits
  <2>3. IsFiniteSet(cs)
    BY <2>1, ChunkQueryFinite
  <2>4. QED
    BY <1>4, <2>2, <2>3, FS_Subset DEF KeywordSearch, result
<1>5. CASE KeywordList
  <2>1. PICK listed \in {ListDocuments, {}} :
           \E ds \in BM25Search(MatchDocuments(Samples \cup listed, types)) :
               keyword' = Leg("send", ChunksFromDocuments(ds))
    BY <1>5 DEF KeywordList
  <2>2. PICK ds \in SUBSET MatchDocuments(Samples \cup listed, types) :
           keyword' = Leg("send", ChunksFromDocuments(ds))
    BY <2>1, TopOf DEF BM25Search
  <2>3. Samples \cup listed \in SUBSET (Samples \cup ListDocuments) /\ keyword'.found = ChunksFromDocuments(ds)
    BY <2>2 DEF Leg
  <2>4. IsFiniteSet(keyword'.found)
    BY <2>3, FromDocumentsFinite
  <2>5. QED
    BY <1>5, <2>4 DEF KeywordList, result
<1>6. CASE Merge
  <2>1. PICK cs \in Merged : IF cs # {} THEN Return(cs) ELSE Go("fallback")
    BY <1>6 DEF Merge
  <2>2. cs \in SUBSET (vector.found \cup keyword.found)
    BY <2>1 DEF Merged, Candidates
  <2>3. IsFiniteSet(cs)
    BY <2>2, FS_Union, FS_Subset
  <2>4. QED
    BY <1>1, <1>6, <2>1, <2>3 DEF Merge, Return, Go, result
<1>7. CASE FallbackSearch
  <2>1. UNCHANGED legs
    BY <1>7 DEF FallbackSearch
  <2>2. CASE UNCHANGED found
    BY <2>1, <2>2 DEF legs
  <2>3. CASE \E all \in FallbackDocumentSearch(Filter, 4 * TopK) :
                \E ds \in Top(TopK, MatchDocuments(all, types)) : Return(ChunksFromDocuments(ds))
    <3>1. PICK all \in FallbackDocumentSearch(Filter, 4 * TopK) :
              \E ds \in Top(TopK, MatchDocuments(all, types)) : Return(ChunksFromDocuments(ds))
      BY <2>3
    <3>2. all \in SUBSET (Samples \cup ListDocuments)
      BY DEF FallbackDocumentSearch, ListDocuments, Rows
    <3>3. IsFiniteSet(found')
      BY <3>1, <3>2, TopOf, FromDocumentsFinite DEF Return
    <3>4. QED
      BY <2>1, <3>3 DEF legs
  <2>4. QED
    BY <1>7, <2>2, <2>3 DEF FallbackSearch, Go, result
<1>8. CASE ListAll
  <2>1. UNCHANGED legs
    BY <1>8 DEF ListAll
  <2>2. CASE UNCHANGED found \/ Return({})
    BY <1>1, <2>1, <2>2 DEF Return, legs
  <2>3. CASE \E all \in {ListDocuments, Samples} :
                \E ds \in Top(TopK, MatchDocuments(all, types)) : Return(ChunksFromDocuments(ds))
    <3>1. PICK all \in {ListDocuments, Samples} :
              \E ds \in Top(TopK, MatchDocuments(all, types)) : Return(ChunksFromDocuments(ds))
      BY <2>3
    <3>2. all \in SUBSET (Samples \cup ListDocuments)
      OBVIOUS
    <3>3. IsFiniteSet(found')
      BY <3>1, <3>2, TopOf, FromDocumentsFinite DEF Return
    <3>4. QED
      BY <2>1, <3>3 DEF legs
  <2>4. QED
    BY <1>8, <2>2, <2>3 DEF ListAll, Miss, Go, Fail, result
<1>9. CASE Downgrade
  <2>1. PICK ts : (Return({}) /\ UNCHANGED legs) \/ StartRound(ts)
    BY <1>9 DEF Downgrade
  <2>2. QED
    BY <1>1, <2>1 DEF Return, StartRound, Go, result, legs
<1>10. CASE UNCHANGED <<legs, found>>
  BY <1>10 DEF legs
<1>11. CASE GiveUp \/ ListTypes \/ RefuseStream \/ Generate \/ ContextEnds
  BY <1>10, <1>11 DEF GiveUp, ListTypes, RefuseStream, Generate, ContextEnds, Fail, Go, result
<1>12. QED
  BY <1>2, <1>3, <1>4, <1>5, <1>6, <1>7, <1>8, <1>9, <1>10, <1>11 DEF Next, vars, result

\* A set in any order is a sequence of all its elements.
LEMMA InAnyOrder ==
    ASSUME NEW S, IsFiniteSet(S), NEW order \in SetToSeqs(S)
    PROVE  order \in Seq(S) /\ Range(order) = S
<1> DEFINE n == Cardinality(S)
<1>1. n \in Nat /\ IsFiniteSet(1..n) /\ Cardinality(1..n) = n
  BY FS_CardinalityType, FS_Interval
<1>2. order \in [1..n -> S] /\ \A i, j \in 1..n : i # j => order[i] # order[j]
  BY DEF SetToSeqs
<1>3. order \in Injection(1..n, S)
  BY <1>2 DEF Injection, IsInjective
<1>4. order \in Surjection(1..n, S)
  BY <1>1, <1>3, FS_Injection
<1>5. QED
  BY <1>1, <1>2, <1>4 DEF Surjection, Range

LEMMA SequenceOfItsRange ==
    ASSUME NEW s, NEW n \in Nat, s = [i \in 1..n |-> s[i]]
    PROVE  s \in Seq(Range(s))
<1>1. s \in [1..n -> Range(s)]
  BY DEF Range
<1>2. QED
  BY <1>1

LEMMA RerankKeeps ==
    ASSUME NEW items, items \in Seq(Range(items)), NEW new \in Reranked(items)
    PROVE  new \in Seq(Range(new)) /\ Range(new) = Range(items)
<1>1. PICK order \in SetToSeqs(DOMAIN items) : new = [i \in DOMAIN order |-> items[order[i]]]
  BY DEF Reranked
<1>2. PICK n \in Nat : DOMAIN items = 1..n
  OBVIOUS
<1>3. IsFiniteSet(DOMAIN items)
  BY <1>2, FS_Interval
<1>4. order \in Seq(DOMAIN items) /\ Range(order) = DOMAIN items
  BY <1>3, InAnyOrder
<1>5. Range(new) = Range(items)
  BY <1>1, <1>4 DEF Range
<1>6. PICK m \in Nat : DOMAIN order = 1..m
  BY <1>4
<1>7. QED
  BY <1>1, <1>5, <1>6, SequenceOfItsRange

\* Nothing is added, and with no URLs to go by a title that was there stays.
LEMMA DedupeKeeps ==
    ASSUME NEW items, items \in Seq(Range(items)), NEW new \in Deduped(items)
    PROVE  /\ new \in Seq(Range(new)) /\ Range(new) \subseteq Range(items)
           /\ (\A item \in Range(items) : item.url = "") =>
                  {item.title : item \in Range(new)} = {item.title : item \in Range(items)}
<1>1. PICK places \in Staying(items) : \E order \in InOrder(places) :
         new = [i \in DOMAIN order |-> items[order[i]]]
  BY DEF Deduped
<1>2. PICK order \in SetToSeqs(places) : new = [i \in DOMAIN order |-> items[order[i]]]
  BY <1>1 DEF InOrder
<1>3. PICK n \in Nat : DOMAIN items = 1..n
  OBVIOUS
<1>4. places \subseteq 1..n /\ IsFiniteSet(places)
  BY <1>3, FS_Interval, FS_Subset DEF Staying
<1>5. order \in Seq(places) /\ Range(order) = places
  BY <1>4, InAnyOrder
<1>6. Range(new) = {items[i] : i \in places}
  BY <1>2, <1>5 DEF Range
<1>7. new \in Seq(Range(new))
  <2>1. PICK m \in Nat : DOMAIN order = 1..m
    BY <1>5
  <2>2. QED
    BY <1>2, <2>1, SequenceOfItsRange
<1>8. Range(new) \subseteq Range(items)
  BY <1>3, <1>4, <1>6 DEF Range
<1>9. ASSUME \A item \in Range(items) : item.url = "", NEW i \in 1..n
      PROVE  \E j \in places : items[j].title = items[i].title
  <2>1. CASE i \in places
    BY <2>1
  <2>2. CASE i \notin places
    <3>1. PICK j \in places : Twins(items[j], items[i])
      BY <1>3, <2>2 DEF Staying
    <3>2. items[j].url = ""
      BY <1>3, <1>4, <1>9 DEF Range
    <3>3. QED
      BY <3>1, <3>2 DEF Twins
  <2>3. QED
    BY <2>1, <2>2
<1>10. ASSUME \A item \in Range(items) : item.url = "", NEW item \in Range(items)
       PROVE  \E kept \in Range(new) : kept.title = item.title
  <2>1. PICK i \in 1..n : item = items[i]
    BY <1>3 DEF Range
  <2>2. PICK j \in places : items[j].title = item.title
    BY <1>9, <1>10, <2>1
  <2>3. QED
    BY <1>6, <2>2
<1>11. QED
  BY <1>7, <1>8, <1>10

LEMMA CitedIsThere ==
    ASSUME NEW items, items \in Seq(Range(items)), NEW title \in Range(Cited(items))
    PROVE  \E item \in Range(items) : item.title = title
<1> DEFINE both == {3, Len(items)}
<1>1. Len(items) \in Nat /\ DOMAIN items = 1..Len(items)
  OBVIOUS
<1>2. \E x \in both : \A y \in both : x <= y
  BY <1>1
<1>3. Min(both) \in both /\ \A y \in both : Min(both) <= y
  BY <1>2 DEF Min
<1>4. Min(both) \in Nat /\ Min(both) <= Len(items)
  BY <1>1, <1>3
<1>5. PICK i \in 1..Min(both) : title = items[i].title
  BY DEF Cited, Range
<1>6. i \in DOMAIN items
  BY <1>1, <1>4, <1>5
<1>7. QED
  BY <1>5, <1>6 DEF Range

\* The evidence set is a sequence whose items have their title among their words;
\* of what was retrieved no title is lost, and nothing else is in it.
FromFound == {item.title : item \in Range(work)} = {c.doc.title : c \in found}
             /\ Range(work) \subseteq {Item(c) : c \in found}

EvidenceOk ==
    /\ tool # "nothing" => at = "done"
    /\ work \in Seq(Range(work))
    /\ \A item \in Range(work) : item.title \in item.words
    /\ tool # "nothing" /\ found # {} => FromFound
    /\ tool = "report" => report.cites = Cited(work)

EvidenceInv == RetrievalInv /\ FoundFinite /\ EvidenceOk

\* What has been retrieved stays so, whatever searches are still running.
LEMMA DoneStays == ASSUME at = "done", [Next]_vars PROVE at' = "done" /\ UNCHANGED found
BY DEF Next, Begin, VectorSearch, KeywordSearch, KeywordList, Merge, GiveUp, FallbackSearch,
       ListAll, ListTypes, Downgrade, RefuseStream, Generate, ContextEnds, vars, result

LEMMA ItemForm ==
    ASSUME NEW c
    PROVE  Item(c).title = c.doc.title /\ Item(c).url = "" /\ Item(c).title \in Item(c).words
BY DEF Item

LEMMA StepRetrieved == ASSUME EvidenceInv, TakeRetrieved PROVE EvidenceOk'
<1>1. PICK order \in SetToSeqs(found) : work' = [i \in DOMAIN order |-> Item(order[i])]
  BY DEF TakeRetrieved
<1>2. order \in Seq(found) /\ Range(order) = found
  BY <1>1, InAnyOrder DEF EvidenceInv, FoundFinite
<1>3. Range(work') = {Item(c) : c \in found}
  BY <1>1, <1>2 DEF Range
<1>4. PICK n \in Nat : DOMAIN order = 1..n
  BY <1>2
<1>5. work' \in Seq(Range(work'))
  BY <1>1, <1>4, SequenceOfItsRange
<1>6. {item.title : item \in Range(work')} = {c.doc.title : c \in found}
  <2>1. {item.title : item \in Range(work')} = {Item(c).title : c \in found}
    BY <1>3
  <2>2. \A c \in found : Item(c).title = c.doc.title
    BY ItemForm
  <2>3. QED
    BY <2>1, <2>2
<1>7. \A item \in Range(work') : item.title \in item.words
  BY <1>3, ItemForm
<1>8. at' = "done" /\ tool' = "evidence" /\ UNCHANGED found
  BY DEF TakeRetrieved, vars, result
<1>9. QED
  BY <1>3, <1>5, <1>6, <1>7, <1>8 DEF EvidenceOk, FromFound

LEMMA StepGiven == ASSUME EvidenceInv, TakeGiven PROVE EvidenceOk'
<1>1. found' = {} /\ at' = "done" /\ tool' = "evidence" /\ work' \in Given
  BY DEF TakeGiven, EvidenceInv, RetrievalInv, FilterInv, ChunksOk
<1>2. work' \in Seq(Range(work')) /\ \A item \in Range(work') : item.title \in item.words
  BY <1>1, EvidenceAssumption
<1>3. QED
  BY <1>1, <1>2 DEF EvidenceOk

\* Ranking the evidence again and leaving twins out keep what there is to keep.
LEMMA StepRanked == ASSUME EvidenceInv, Rerank \/ Dedupe PROVE EvidenceOk'
<1>1. work \in Seq(Range(work)) /\ \A item \in Range(work) : item.title \in item.words
  BY DEF EvidenceInv, EvidenceOk
<1>2. at = "done" /\ tool = "evidence" /\ UNCHANGED <<at, tool, found>>
  BY DEF EvidenceInv, EvidenceOk, Rerank, Dedupe, vars, result
<1>3. CASE Rerank
  <2>1. work' \in Seq(Range(work')) /\ Range(work') = Range(work)
    BY <1>1, <1>3, RerankKeeps DEF Rerank
  <2>2. QED
    BY <1>1, <1>2, <2>1 DEF EvidenceInv, EvidenceOk, FromFound
<1>4. CASE Dedupe
  <2>1. /\ work' \in Seq(Range(work')) /\ Range(work') \subseteq Range(work)
        /\ (\A item \in Range(work) : item.url = "") =>
               {item.title : item \in Range(work')} = {item.title : item \in Range(work)}
    BY <1>1, <1>4, DedupeKeeps DEF Dedupe
  <2>2. FromFound => \A item \in Range(work) : item.url = ""
    BY ItemForm DEF FromFound
  <2>3. FromFound => FromFound'
    BY <1>2, <2>1, <2>2 DEF FromFound
  <2>4. QED
    BY <1>1, <1>2, <2>1, <2>3 DEF EvidenceInv, EvidenceOk
<1>5. QED
  BY <1>3, <1>4

LEMMA StepEvidence == EvidenceInv /\ [ToolsNext]_<<vars, toolVars>> => EvidenceInv'
<1> SUFFICES ASSUME EvidenceInv, [ToolsNext]_<<vars, toolVars>> PROVE EvidenceInv'
  OBVIOUS
<1>1. RetrievalInv'
  BY StepRetrieval DEF EvidenceInv
<1>2. FoundFinite'
  <2>1. CASE [Next]_vars
    BY <2>1, StepFinite DEF EvidenceInv, RetrievalInv, FilterInv
  <2>2. CASE TakeGiven
    BY <2>2 DEF TakeGiven, EvidenceInv, FoundFinite, legs
  <2>3. QED
    BY <2>1, <2>2 DEF ToolsNext, TakeRetrieved, Rerank, Dedupe, ExtractMetrics, NormalizeUnits,
                      ComparePeriods, GenerateReport
<1>3. EvidenceOk'
  <2>1. CASE [Next]_vars /\ UNCHANGED toolVars
    BY <2>1, DoneStays DEF EvidenceInv, EvidenceOk, FromFound, toolVars
  <2>2. CASE TakeRetrieved \/ TakeGiven \/ Rerank \/ Dedupe
    BY <2>2, StepRetrieved, StepGiven, StepRanked
  <2>3. CASE ExtractMetrics \/ (\E target \in Targets : NormalizeUnits(target))
    BY <2>3 DEF EvidenceInv, EvidenceOk, FromFound, ExtractMetrics, NormalizeUnits, vars, result
  <2>4. CASE \E name \in DOMAIN Patterns, exp \in {m.exp : m \in table} \cup {0} :
                 ComparePeriods(name, exp)
    BY <2>4 DEF EvidenceInv, EvidenceOk, FromFound, ComparePeriods, vars, result
  <2>5. CASE GenerateReport
    BY <2>5 DEF EvidenceInv, EvidenceOk, FromFound, GenerateReport, vars, result
  <2>6. QED
    BY <2>1, <2>2, <2>3, <2>4, <2>5 DEF ToolsNext, toolVars
<1>4. QED
  BY <1>1, <1>2, <1>3 DEF EvidenceInv

LEMMA InitEvidence == ToolsInit => EvidenceInv
<1> SUFFICES ASSUME ToolsInit PROVE EvidenceInv
  OBVIOUS
<1>1. FoundFinite
  BY FS_EmptySet DEF ToolsInit, Init, FoundFinite, Leg
<1>2. work = <<>> /\ tool = "nothing"
  BY DEF ToolsInit
<1>3. Range(<<>>) = {}
  BY DEF Range
<1>4. EvidenceOk
  BY <1>2, <1>3 DEF EvidenceOk
<1>5. QED
  BY <1>1, <1>4, InitRetrieval DEF EvidenceInv

LEMMA EvidenceInvariant == ToolsSpec => []EvidenceInv
BY InitEvidence, StepEvidence, PTL DEF ToolsSpec

\* Every title that was retrieved is still among the evidence, with nothing that
\* was not, and what the report cites of it verify_citations confirms.
THEOREM EvidenceIsKept == ToolsSpec => []EvidenceKept
<1>1. ASSUME EvidenceInv PROVE EvidenceKept
  <2>1. tool # "nothing" /\ found # {} => FromFound
    BY <1>1 DEF EvidenceInv, EvidenceOk
  <2>2. ASSUME tool = "report", NEW title \in Range(report.cites)
        PROVE  \E item \in Range(work) : item.title = title /\ title \in item.words
    BY <1>1, <2>2, CitedIsThere DEF EvidenceInv, EvidenceOk
  <2>3. ASSUME tool = "report", NEW claim \in Claims(report.cites) PROVE Confirmed(claim, work)
    <3>1. PICK title \in Range(report.cites) : claim = [source |-> title, words |-> {title}]
      BY DEF Claims
    <3>2. PICK item \in Range(work) : item.title = title /\ title \in item.words
      BY <2>2, <2>3
    <3>3. QED
      BY <3>1, <3>2 DEF Confirmed, Meant
  <2>4. QED
    BY <2>1, <2>3 DEF EvidenceKept, FromFound, IsValid
<1>2. QED
  BY <1>1, EvidenceInvariant, PTL

-----------------------------------------------------------------------------
(* The figures                                                             *)

\* An indicator is a record, which normalize_units changes in two fields, in a
\* unit of money.
IndicatorForm(m) ==
    /\ m = [name |-> m.name, year |-> m.year, source |-> m.source, value |-> m.value,
            unit |-> m.unit, exp |-> m.exp]
    /\ m.unit \in Money /\ m.exp \in Int

TableSourced ==
    /\ \A m \in table : IndicatorForm(m) /\ \E item \in Usable : \E s \in item.stated : Says(m, item, s)
    /\ \A item \in Usable : \A s \in item.stated :
           Patterns[s.metric] = "amount" => \E m \in table : Says(m, item, s)

FiguresInv ==
    /\ tool \in {"table", "report"} => TableSourced
    /\ compared = NotCompared \/ \E values : compared = Compared(values)

LEMMA UnitReadIsMoney ==
    ASSUME NEW stated
    PROVE  UnitRead(stated) \in Money /\ Decimals[UnitRead(stated)] \in Int /\ Decimals["yi"] \in Int
BY AnalysisAssumption DEF UnitRead, Money

LEMMA IndicatorSays ==
    ASSUME NEW item, NEW s
    PROVE  IndicatorForm(Indicator(item, s)) /\ Says(Indicator(item, s), item, s)
<1> DEFINE m == Indicator(item, s)
<1>1. /\ m.name = NameOf(item, s) /\ m.year = item.year /\ m.source = item.title
      /\ m.value = s.value /\ m.unit = "yi" /\ m.exp = Decimals[UnitRead(s)] - Decimals["yi"]
      /\ m = [name |-> m.name, year |-> m.year, source |-> m.source, value |-> m.value,
              unit |-> m.unit, exp |-> m.exp]
  BY DEF Indicator
<1> HIDE DEF m
<1>2. m.exp \in Int /\ m.exp + Decimals[m.unit] = Decimals[UnitRead(s)]
  BY <1>1, UnitReadIsMoney
<1>3. IndicatorForm(m) /\ Says(m, item, s)
  BY <1>1, <1>2 DEF IndicatorForm, Says, Money
<1>4. QED
  BY <1>3 DEF m

\* Between two units of money the figure stays what it is.
LEMMA ConversionKeeps ==
    ASSUME NEW m, IndicatorForm(m), NEW target \in Money
    PROVE  /\ IndicatorForm(Converted(m, target))
           /\ \A item, s : Says(m, item, s) => Says(Converted(m, target), item, s)
<1> DEFINE n == Converted(m, target)
<1>1. /\ n.name = m.name /\ n.year = m.year /\ n.source = m.source /\ n.value = m.value
      /\ n.unit = target /\ n.exp = m.exp + Shift(m.unit, target)
      /\ n = [name |-> n.name, year |-> n.year, source |-> n.source, value |-> n.value,
              unit |-> n.unit, exp |-> n.exp]
  <2>1. m = [name |-> m.name, year |-> m.year, source |-> m.source, value |-> m.value,
             unit |-> m.unit, exp |-> m.exp]
    BY DEF IndicatorForm
  <2>2. n = [m EXCEPT !.unit = target, !.exp = m.exp + Shift(m.unit, target)]
    BY DEF Converted
  <2> DEFINE shifted == m.exp + Shift(m.unit, target)
  <2>3. n = [name |-> m.name, year |-> m.year, source |-> m.source, value |-> m.value,
             unit |-> target, exp |-> shifted]
    <3> HIDE DEF n, shifted
    <3>1. n = [m EXCEPT !.unit = target, !.exp = shifted]
      BY <2>2 DEF shifted
    <3>2. QED
      BY <2>1, <3>1
  <2> HIDE DEF n, shifted
  <2>4. QED
    BY <2>3 DEF shifted
<1> HIDE DEF n
<1>2. /\ m.unit \in Money /\ m.exp \in Int /\ Decimals[m.unit] \in Int /\ Decimals[target] \in Int
      /\ Shift(m.unit, target) = Decimals[m.unit] - Decimals[target]
  BY AnalysisAssumption DEF IndicatorForm, Shift
<1>3. n.exp \in Int /\ n.exp + Decimals[n.unit] = m.exp + Decimals[m.unit]
  BY <1>1, <1>2
<1>4. IndicatorForm(n)
  BY <1>1, <1>3 DEF IndicatorForm
<1>5. \A item, s : Says(m, item, s) => Says(n, item, s)
  BY <1>1, <1>3 DEF Says
<1>6. QED
  BY <1>4, <1>5 DEF n

LEMMA StepFigures ==
    ASSUME Targets \subseteq Money
    PROVE  FiguresInv /\ [ToolsNext]_<<vars, toolVars>> => FiguresInv'
<1> SUFFICES ASSUME FiguresInv, [ToolsNext]_<<vars, toolVars>> PROVE FiguresInv'
  OBVIOUS
<1>1. CASE ExtractMetrics
  <2>1. table' = Indicators(work) /\ Usable' = Usable /\ UNCHANGED compared
    BY <1>1 DEF ExtractMetrics, Usable
  <2>2. ASSUME NEW m \in table'
        PROVE  IndicatorForm(m) /\ \E item \in Usable : \E s \in item.stated : Says(m, item, s)
    <3>1. PICK item \in Usable : \E s \in item.stated : m = Indicator(item, s)
      BY <2>1, <2>2 DEF Indicators, Usable
    <3>2. QED
      BY <3>1, IndicatorSays
  <2>3. ASSUME NEW item \in Usable, NEW s \in item.stated, Patterns[s.metric] = "amount"
        PROVE  \E m \in table' : Says(m, item, s)
    <3>1. Indicator(item, s) \in table'
      BY <2>1, <2>3 DEF Indicators, Usable
    <3>2. QED
      BY <3>1, IndicatorSays
  <2>4. TableSourced'
    BY <2>1, <2>2, <2>3 DEF TableSourced
  <2>5. QED
    BY <2>1, <2>4 DEF FiguresInv
<1>2. ASSUME NEW target \in Targets, NormalizeUnits(target) PROVE FiguresInv'
  <2>1. /\ table' = {Converted(m, target) : m \in table} /\ Usable' = Usable
        /\ TableSourced /\ UNCHANGED compared /\ target \in Money
    BY <1>2 DEF NormalizeUnits, Usable, FiguresInv
  <2>2. ASSUME NEW n \in table'
        PROVE  IndicatorForm(n) /\ \E item \in Usable : \E s \in item.stated : Says(n, item, s)
    <3>1. PICK m \in table : n = Converted(m, target)
      BY <2>1
    <3>2. IndicatorForm(m) /\ \E item \in Usable : \E s \in item.stated : Says(m, item, s)
      BY <2>1 DEF TableSourced
    <3>3. QED
      BY <2>1, <3>1, <3>2, ConversionKeeps
  <2>3. ASSUME NEW item \in Usable, NEW s \in item.stated, Patterns[s.metric] = "amount"
        PROVE  \E n \in table' : Says(n, item, s)
    <3>1. PICK m \in table : Says(m, item, s)
      BY <2>1, <2>3 DEF TableSourced
    <3>2. IndicatorForm(m) /\ Converted(m, target) \in table'
      BY <2>1 DEF TableSourced
    <3>3. QED
      BY <2>1, <3>1, <3>2, ConversionKeeps
  <2>4. TableSourced'
    BY <2>1, <2>2, <2>3 DEF TableSourced
  <2>5. QED
    BY <2>1, <2>4 DEF FiguresInv
<1>3. CASE \E name \in DOMAIN Patterns, exp \in {m.exp : m \in table} \cup {0} : ComparePeriods(name, exp)
  <2>1. PICK values : compared' = Compared(values) /\ UNCHANGED <<tool, work, table>>
    BY <1>3 DEF ComparePeriods
  <2>2. QED
    BY <2>1 DEF FiguresInv, TableSourced, Usable
<1>4. CASE GenerateReport \/ UNCHANGED toolVars
  BY <1>4 DEF GenerateReport, FiguresInv, TableSourced, Usable, toolVars
<1>5. CASE TakeRetrieved \/ TakeGiven \/ Rerank \/ Dedupe
  BY <1>5 DEF TakeRetrieved, TakeGiven, Rerank, Dedupe, FiguresInv
<1>6. QED
  BY <1>1, <1>2, <1>3, <1>4, <1>5 DEF ToolsNext

\* A fold over one more operand applies the operation once.
LEMMA FoldOne == ASSUME NEW o, NEW a, NEW b PROVE Folded(o, <<a, b>>) = Applied(o, a, b)
<1> DEFINE s == Tail(<<a, b>>)
           body(f, x) == IF x = {} THEN a ELSE Applied(o, f[x \ {Max(x)}], s[Max(x)])
           iter == CHOOSE f : f = [x \in SUBSET {1} |-> body(f, x)]
           g == [x \in SUBSET {1} |-> IF x = {} THEN a ELSE Applied(o, a, b)]
<1>1. DOMAIN s = {1} /\ s[1] = b
  OBVIOUS
<1> HIDE DEF s
<1>2. Max({1}) = 1 /\ {1} \ {1} = {} /\ {1} # {}
  BY DEF Max
<1>3. \A x \in SUBSET {1} : x = {} \/ x = {1}
  OBVIOUS
<1>4. body(g, {}) = g[{}] /\ body(g, {1}) = g[{1}]
  <2>1. g[{}] = a /\ g[{1}] = Applied(o, a, b)
    OBVIOUS
  <2> HIDE DEF g
  <2>2. QED
    BY <1>1, <1>2, <2>1
<1> HIDE DEF body
<1>5. g = [x \in SUBSET {1} |-> body(g, x)]
  <2>1. g = [x \in SUBSET {1} |-> g[x]]
    OBVIOUS
  <2> HIDE DEF g
  <2>2. \A x \in SUBSET {1} : g[x] = body(g, x)
    BY <1>3, <1>4
  <2>3. QED
    BY <2>1, <2>2
<1> HIDE DEF g
<1>6. iter = [x \in SUBSET {1} |-> body(iter, x)]
  BY <1>5
<1> HIDE DEF iter
<1>7. iter[{}] = a
  BY <1>6 DEF body
<1>8. iter[{1}] = Applied(o, a, b)
  <2>1. iter[{1}] = body(iter, {1})
    BY <1>6
  <2>2. QED
    BY <1>1, <1>2, <1>7, <2>1 DEF body
<1>9. <<a, b>>[1] = a
  OBVIOUS
<1>10. Folded(o, <<a, b>>) = iter[{1}]
  BY <1>1, <1>9, Zenon DEF Folded, FoldLeft, MapThenFoldSet, iter, body, s
<1>11. QED
  BY <1>8, <1>10

\* What compare_periods reports of two points calculator works out from them.
LEMMA ChangeIsCalculated ==
    ASSUME NEW a, NEW b
    PROVE  /\ Calculated("yoy_change", <<b, a>>) \in {<<Ratio(b - a, a), b - a>>, <<Ratio(b - a, a)>>}
           /\ Calculated("subtract", <<b, a>>) = <<b - a>>
<1>1. Len(<<b, a>>) = 2 /\ <<b, a>>[1] = b /\ <<b, a>>[2] = a
  OBVIOUS
<1>2. Folded("subtract", <<b, a>>) = b - a
  BY FoldOne DEF Applied
<1>3. "yoy_change" \in Growths /\ "subtract" \notin Growths
  BY DEF Growths
<1> DEFINE operands == <<b, a>>
<1>4. Len(operands) = 2 /\ operands[1] = b /\ operands[2] = a /\ Folded("subtract", operands) = b - a
  BY <1>1, <1>2
<1> HIDE DEF operands
<1>5. Calculated("subtract", operands) = <<b - a>>
  BY <1>3, <1>4 DEF Calculated
<1>6. Calculated("yoy_change", operands) \in {<<Ratio(b - a, a), b - a>>, <<Ratio(b - a, a)>>}
  <2>1. CASE a = 0
    BY <1>3, <1>4, <2>1 DEF Calculated, Ratio
  <2>2. CASE a # 0
    BY <1>3, <1>4, <2>2 DEF Calculated
  <2>3. QED
    BY <2>1, <2>2
<1>7. QED
  BY <1>5, <1>6 DEF operands

LEMMA ComparedCalculated ==
    ASSUME NEW values, NEW c \in Compared(values).qoq \cup Compared(values).yoy
    PROVE  /\ Calculated("yoy_change", <<c.to.value, c.from.value>>)
                  \in {<<c.rate, c.change>>, <<c.rate>>}
           /\ Calculated("subtract", <<c.to.value, c.from.value>>) = <<c.change>>
<1>1. PICK figures : c \in Changes(figures)
  BY DEF Compared, YoY
<1>2. /\ c.change = c.to.value - c.from.value
      /\ c.rate = Ratio(c.to.value - c.from.value, c.from.value)
  BY <1>1 DEF Changes
<1>3. QED
  BY <1>2, ChangeIsCalculated

LEMMA FiguresInvariant == ASSUME Targets \subseteq Money PROVE ToolsSpec => []FiguresInv
<1>1. ToolsInit => FiguresInv
  BY DEF ToolsInit, FiguresInv
<1>2. QED
  BY <1>1, StepFigures, PTL DEF ToolsSpec

\* As long as amounts are converted into units of money, every indicator says what
\* its source states, no amount of a usable source is lost, and the changes
\* compare_periods reports are those calculator works out; a conversion into a
\* ratio changes the label and not the figure (extract_metrics, normalize_units,
\* compare_periods, calculator).
THEOREM FiguresAreSourced == ASSUME Targets \subseteq Money PROVE ToolsSpec => []FiguresSourced
<1>1. ASSUME FiguresInv PROVE FiguresSourced
  <2>1. ASSUME NEW c \in compared.qoq \cup compared.yoy
        PROVE  /\ Calculated("yoy_change", <<c.to.value, c.from.value>>)
                      \in {<<c.rate, c.change>>, <<c.rate>>}
               /\ Calculated("subtract", <<c.to.value, c.from.value>>) = <<c.change>>
    <3>1. PICK values : compared = Compared(values)
      BY <1>1, <2>1 DEF FiguresInv, NotCompared
    <3>2. QED
      BY <2>1, <3>1, ComparedCalculated
  <2>2. tool \in {"table", "report"} => TableSourced
    BY <1>1 DEF FiguresInv
  <2>3. QED
    BY <2>1, <2>2 DEF FiguresSourced, TableSourced
<1>2. QED
  BY <1>1, FiguresInvariant, PTL
=============================================================================
