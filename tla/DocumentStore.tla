--------------------------- MODULE DocumentStore ---------------------------
(***************************************************************************)
(* The Postgres tables documents and document_chunks, the queries retrieval *)
(* reads them with, and the imports that write them: record by record, in   *)
(* no transaction, the document's row before its chunk.                     *)
(* A text is the first year it mentions, 0 when there is none, the metrics  *)
(* it mentions, those of them a figure follows, and what amounts it states.  *)
(***************************************************************************)
EXTENDS SequencesExt

CONSTANTS
    Batches,      \* the documents of each import, in the order of the request
    Stored,       \* what earlier imports may have left: sequences of documents
    TitleText(_)  \* the text of a title

ASSUME StoreAssumption ==
    \A batch \in Range(Batches) \cup Stored : batch \in Seq(Range(batch))

VARIABLES
    docs,      \* documents: [type, published, raw, keywords] by [title, stock]
    chunks,    \* document_chunks: a text by [doc, index]
    imports,   \* the record each import is at, and which of its two statements
    touched    \* documents written since the retrieval began

storeVars == <<docs, chunks, imports, touched>>

NoRows == [k \in {} |-> <<>>]
Key(d) == [title |-> d.title, stock |-> d.stock]
Put(rows, key, row) == [k \in DOMAIN rows \cup {key} |-> IF k = key THEN row ELSE rows[k]]

(* INSERT ... ON CONFLICT (title, stock_code): a publication date that is   *)
(* missing leaves the old one.                                             *)
Row(d, rows) ==
    [type |-> d.type, raw |-> d.text, keywords |-> d.keywords,
     published |-> IF d.published = "none" /\ Key(d) \in DOMAIN rows
                   THEN rows[Key(d)].published ELSE d.published]

WithRow(rows, d) == Put(rows, Key(d), Row(d, rows))

(* chunk_index is the record's place in the request, not in its document.   *)
WithChunk(rows, d, i) == Put(rows, [doc |-> Key(d), index |-> i], d.text)

(* What a batch leaves in empty tables: of each document the row of its last *)
(* record, with the last date of any, and the chunks of all its records.     *)
Own(batch, k) == {i \in DOMAIN batch : Key(batch[i]) = k}
Dated(batch, k) == {i \in Own(batch, k) : batch[i].published # "none"}
LastRow(batch, k) ==
    [Row(batch[Max(Own(batch, k))], NoRows)
        EXCEPT !.published = IF Dated(batch, k) = {} THEN @ ELSE batch[Max(Dated(batch, k))].published]

StoreInit ==
    /\ \E batch \in Stored :
           /\ docs = [k \in {Key(d) : d \in Range(batch)} |-> LastRow(batch, k)]
           /\ chunks = [c \in {[doc |-> Key(batch[i]), index |-> i] : i \in DOMAIN batch} |->
                           batch[c.index].text]
    /\ imports = [b \in DOMAIN Batches |-> [at |-> 1, row |-> FALSE]]
    /\ touched = {}

-----------------------------------------------------------------------------
(* Upsert                                                                  *)

Record(b) == Batches[b][imports[b].at]
Importing(b) == imports[b].at <= Len(Batches[b])

UpsertDocument(b) ==
    /\ Importing(b) /\ ~imports[b].row
    /\ docs' = WithRow(docs, Record(b))
    /\ imports' = [imports EXCEPT ![b].row = TRUE]
    /\ touched' = touched \cup {Key(Record(b))}
    /\ UNCHANGED chunks

UpsertChunk(b) ==
    /\ Importing(b) /\ imports[b].row
    /\ chunks' = WithChunk(chunks, Record(b), imports[b].at)
    /\ imports' = [imports EXCEPT ![b] = [at |-> @.at + 1, row |-> FALSE]]
    /\ touched' = touched \cup {Key(Record(b))}
    /\ UNCHANGED docs

(* A statement fails: what the import has written stays.                    *)
UpsertFails(b) ==
    /\ Importing(b)
    /\ imports' = [imports EXCEPT ![b].at = Len(Batches[b]) + 1]
    /\ UNCHANGED <<docs, chunks, touched>>

Import == \E b \in DOMAIN Batches : UpsertDocument(b) \/ UpsertChunk(b) \/ UpsertFails(b)

-----------------------------------------------------------------------------
(* Queries                                                                 *)

(* The types the documents of an annual or interim report, or of a notice,   *)
(* carry when they were imported under their Chinese names.                 *)
MapDocTypes(types) ==
    types \cup (IF "report" \in types THEN {"nianbao", "zhongbao"} ELSE {})
          \cup (IF "announcement" \in types THEN {"gonggao"} ELSE {})

InTimeRange(row, range) == range = "latest" \/ row.published = "recent"

(* The rows a query's filter leaves: the vector search compares the stock   *)
(* code literally, the others let "GENERAL" pass every stock.               *)
Rows(filter, literal) ==
    {k \in DOMAIN docs :
        /\ k.stock = filter.stock \/ (filter.stock = "GENERAL" /\ ~literal)
        /\ docs[k].type \in MapDocTypes(filter.types)
        /\ InTimeRange(docs[k], filter.range)}

Chunk(k, text) == [doc |-> k, type |-> docs[k].type, text |-> text]

(* Search and KeywordSearch: what is similar enough, or matches the words,   *)
(* is left open; LIMIT is not.                                              *)
ChunkQuery(filter, literal, limit) ==
    LET rows == {c \in DOMAIN chunks : c.doc \in Rows(filter, literal)}
    IN  {{Chunk(c.doc, chunks[c]) : c \in found} :
            found \in {s \in SUBSET rows : Cardinality(s) <= limit}}

ChunksOf(k) == {c \in DOMAIN chunks : c.doc = k}

(* string_agg over the chunks, in the order of chunk_index; a document that  *)
(* has none yet shows the content of its raw_data.                          *)
Aggregated(parts) ==
    LET dated == {c \in DOMAIN parts : parts[c].year # 0}
        first == CHOOSE c \in dated : \A d \in dated : c.index <= d.index
    IN  [year    |-> IF dated = {} THEN 0 ELSE parts[first].year,
         metrics |-> UNION {part.metrics : part \in Range(parts)},
         figures |-> UNION {part.figures : part \in Range(parts)},
         stated  |-> UNION {part.stated : part \in Range(parts)}]

Content(k) ==
    IF ChunksOf(k) = {} THEN docs[k].raw ELSE Aggregated([c \in ChunksOf(k) |-> chunks[c]])

(* A document as ListDocuments returns it: its date is RFC 3339, which the   *)
(* retriever's own time filter cannot read, or not a date at all.           *)
Document(k) ==
    [title |-> k.title, stock |-> k.stock, type |-> docs[k].type, published |-> "unreadable",
     text |-> Content(k), keywords |-> docs[k].keywords]

ListDocuments == {Document(k) : k \in DOMAIN docs}

FallbackDocumentSearch(filter, limit) ==
    {{Document(k) : k \in found} :
        found \in {s \in SUBSET Rows(filter, FALSE) : Cardinality(s) <= limit}}

ListAvailableDocTypes(stock) ==
    {docs[k].type : k \in {j \in DOMAIN docs : stock \in {j.stock, "GENERAL"}}}
=============================================================================
