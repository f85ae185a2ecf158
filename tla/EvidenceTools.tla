--------------------------- MODULE EvidenceTools ---------------------------
(***************************************************************************)
(* An agent's way from evidence to a report: retrieve_evidence, or evidence *)
(* of its own, rerank_evidence and dedupe_sources, extract_metrics,         *)
(* normalize_units and compare_periods, generate_report.  extract_metrics   *)
(* and generate_report retrieve for themselves when they are given none.    *)
(* The agent passes on what a tool returned as it is.                       *)
(***************************************************************************)
EXTENDS Retrieval, AnalysisTools

CONSTANTS
    Given,      \* the evidence an agent may pass without having retrieved it
    Targets     \* the units it may ask for

ASSUME EvidenceAssumption ==
    \A items \in Given :
        items \in Seq(Range(items)) /\ \A item \in Range(items) : item.title \in item.words

VARIABLES
    tool,       \* what the agent has so far: "nothing", "evidence", "table" or "report"
    work,       \* the evidence set
    table,      \* the indicators
    compared,   \* the changes of one metric's figures
    report      \* what the report cites and says

toolVars == <<tool, work, table, compared, report>>

NotCompared == [qoq |-> {}, yoy |-> {}]
NoReport == [cites |-> <<>>, says |-> {}]

ToolsInit ==
    /\ Init
    /\ tool = "nothing"
    /\ work = <<>> /\ table = {} /\ compared = NotCompared /\ report = NoReport

ForTools == req.kind \in {"evidence", "metrics"}

(* chunksToEvidenceSet; its source_url is not the url dedupe_sources reads.  *)
Item(chunk) ==
    [title |-> chunk.doc.title, year |-> TitleText(chunk.doc.title).year, type |-> chunk.type,
     url |-> "", quality |-> "medium", stated |-> chunk.text.stated,
     words |-> {chunk.doc.title} \cup chunk.text.metrics]

(* retrieve_evidence fails with the retrieval; extract_metrics goes on with  *)
(* no evidence.                                                            *)
TakeRetrieved ==
    /\ at = "done" /\ tool = "nothing" /\ ForTools
    /\ status = "ok" \/ req.kind = "metrics"
    /\ \E order \in SetToSeqs(found) : work' = [i \in DOMAIN order |-> Item(order[i])]
    /\ tool' = "evidence"
    /\ UNCHANGED <<vars, table, compared, report>>

(* The argument evidence_set holds evidence: nothing is retrieved.          *)
TakeGiven ==
    /\ at = "start" /\ tool = "nothing" /\ req.kind = "metrics"
    /\ work' \in Given
    /\ tool' = "evidence"
    /\ at' = "done" /\ status' = "ok"
    /\ UNCHANGED <<req, plan, legs, ended, found, answer, budget, storeVars, table, compared, report>>

Rerank ==
    /\ tool = "evidence" /\ work # <<>>
    /\ work' \in Reranked(work)
    /\ UNCHANGED <<vars, tool, table, compared, report>>

Dedupe ==
    /\ tool = "evidence" /\ work # <<>>
    /\ work' \in Deduped(work)
    /\ UNCHANGED <<vars, tool, table, compared, report>>

ExtractMetrics ==
    /\ tool = "evidence"
    /\ table' = Indicators(work)
    /\ tool' = "table"
    /\ UNCHANGED <<vars, work, compared, report>>

NormalizeUnits(target) ==
    /\ tool = "table" /\ table # {} /\ compared = NotCompared
    /\ table' = {Converted(m, target) : m \in table}
    /\ UNCHANGED <<vars, tool, work, compared, report>>

(* The figures of one metric by year, as far as they are of one scale; where  *)
(* two sources have one for a year the agent chooses.  A table without       *)
(* figures of it is compared all the same.                                  *)
Figures(name, exp) == {m \in table : m.name = name /\ m.exp = exp}
Period(year) == [year |-> year, quarter |-> 0]

ValuesOf(figures) ==
    {[p \in {Period(m.year) : m \in figures} |-> chosen[p.year].value] :
        chosen \in {f \in [{m.year : m \in figures} -> figures] : \A y \in DOMAIN f : f[y].year = y}}

ComparePeriods(name, exp) ==
    /\ tool = "table" /\ compared = NotCompared
    /\ \E values \in ValuesOf(Figures(name, exp)) : compared' = Compared(values)
    /\ UNCHANGED <<vars, tool, work, table, report>>

GenerateReport ==
    /\ tool = "table"
    /\ tool' = "report"
    /\ report' = [cites |-> Cited(work), says |-> Sentences(table)]
    /\ UNCHANGED <<vars, work, table, compared>>

ToolsNext ==
    \/ Next /\ UNCHANGED toolVars
    \/ TakeRetrieved \/ TakeGiven \/ Rerank \/ Dedupe \/ ExtractMetrics
    \/ \E target \in Targets : NormalizeUnits(target)
    \/ \E name \in DOMAIN Patterns, exp \in {m.exp : m \in table} \cup {0} : ComparePeriods(name, exp)
    \/ GenerateReport

ToolsSpec == ToolsInit /\ [][ToolsNext]_<<vars, toolVars>>

-----------------------------------------------------------------------------
(* Properties                                                              *)

Usable == {item \in Range(work) : item.quality # "low"}

(* Through extraction and every conversion between units of money an         *)
(* indicator says what the source it names states, in the year of that      *)
(* source's title, and no amount of a usable source is lost on the way;     *)
(* evidence of low quality gives no figure; and the changes compare_periods   *)
(* reports are those calculator works out from the same figures.            *)
Says(m, item, s) ==
    /\ m.name = NameOf(item, s) /\ m.value = s.value
    /\ m.source = item.title /\ m.year = item.year
    /\ Patterns[s.metric] = "amount" => m.exp + Decimals[m.unit] = Decimals[UnitRead(s)]

FiguresSourced ==
    tool \in {"table", "report"} =>
        /\ \A m \in table : \E item \in Usable : \E s \in item.stated : Says(m, item, s)
        /\ \A item \in Usable : \A s \in item.stated :
               Patterns[s.metric] = "amount" => \E m \in table : Says(m, item, s)
        /\ \A c \in compared.qoq \cup compared.yoy :
               /\ Calculated("yoy_change", <<c.to.value, c.from.value>>)
                      \in {<<c.rate, c.change>>, <<c.rate>>}
               /\ Calculated("subtract", <<c.to.value, c.from.value>>) = <<c.change>>

(* Whatever order the evidence was ranked in and however often it was       *)
(* deduplicated, every title that was retrieved is still among it, with     *)
(* nothing that was not; what the report cites is of it, and is confirmed  *)
(* when it is verified against it (dedupe_sources, generate_report,         *)
(* verify_citations).                                                      *)
Claims(titles) == {[source |-> title, words |-> {title}] : title \in Range(titles)}

EvidenceKept ==
    /\ tool # "nothing" /\ found # {} =>
           /\ {item.title : item \in Range(work)} = {c.doc.title : c \in found}
           /\ Range(work) \subseteq {Item(c) : c \in found}
    /\ tool = "report" /\ work # <<>> => IsValid(Claims(report.cites), work)
=============================================================================
