--------------------------- MODULE AnalysisTools ---------------------------
(***************************************************************************)
(* The tools of the registry that work on evidence and on figures, as        *)
(* functions of what the agent passes to them.  An item of evidence is its  *)
(* title with the year in it, where it comes from, its quality, the figures *)
(* it states and its words; a figure is value * 10^exp of its unit.         *)
(***************************************************************************)
EXTENDS Integers, SequencesExt

CONSTANTS
    Patterns,   \* what extract_metrics reads for a metric: an "amount", a "ratio", or
                \* "nothing": a pattern without the group that would hold the name
    Decimals,   \* of each unit: 0 for one yuan, 4 for ten thousand, 8 for a hundred
                \* million, -2 for a percentage, 0 for a multiple
    Periods,    \* the periods compare_periods knows, in its order: [year, quarter]
    Defaults    \* the figures it takes for a request without any, by period

Money == {"yuan", "wan", "yi"}
Ratios == {"%", "times"}

ASSUME AnalysisAssumption == Decimals \in [Money \cup Ratios -> Int]

-----------------------------------------------------------------------------
(* Evidence                                                                *)

(* rerank_evidence: top_k comes as a JSON number, which is never the int it  *)
(* is taken for, so nothing is cut; the scores are left open.               *)
Reranked(items) ==
    {[i \in DOMAIN order |-> items[order[i]]] : order \in SetToSeqs(DOMAIN items)}

(* dedupe_sources, mode exact.                                             *)
MutTwins(a, b) == a.title = b.title \/ a.url = b.url   \* Mutant: no source URL is a source URL.
Twins(a, b) == a.title = b.title \/ (a.url # "" /\ a.url = b.url)

(* An item stays when it has no twin among those that stay before it.       *)
Staying(items) ==
    {places \in SUBSET DOMAIN items :
        \A i \in DOMAIN items : i \in places <=> ~\E j \in places : j < i /\ Twins(items[j], items[i])}

InOrder(places) ==
    {order \in SetToSeqs(places) : \A i, j \in DOMAIN order : i < j => order[i] < order[j]}

Deduped(items) ==
    {[i \in DOMAIN order |-> items[order[i]]] : order \in UNION {InOrder(places) : places \in Staying(items)}}

-----------------------------------------------------------------------------
(* Figures                                                                 *)

(* convertMetricToYuan: into hundreds of millions, whatever the pattern      *)
(* leaves without a unit from yuan.                                         *)
UnitRead(stated) ==
    IF Patterns[stated.metric] = "amount" /\ stated.unit \in Money THEN stated.unit ELSE "yuan"

(* unifyMetricCaliber renames the profit of a consolidated statement.       *)
NameOf(item, stated) ==
    IF stated.metric = "profit" /\ item.type = "consolidated" THEN "parent profit"
    ELSE stated.metric

Indicator(item, stated) ==
    [name |-> NameOf(item, stated), year |-> item.year, source |-> item.title,
     value |-> stated.value, unit |-> "yi", exp |-> Decimals[UnitRead(stated)] - Decimals["yi"]]

(* The order of the indicators is that of a map, and left open.             *)
MutIndicators(items) ==   \* Mutant: evidence of low quality is not skipped.
    UNION {{Indicator(item, s) : s \in {t \in item.stated : Patterns[t.metric] # "nothing"}} :
              item \in Range(items)}
Indicators(items) ==
    UNION {{Indicator(item, s) : s \in {t \in item.stated : Patterns[t.metric] # "nothing"}} :
              item \in {it \in Range(items) : it.quality # "low"}}

(* normalize_units: between units of two kinds only the label changes.      *)
Shift(from, to) ==
    IF {from, to} \subseteq Money \/ {from, to} \subseteq Ratios
    THEN Decimals[from] - Decimals[to] ELSE 0

Converted(m, target) == [m EXCEPT !.unit = target, !.exp = @ + Shift(m.unit, target)]

(* compare_periods: a period it does not know is left out, and the change    *)
(* over the year is that from the point before, when its year is another.   *)
(* The changes come in the order of their periods, which is left out.       *)
Points(values) == SelectSeq(Periods, LAMBDA p : p \in DOMAIN values)

(* A rate is a fraction, 0 over a base of 0.                               *)
Ratio(a, b) == IF b = 0 THEN <<0, 1>> ELSE <<a, b>>

Changes(values) ==
    LET points == Points(values)
        At(i) == [period |-> points[i], value |-> values[points[i]]]
        Change(from, to) == [from |-> from, to |-> to, change |-> to.value - from.value,
                             rate |-> Ratio(to.value - from.value, from.value)]
    IN  {Change(At(i), At(i + 1)) : i \in 1..(Len(points) - 1)}

YoY(changes) == {c \in changes : c.from.period.year # c.to.period.year}

Compared(values) ==
    LET changes == Changes(IF values = <<>> THEN Defaults ELSE values)
    IN  [qoq |-> changes, yoy |-> YoY(changes)]

(* calculator: a rate of growth, or an operation (division aside) from the    *)
(* first operand on; one it does not know returns that one.                 *)
Growths == {"growth_rate", "yoy_change", "qoq_change"}

Applied(operation, a, b) ==
    CASE operation \in {"add", "plus"}       -> a + b
      [] operation \in {"subtract", "minus"} -> a - b
      [] operation \in {"multiply", "times"} -> a * b
      [] OTHER                               -> a

Folded(operation, operands) ==
    FoldLeft(LAMBDA a, b : Applied(operation, a, b), operands[1], Tail(operands))

Calculated(operation, operands) ==
    IF Len(operands) < 2 THEN <<>>
    ELSE IF operation \in Growths /\ operands[2] = 0 THEN <<Ratio(operands[1], 0)>>
    ELSE IF operation \in Growths
    THEN <<Ratio(operands[1] - operands[2], operands[2]), operands[1] - operands[2]>>
    ELSE <<Folded(operation, operands)>>

-----------------------------------------------------------------------------
(* The report                                                              *)

(* generate_report says one sentence of a profit and a revenue, the first    *)
(* it finds of each, and gives the year of the profit to both.              *)
Sentences(table) ==
    LET parent == {m \in table : m.name = "parent profit"}
        profits == IF parent # {} THEN parent ELSE {m \in table : m.name = "profit"}
    IN  {[year |-> p.year, profit |-> p, revenue |-> r] :
            p \in profits, r \in {m \in table : m.name = "revenue" /\ m.value > 0}}

Cited(items) == [i \in 1..Min({3, Len(items)}) |-> items[i].title]

(* verify_citations: a claim is confirmed by an item it may mean that has    *)
(* one of the claim's words.                                               *)
Meant(claim, item) == claim.source \in {"", item.title, item.url}
Confirmed(claim, items) ==
    \E item \in Range(items) : Meant(claim, item) /\ claim.words \cap item.words # {}

IsValid(claims, items) == items # <<>> /\ \A claim \in claims : Confirmed(claim, items)
=============================================================================
