---------------------------- MODULE MCRetrieval ----------------------------
(***************************************************************************)
(* Two stocks in the database, one in the samples; a report that is imported *)
(* again at another place of a batch, under another type and without a date; *)
(* a note that has the metric as a keyword only; a type outside the default. *)
(* Evidence of the agent's own with twins, poor quality, figures of every    *)
(* kind of pattern, a consolidated statement, three years.                  *)
(***************************************************************************)
EXTENDS EvidenceTools

Stated(metric, value, unit) == [metric |-> metric, value |-> value, unit |-> unit]

Text(year, metrics, figures) ==
    [year |-> year, metrics |-> metrics, figures |-> figures,
     stated |-> {Stated(metric, year % 10, IF year = 2024 THEN "wan" ELSE "") : metric \in figures}]

Doc(title, stock, type, published, text, keywords) ==
    [title |-> title, stock |-> stock, type |-> type, published |-> published,
     text |-> text, keywords |-> keywords]

Annual   == Doc("annual", "A", "report", "recent", Text(2024, {"profit"}, {"profit"}), {})
Reissued == Doc("annual", "A", "nianbao", "none", Text(2023, {"profit"}, {}), {})
Note     == Doc("note", "A", "news", "old", Text(2024, {}, {}), {"profit"})
Study    == Doc("study", "A", "research", "recent", Text(2023, {"profit"}, {"profit"}), {})
Other    == Doc("annual", "B", "report", "recent", Text(2023, {"profit"}, {"profit"}), {})

MCTitleText(title) == Text(IF title = "annual" THEN 2024 ELSE 0, {}, {})
MCStored == {<<>>, <<Annual, Note>>, <<Note, Other>>, <<Study>>, <<Reissued>>}
MCBatches == <<<<Annual>>, <<Note, Reissued>>>>
MCSamples == {Doc("sample", "C", "news", "old", Text(2024, {"profit"}, {"profit"}), {})}

Ask(kind, stock, asked, range, year, metric) ==
    [kind |-> kind, stock |-> stock, types |-> asked, range |-> range, year |-> year,
     metric |-> metric, local |-> FALSE, stream |-> FALSE]

MCRequests ==
    {Ask("query", "A", {}, "latest", 2024, "profit"),
     [Ask("query", "A", {"report"}, "month", 0, "profit") EXCEPT !.stream = TRUE],
     Ask("query", "GENERAL", {}, "latest", 2023, ""),
     Ask("evidence", "A", {}, "latest", 0, ""),
     Ask("evidence", "A", {"report"}, "latest", 2024, "profit"),
     Ask("evidence", "GENERAL", {}, "month", 2023, "profit"),
     Ask("metrics", "A", {}, "latest", 0, "profit"),
     [Ask("query", "C", {"news"}, "latest", 2024, "profit") EXCEPT !.local = TRUE]}

Segment(text, years, refuses, after, cites) ==
    [text |-> text, years |-> years, refuses |-> refuses, after |-> after, cites |-> cites]

MCDrafts ==
    {<<>>,
     <<Segment(TRUE, {2024}, FALSE, {}, FALSE)>>,
     <<Segment(TRUE, {2023}, FALSE, {}, FALSE), Segment(TRUE, {}, FALSE, {}, TRUE)>>,
     <<Segment(TRUE, {2023}, TRUE, {2024}, FALSE)>>,
     <<Segment(FALSE, {}, TRUE, {}, FALSE)>>}

Evidence0(title, year, type, quality, stated) ==
    [title |-> title, year |-> year, type |-> type, url |-> title, quality |-> quality,
     stated |-> stated, words |-> {title}]

Both(value, unit) == {Stated("profit", value, unit), Stated("revenue", 2 * value, unit)}

MCGiven ==
    {<<>>,
     <<Evidence0("first", 2022, "report", "high", Both(3, "yi")),
       Evidence0("second", 2023, "consolidated", "medium", Both(5, "wan")),
       Evidence0("third", 2021, "report", "medium", Both(2, "yi"))>>,
     <<Evidence0("second", 2023, "report", "low", Both(7, "")),
       [Evidence0("reprint", 0, "news", "high", {Stated("margin", 30, "%"), Stated("roe", 9, "%")})
           EXCEPT !.url = "second"],
       Evidence0("third", 2021, "report", "medium", {Stated("revenue", 0, "yi")}),
       Evidence0("fourth", 2022, "report", "medium", Both(4, "yi"))>>}

MCPatterns == [profit |-> "amount", revenue |-> "amount", margin |-> "ratio", roe |-> "nothing"]
MCDecimals == [yuan |-> 0, wan |-> 4, yi |-> 8] @@ [u \in {"%"} |-> -2] @@ [u \in {"times"} |-> 0]
MCPeriods == <<Period(2021), Period(2022), Period(2023), [year |-> 2024, quarter |-> 1]>>
MCDefaults == [p \in {Period(2021), Period(2022)} |-> 10]
=============================================================================
