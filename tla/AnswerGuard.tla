---------------------------- MODULE AnswerGuard ----------------------------
(***************************************************************************)
(* What a question asks for, which texts meet it, and what the answer guard *)
(* makes of a model's answer.  An answer is a sequence of segments; those   *)
(* that refuse hold words before the refusal, or none.                      *)
(***************************************************************************)
EXTENDS DocumentStore

(* QueryIntent, of a request with a year, 0 for none, and a metric, "" for none. *)
HasConstraints(q) == q.year # 0 \/ q.metric # ""

(* fiscalYearFromTexts: the title's year, else the content's.               *)
FiscalYear(title, text) ==
    IF TitleText(title).year # 0 THEN TitleText(title).year ELSE text.year

MatchesYear(q, title, text) == q.year # 0 => FiscalYear(title, text) = q.year
Mentions(q, metrics) == q.metric # "" => q.metric \in metrics

MatchesChunk(q, c) ==
    /\ MatchesYear(q, c.doc.title, c.text)
    /\ Mentions(q, TitleText(c.doc.title).metrics \cup c.text.metrics)

MatchesDocument(q, d) ==
    /\ MatchesYear(q, d.title, d.text)
    /\ Mentions(q, TitleText(d.title).metrics \cup d.text.metrics \cup d.keywords)

-----------------------------------------------------------------------------

Answer(by, years, cites) == [by |-> by, years |-> years, cites |-> cites]
NoAnswer == Answer("none", {}, "")
TitleYears(title) == IF title = "" THEN {} ELSE {TitleText(title).year} \ {0}

Insufficient(draft) == draft = <<>> \/ \E i \in DOMAIN draft : draft[i].refuses
DraftYears(draft) == UNION {draft[i].years \cup draft[i].after : i \in DOMAIN draft}

(* BuildGuardedAnswer: no chunk meets the question's constraints.           *)
MutGuarded(q, found) == HasConstraints(q) /\ found = {}   \* Mutant: any chunk will do.
Guarded(q, found) == HasConstraints(q) /\ \A c \in found : ~MatchesChunk(q, c)

Refusal(q) == Answer("guard", {q.year} \ {0}, "")

(* buildEvidenceBackedAnswer: from the first chunk that meets the question  *)
(* and has a figure of its metric.                                         *)
Evidence(q, found) ==
    {c \in found : q.metric # "" /\ MatchesChunk(q, c) /\ q.metric \in c.text.figures}

FromEvidence(q, found) ==
    {Answer("evidence", ({q.year} \ {0}) \cup TitleYears(c.doc.title), c.doc.title) :
        c \in Evidence(q, found)}

(* polishBorderlineAnswer: the refusals are cut off, the first chunk cited. *)
Kept(draft) ==
    {i \in DOMAIN draft : ~draft[i].cites /\ (draft[i].refuses => draft[i].text)}

Polish(draft, found) ==
    LET asIs == Answer("model", DraftYears(draft), "")
    IN  IF ~Insufficient(draft) \/ found = {} \/ Kept(draft) = {} THEN {asIs}
        ELSE {Answer("polished",
                     UNION {draft[i].years \cup (IF draft[i].refuses THEN {} ELSE draft[i].after) :
                               i \in Kept(draft)} \cup TitleYears(c.doc.title),
                     c.doc.title) : c \in found}

(* ApplyAnswerGuard.  The chunks' order is their score: any of them may be   *)
(* the first one.                                                          *)
ApplyAnswerGuard(q, found, draft) ==
    LET recovered == FromEvidence(q, found)
    IN  IF Guarded(q, found) THEN {Refusal(q)}
        ELSE IF recovered # {} /\ Insufficient(draft) THEN recovered
        ELSE IF q.year = 0 THEN Polish(draft, found)
        ELSE IF DraftYears(draft) = {} THEN {Answer("model", {}, "")}
        ELSE IF q.year \in DraftYears(draft) THEN Polish(draft, found)
        ELSE IF recovered # {} THEN recovered
        ELSE {Refusal(q)}
=============================================================================
