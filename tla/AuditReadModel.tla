---------------------------- MODULE AuditReadModel ----------------------------
(***************************************************************************)
(* The other readers of rule_evaluation_results.  AuditReadModelService    *)
(* answers /audits/...: an overview, pages of the list of issues, and the  *)
(* pages of one issue.  report_assembler makes the issues of the PDF.  Both*)
(* read the rows of the crawled pages, host and slash variants apart, and  *)
(* with the rows of rules that raised, which AuditReport leaves out.       *)
(* Messages, samples and evidence are left out.                            *)
(***************************************************************************)
EXTENDS AuditReport

CONSTANTS
  SeverityOf,         \* severity of a failed row, by its score_impact
  HighImpact,         \* HIGH_IMPACT_WARNINGS
  RuleOrder,          \* the order of rule ids
  PageOrder,          \* the order in which the pages were evaluated
  MAX_TOP_ISSUES

ASSUME ReadModelAssumption ==
  /\ SeverityOf \in [Penalty -> {"critical", "warning", "info"}] /\ MAX_TOP_ISSUES \in Nat
  /\ HighImpact \subseteq Rule
  /\ RuleOrder \in [1 .. Cardinality(Rule) -> Rule] /\ Range(RuleOrder) = Rule
  /\ PageOrder \in [1 .. Cardinality(Variant) -> Variant] /\ Range(PageOrder) = Variant

-----------------------------------------------------------------------------
(* Severities in the response of AuditResponseBuilder *)

\* RuleResultToSEOIssueConverter.severity_tier
SeverityTier(r, k) ==
  LET s == SeverityOf[merged[k][r].impact]
  IN  CASE s = "critical" -> "critical" [] s = "info" -> "low"
        [] OTHER -> IF r \in HighImpact THEN "high" ELSE "medium"

\* _build_summary takes the severity of the verdict it keeps for the rule.
SummaryTier(tier) == Cardinality({r \in SummaryFailed : SeverityTier(r, FirstPage(r)) = tier})

-----------------------------------------------------------------------------
(* Queries *)

\* The failed rows; raised are the cells whose rule raised (_create_error_result).
FailedRow(raised, v, r) ==
  IF <<v, r>> \in raised THEN {[page |-> v, rule |-> r, severity |-> "error", impact |-> 0]}
  ELSE IF row[v][r] # Missing /\ ~row[v][r].passed
       THEN {[page |-> v, rule |-> r, severity |-> SeverityOf[row[v][r].impact], impact |-> row[v][r].impact]}
       ELSE {}

\* The cells of the table by rule and time, and by page and rule.
ByRule == FlattenSeq([i \in DOMAIN RuleOrder |-> [j \in DOMAIN PageOrder |-> <<PageOrder[j], RuleOrder[i]>>]])
ByPage == FlattenSeq([j \in DOMAIN PageOrder |-> [i \in DOMAIN RuleOrder |-> <<PageOrder[j], RuleOrder[i]>>]])

RowsAlong(cells, raised) ==
  FoldLeft(LAMBDA rows, cell : rows \o SetToSeq(FailedRow(raised, cell[1], cell[2])), <<>>, cells)

get_failed_by_audit_id(raised) == RowsAlong(ByRule, raised)

RowsOf(rows, r) == SelectSeq(rows, LAMBDA x : x.rule = r)

Window_NoLimit(rows, limit, offset) == SubSeq(rows, offset + 1, Len(rows))

\* LIMIT and OFFSET of list_failed_by_audit_id_paginated and get_failed_pages_for_rule.
Window(rows, limit, offset) ==
  SubSeq(rows, offset + 1, IF offset + limit < Len(rows) THEN offset + limit ELSE Len(rows))

-----------------------------------------------------------------------------
(* AuditReadModelService *)

SeverityRank(s) == CASE s = "critical" -> 1 [] s = "high" -> 2 [] s = "medium" -> 3 [] s = "low" -> 4 [] OTHER -> 5

Magnitude(n) == IF n < 0 THEN -n ELSE n
ImpactRank(n) == IF Magnitude(n) >= 15 THEN 1 ELSE IF Magnitude(n) >= 8 THEN 2 ELSE 3

\* The first of the rows that no row exceeds by this measure.
Foremost(rows, measure(_)) ==
  rows[CHOOSE i \in DOMAIN rows :
         /\ \A j \in DOMAIN rows : measure(rows[j]) <= measure(rows[i])
         /\ \A j \in 1 .. i - 1 : measure(rows[j]) < measure(rows[i])]

\* _group_failed_results: the worst severity and the worst impact of a rule's rows.
Group(rows, r) ==
  LET of == RowsOf(rows, r)
  IN  [rule |-> r, affected_pages |-> Len(of),
       severity |-> Foremost(of, LAMBDA x : -SeverityRank(x.severity)).severity,
       impact |-> ImpactRank(Foremost(of, LAMBDA x : Magnitude(x.impact)).impact)]

Groups(rows) == {Group(rows, r) : r \in {rows[i].rule : i \in DOMAIN rows}}

RuleNumber(r) == CHOOSE i \in DOMAIN RuleOrder : RuleOrder[i] = r

\* _top_issue_sort_key
Precedes(g, h) ==
  LET key(x) == <<SeverityRank(x.severity), x.impact, -x.affected_pages, RuleNumber(x.rule)>>
  IN  \E i \in 1 .. 4 : key(g)[i] < key(h)[i] /\ \A j \in 1 .. i - 1 : key(g)[j] = key(h)[j]

Ordered(groups) == SetToSortSeq(groups, Precedes)

\* build_overview: counts of rows by severity, the checks of each category, the first issues.
Overview(rows) ==
  [total      |-> Len(rows),
   tiers      |-> [s \in {"critical", "high", "medium", "low"} |->
                     Cardinality({i \in DOMAIN rows : rows[i].severity = s})],
   categories |-> [c \in Category |->
                     Cardinality({rows[i].rule : i \in {j \in DOMAIN rows : CategoryOf[rows[j].rule] = c}})],
   top_issues |-> Window(Ordered(Groups(rows)), MAX_TOP_ISSUES, 0)]

\* build_issue_list groups the rows of one page of the list.
IssueList(rows, limit, offset) ==
  [total |-> Len(rows), items |-> Ordered(Groups(Window(rows, limit, offset)))]

\* build_issue_pages
IssuePages(rows, r, limit, offset) ==
  LET of == RowsOf(rows, r)
      window == Window(of, limit, offset)
  IN  [total |-> Len(of), items |-> [i \in DOMAIN window |-> window[i].page]]

\* build_issue_detail passes the audit's id twice to get_failed_pages_for_rule, which raises,
\* unless the rule has no failed row.
IssueDetail(rows, r) == IF RowsOf(rows, r) # <<>> THEN "error" ELSE "skeleton"

\* build_issue_evidence: the rows of the issue up to HARD_CAP, all on one page.
HARD_CAP == 1000
IssueEvidence(rows, r) == IssuePages(rows, r, HARD_CAP, 0).items

\* build_page_detail
PageIssues(raised, v) == UNION {FailedRow(raised, v, r) : r \in Rule}

-----------------------------------------------------------------------------
(* report_assembler *)

\* _tier_for_severity: errors are shown as warnings, of a high priority.
Folded(severity) == IF severity \in {"critical", "warning", "info"} THEN severity ELSE "warning"
Priority(severity) == CASE severity \in {"critical", "error"} -> "high" [] severity = "info" -> "low" [] OTHER -> "medium"

\* The report joins categories of the scorer.
INTERNAL_TO_RESPONSE ==
  "on_page" :> "on_page_seo" @@ "technical" :> "technical_seo" @@ "links" :> "off_page_seo" @@ "schema" :> "technical_seo"

_resolve_category(c) == IF c \in DOMAIN INTERNAL_TO_RESPONSE THEN INTERNAL_TO_RESPONSE[c] ELSE c

Shown(r) == _resolve_category(CategoryOf[r])
ResponseCategory == {_resolve_category(c) : c \in Category}

\* _build_issues of a category: the first failed row of a check speaks for all of them.
ReportIssues(rows, k) ==
  {[check |-> r, severity |-> Folded(RowsOf(rows, r)[1].severity),
    priority |-> Priority(RowsOf(rows, r)[1].severity),
    affected_page_count |-> Len(RowsOf(rows, r))] :
     r \in {q \in Rule : Shown(q) = k /\ RowsOf(rows, q) # <<>>}}

\* The value of a category: the mean over its rows of 100 points, less the penalty; a rule
\* that raised has no penalty.  The site has the mean of the categories by their rows.
CheckValue(raised, x) ==
  IF x \in raised \/ row[x[1]][x[2]].passed THEN 100
  ELSE LET points == 100 + row[x[1]][x[2]].impact IN IF points < 0 THEN 0 ELSE points

RowsIn(raised, k) ==
  {x \in Variant \X Rule : Shown(x[2]) = k /\ (row[x[1]][x[2]] # Missing \/ x \in raised)}

CategoryValue(raised, k) ==
  Rounded(Sum(LAMBDA x : CheckValue(raised, x), RowsIn(raised, k)), Cardinality(RowsIn(raised, k)))

Applicable(raised) == {k \in ResponseCategory : RowsIn(raised, k) # {}}

OverallValue(raised) ==
  LET share(k) == Cardinality(RowsIn(raised, k))
  IN  IF Applicable(raised) = {} THEN 0
      ELSE Rounded(Sum(LAMBDA k : CategoryValue(raised, k) * share(k), Applicable(raised)),
                   10 * Sum(share, Applicable(raised)))

\* build_report_response
Report(raised) ==
  LET rows   == RowsAlong(ByPage, raised)
      issues == [k \in ResponseCategory |-> ReportIssues(rows, k)]
      Of(s)  == Sum(LAMBDA k : Cardinality({i \in issues[k] : i.severity = s}), ResponseCategory)
  IN  [issues |-> issues, critical_issues |-> Of("critical"), warnings |-> Of("warning"),
       checks_run |-> Cardinality({x \in Variant \X Rule : row[x[1]][x[2]] # Missing \/ x \in raised}),
       passed |-> Cardinality({x \in Variant \X Rule : x \notin raised /\ row[x[1]][x[2]] # Missing
                                                         /\ row[x[1]][x[2]].passed})]

-----------------------------------------------------------------------------
(* Properties *)

\* Reading on from window to window, as a client does.
Paged(window(_), size, limit) == FlattenSeq([n \in 1 .. (size \div limit) + 1 |-> window((n - 1) * limit)])

\* Three readers of the same rows, two of which see the crawled pages and one the canonical
\* ones, name the same failed rules, apart from those that only raised; whatever the size of
\* the windows, a client that reads on sees every affected page of an issue once; what the
\* overview cuts off is no worse than what it shows; a category of the report counts what
\* the overview counts in the categories joined in it, and the value of the report is
\* between those of its categories.
ReadersAgree ==
  left = {} =>
    \A raised \in SUBSET {x \in Variant \X Rule : row[x[1]][x[2]] = Missing} :
      \E rows \in {get_failed_by_audit_id(raised)} : \E overview \in {Overview(rows)}, report \in {Report(raised)} :
        LET groups == Groups(rows) IN
        /\ {g.rule : g \in groups} = Issues \cup {x[2] : x \in raised}
        /\ \A g \in groups, limit \in 1 .. 2 :
             LET pages == Paged(LAMBDA from : IssuePages(rows, g.rule, limit, from).items, Len(rows), limit)
                 items == Paged(LAMBDA from : IssueList(rows, limit, from).items, Len(rows), limit)
             IN  /\ Len(pages) = g.affected_pages /\ IsInjective(pages)
                 /\ pages = IssueEvidence(rows, g.rule)
                 /\ {KeyOf[v] : v \in Range(pages)} =
                      AffectedPages(g.rule) \cup {KeyOf[x[1]] : x \in {y \in raised : y[2] = g.rule}}
                 /\ \A v \in Variant : v \in Range(pages) <=> \E x \in PageIssues(raised, v) : x.rule = g.rule
                 /\ g.affected_pages =
                      Sum(LAMBDA i : items[i].affected_pages, {i \in DOMAIN items : items[i].rule = g.rule})
        /\ \A g \in groups : \E i \in report.issues[Shown(g.rule)] :
             i.check = g.rule /\ i.affected_page_count = g.affected_pages
        /\ \A k \in ResponseCategory :
             Cardinality(report.issues[k]) =
               Sum(LAMBDA c : overview.categories[c], {c \in Category : _resolve_category(c) = k})
        /\ report.checks_run = report.passed + overview.total
        /\ \A g \in groups \ Range(overview.top_issues), t \in Range(overview.top_issues) :
             SeverityRank(t.severity) <= SeverityRank(g.severity)
        /\ Applicable(raised) # {} => \E worst, best \in Applicable(raised) :
             OverallValue(raised) \in CategoryValue(raised, worst) .. CategoryValue(raised, best)
        /\ SummaryTier("critical") <= overview.tiers["critical"]
        /\ \A r \in Rule : IssueDetail(rows, r) = "skeleton" <=> r \notin Issues \cup {x[2] : x \in raised}
=============================================================================
