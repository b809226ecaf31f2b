----------------------------- MODULE AuditReport -----------------------------
(***************************************************************************)
(* AuditResponseBuilder.build: from the rule results of the crawled pages  *)
(* to scores, categories, issues and the summary.  Host and slash variants *)
(* of a page are merged first, in the order of the rows, which is that of  *)
(* random page ids; everything else is computed from the merged verdicts.  *)
(* Scores are integers in tenths of a point.  A row of severity "error" is *)
(* left out by build as if it were not there.  Not modelled: the issue     *)
(* missing_www_redirect, which belongs to no check and no category's count.*)
(***************************************************************************)
EXTENDS Scorer, FiniteSets

CONSTANTS
  Variant,          \* crawl pages
  Key, KeyOf,       \* canonical pages, and that of each crawl page
  Home,             \* crawl pages of depth 0
  Category,
  Bonus, Penalty    \* score_impact of rules that pass, and of rules that fail

ASSUME ReportAssumption ==
  /\ IsFiniteSet(Variant) /\ IsFiniteSet(Rule) /\ IsFiniteSet(Category) /\ IsFiniteSet(Key)
  /\ KeyOf \in [Variant -> Key] /\ Home \subseteq Variant
  /\ CategoryOf \in [Rule -> Category] /\ Weight \in [Category -> Nat \ {0}]
  /\ Bonus \subseteq Nat /\ Penalty \subseteq Int /\ \A n \in Penalty : n <= 0
  /\ Missing \notin [passed : BOOLEAN, impact : Bonus \cup Penalty]

Verdict == [passed : {TRUE}, impact : Bonus] \cup [passed : {FALSE}, impact : Penalty]

VARIABLES
  row,      \* the rows of rule_evaluation_results
  left,     \* crawl pages whose rows are still to be merged
  order,    \* canonical pages in the order of their first row
  merged    \* canonical_results

vars == <<row, left, order, merged>>

TypeOK ==
  /\ row \in [Variant -> [Rule -> Verdict \cup {Missing}]]
  /\ left \subseteq Variant /\ order \in Seq(Key)
  /\ merged \in [Key -> [Rule -> Verdict \cup {Missing}]]

Init ==
  /\ row \in [Variant -> [Rule -> Verdict \cup {Missing}]]
  /\ left = Variant /\ order = <<>>
  /\ merged = [k \in Key |-> [r \in Rule |-> Missing]]

\* The first verdict is kept, except that a failure replaces a pass.
Keep(old, new) ==
  IF new # Missing /\ (old = Missing \/ (~new.passed /\ old.passed)) THEN new ELSE old

Merge(v) ==
  LET k == KeyOf[v] IN
  /\ v \in left /\ left' = left \ {v}
  /\ merged' = [merged EXCEPT ![k] = [r \in Rule |-> Keep(merged[k][r], row[v][r])]]
  /\ order' = IF k \in Range(order) \/ \A r \in Rule : row[v][r] = Missing
              THEN order ELSE Append(order, k)
  /\ UNCHANGED row

Next == \E v \in Variant : Merge(v)

Spec == Init /\ [][Next]_vars

-----------------------------------------------------------------------------
(* Scores *)

Scored(m) == {k \in Key : Checked(m[k]) # {}}
PageWeight(k) == IF \E v \in Home : KeyOf[v] = k THEN 2 ELSE 1

\* overall_score: the mean over the canonical pages with verdicts, the homepage twice.
Overall(m) ==
  IF Scored(m) = {} THEN 0
  ELSE Rounded(Sum(LAMBDA k : PageScore(m[k]) * PageWeight(k), Scored(m)),
               10 * Sum(PageWeight, Scored(m)))

-----------------------------------------------------------------------------
(* Categories, issues and the summary *)

\* Canonical pages of the crawl, with or without verdicts.
Analyzed == {KeyOf[v] : v \in Variant}

FailsOn(r, k) == merged[k][r] # Missing /\ ~merged[k][r].passed

\* A check's share of passing pages; a page with verdicts that lacks this one passes,
\* a page without verdicts does not.
CheckScore(r) ==
  Rounded(100 * Cardinality({k \in Scored(merged) : ~FailsOn(r, k)}), Cardinality(Analyzed))

PASS_THRESHOLD == 1000

RulesOf(c) == {r \in Rule : CategoryOf[r] = c /\ \E k \in Key : merged[k][r] # Missing}
ChecksPassed_AnyPage(c) ==
  {r \in RulesOf(c) : \E k \in Scored(merged) : ~FailsOn(r, k)}

ChecksPassed(c) == {r \in RulesOf(c) : CheckScore(r) >= PASS_THRESHOLD}

\* _build_issues: the rules that fail somewhere, with the pages they fail on.
Issues == {r \in Rule : \E k \in Key : FailsOn(r, k)}
AffectedPages(r) == {k \in Key : FailsOn(r, k)}

\* _build_summary keeps one verdict per rule: that of the first page which has one.
FirstPage(r) ==
  LET has == {i \in DOMAIN order : merged[order[i]][r] # Missing}
  IN  order[CHOOSE i \in has : \A j \in has : i <= j]

SummaryFailed ==
  {r \in Rule : (\E k \in Key : merged[k][r] # Missing) /\ FailsOn(r, FirstPage(r))}

-----------------------------------------------------------------------------
(* Properties *)

MergedBy(k) == {v \in Variant \ left : KeyOf[v] = k}

\* "ONE result per rule_id (worst verdict wins)": whatever the order of the rows, a
\* canonical page fails a rule iff one of its variants does, and has a verdict iff one has.
WorstVerdictWins ==
  \A k \in Key, r \in Rule :
    /\ merged[k][r] # Missing <=> \E v \in MergedBy(k) : row[v][r] # Missing
    /\ FailsOn(r, k) <=> \E v \in MergedBy(k) : row[v][r] # Missing /\ ~row[v][r].passed

\* No check that has an issue, or that the summary counts as failed, counts as passed in
\* its category, however the shares are rounded (below 2000 pages).
IssueFailsItsCheck ==
  \A r \in Issues \cup SummaryFailed : r \notin ChecksPassed(CategoryOf[r])

\* Repairing what fails on a canonical page never lowers the score of the site, although
\* weights are normalised, bonuses and penalties clamped and every mean rounded.
RepairNeverHurts ==
  \A k \in Key, r \in Rule, bonus \in Bonus :
    FailsOn(r, k) =>
      Overall([merged EXCEPT ![k][r] = [passed |-> TRUE, impact |-> bonus]]) >= Overall(merged)
=============================================================================
