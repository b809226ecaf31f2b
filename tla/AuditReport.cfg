\* Two rules of categories that the report joins, and one of a third, on a page with a
\* variant and on a page of its own; a bonus that the clamp takes away, and penalties.
CONSTANTS
  www = www  bare = bare  other = other
  homepage = homepage  page = page
  title = title  robots = robots  markup = markup
  Variant = {www, bare, other}
  Key = {homepage, page}
  KeyOf <- Keys
  Home = {bare}
  Rule = {title, robots, markup}
  Category = {"on_page", "technical", "schema"}
  CategoryOf <- Cats
  Weight <- Weights
  Bonus = {0, 2}
  Penalty <- Penalties
  Missing = Missing
  SeverityOf <- Severities
  HighImpact = {title}
  RuleOrder <- Rules
  PageOrder <- Pages
  MAX_TOP_ISSUES = 1
SPECIFICATION MCSpec
INVARIANTS
  ReadersAgree
  IssueFailsItsCheck
  RepairNeverHurts
\* The loop ends.
CHECK_DEADLOCK FALSE
