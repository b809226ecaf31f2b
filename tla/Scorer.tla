-------------------------------- MODULE Scorer --------------------------------
(***************************************************************************)
(* ScoreCalculator: the score of a page from the verdicts on it, in tenths *)
(* of a point.  A verdict has the fields passed and impact.                *)
(***************************************************************************)
EXTENDS Integers, SequencesExt

CONSTANTS
  Rule, CategoryOf,
  Weight,           \* of a category in the score of a page, in hundredths
  Missing           \* no verdict

Sum(f(_), S) == MapThenSumSet(f, S)

\* round(num / den, 1)
Rounded(num, den) == (20 * num + den) \div (2 * den)

\* The rules that have a verdict on the page, and their categories.
Checked(page) == {r \in Rule : page[r] # Missing}
Categories(page) == {CategoryOf[r] : r \in Checked(page)}

\* 100 with the penalties and the bonuses, clamped to 0 .. 100.
CategoryScore(page, c) ==
  LET score == 100 + Sum(LAMBDA r : page[r].impact, {r \in Checked(page) : CategoryOf[r] = c})
  IN  10 * (IF score < 0 THEN 0 ELSE IF score > 100 THEN 100 ELSE score)

\* The weighted mean over the categories that the page has verdicts in.
PageScore_FailedOnly(page) ==
  LET failed == {CategoryOf[r] : r \in {q \in Checked(page) : ~page[q].passed}}
  IN  IF failed = {} THEN 1000
      ELSE Rounded(Sum(LAMBDA c : CategoryScore(page, c) * Weight[c], failed),
                   10 * Sum(LAMBDA c : Weight[c], failed))

PageScore(page) ==
  Rounded(Sum(LAMBDA c : CategoryScore(page, c) * Weight[c], Categories(page)),
          10 * Sum(LAMBDA c : Weight[c], Categories(page)))
=============================================================================
