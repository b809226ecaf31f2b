\* Every page with at most two faults, and each of the two audits.
CONSTANTS
  Start <- Pages
  MaxExternal = 2
  Missing = Missing
SPECIFICATION PASpec
INVARIANTS
  VerdictsAreTrue
PROPERTIES
  AdviceConverges
  AdviceNeverCosts
\* Some page has nothing left to repair.
CHECK_DEADLOCK FALSE
