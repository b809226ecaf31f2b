\* Two workers and two slots: the slot that a dead worker leaks makes the survivors
\* refuse each other.  Four pages are the budget of a site of six.  No symmetry: the
\* run checks liveness.
CONSTANTS
  home = home  a = a  b = b  c = c  d = d  e = e
  Page = {home, a, b, c, d, e}
  Seed = home
  Links <- SiteLinks
  Worker = {w1, w2}
  Limit = 2
  MaxPages = 4
  MaxDepth = 2
  MaxRetries = 1
  MaxIncidents = 1
SPECIFICATION LiveSpec
INVARIANTS
  PageBudgetOvershoot
PROPERTIES
  ClaimedPageEnds
  RestsWithNothingHeld
\* An audit comes to rest.
CHECK_DEADLOCK FALSE
