-------------------------- MODULE MCStreamingAudit --------------------------
(* An instance of StreamingAudit for TLC: two sections of a site are read at  *)
(* the same time, with one page of the budget left for what they link to.    *)
EXTENDS StreamingAudit, TLC

CONSTANTS home, a, b, c, d, e

SiteLinks == home :> <<a, b>> @@ a :> <<home, c>> @@ b :> <<c, d, e>>
             @@ c :> <<>> @@ d :> <<>> @@ e :> <<>>
=============================================================================
