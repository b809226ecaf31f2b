---------------------------- MODULE RedirectAnswers ----------------------------
(***************************************************************************)
(* What the API answers of one audit of redirect_urls, and what these      *)
(* answers promise, said of the committed row and graph, of the site, and  *)
(* of what the client's stream has told.  RedirectAudit says how they come *)
(* about.                                                                  *)
(***************************************************************************)
EXTENDS RedirectChains

VARIABLES
  site,       \* what there is to audit
  audit,      \* the committed row and graph
  checks,     \* the results of the checks that the last execution made
  pc,         \* where the execution of the task is
  event       \* the client's event stream

Terminal == {"completed", "partial", "failed"}

OnSite(s) == Url \ s.foreign

\* The links of a page that stay on the site; whoever uses them takes each once.
LinksOn(s, u) ==
  IF s.answer[u] = "page" THEN Picked(s.links[u], OnSite(s), Len(s.links[u])) ELSE <<>>

PageLinks(u) == LinksOn(site, u)

\* build_result, from the committed rows alone.
Shown(a) == {Rebuilt(a.graph, node) : node \in a.graph.checked}

Response(a) ==
  LET shown == Shown(a)
  IN  [status |-> a.status, error |-> a.error, found |-> a.found, results |-> shown,
       overall |-> Overall(shown, a.complete), findings |-> Findings(shown),
       recommendations |-> Recommendations(shown), summary |-> Summary(shown)]

-----------------------------------------------------------------------------
(* What there is to find, read from the site alone *)

\* The URL to which n redirects lead, if there is one.
RedirectsTo(u) ==
  LET to[n \in 0 .. MaxHops] ==
        IF n = 0 THEN {u} ELSE {site.answer[v] : v \in {w \in to[n - 1] : site.answer[w] \in Url}}
  IN  to

\* At most max_hops redirects lead from u to one of these answers.
LeadsTo(u, answers) == \E n \in 0 .. MaxHops : \E v \in RedirectsTo(u)[n] : site.answer[v] \in answers

\* The URLs whose results the audit shows.
Found == {node.url : node \in audit.graph.checked}

\* A check in which a request failed: it did not go as the site answers.
Interrupted(r) ==
  \E walk \in {Walk(site, r.url)} : r.end # walk.end \/ r.at # walk.at \/ r.hops # walk.hops

\* The run has come to its own end.
Finished == audit.status \in {"completed", "partial"} \/ audit.error \in {"no_urls", "unchecked"}

-----------------------------------------------------------------------------
(* Properties *)

\* The hops that an answer shows were stored apart, each once for all the walks that took it.
\* They begin with those of the check.  Where the check ended at the hop limit or because a
\* request failed they may be more: what other walks were answered from there on.  What else is
\* shown of the check is what it found.
RebuiltAsWalked ==
  Finished =>
    \A shown \in Shown(audit) : \E check \in checks :
      /\ shown.url = check.url /\ shown.end = check.end /\ shown.at = check.at
      /\ shown.count = Len(check.hops) /\ IsPrefix(check.hops, shown.hops)
      /\ shown.end # "limit" /\ ~Interrupted(check) => shown.hops = check.hops
      /\ \A h \in ToSet(shown.hops) : site.answer[h.at] = h.to
      /\ shown.sources = {u \in Found : shown.url \in ToSet(PageLinks(u))}

\* The URLs found that lead to one of these answers by no more redirects than were asked for, in a
\* check whose requests were answered.
Led(answers) == {r.url : r \in {q \in checks : ~Interrupted(q) /\ LeadsTo(q.url, answers)}}

\* Those at which a server error put an end to the check.
ServerErrors == {r.url : r \in {q \in checks : Interrupted(q) /\ q.end = "gone"}}

\* Status and verdict say of the site what is true of it, but for the requests that failed: how
\* many of the URLs found lead to an answer, or to a page.
VerdictIsTrue ==
  Finished =>
    \E answered \in {Led({"page", "gone"}) \cup ServerErrors}, good \in {Led({"page"})},
       overall  \in {Overall(Shown(audit), audit.complete)} :
      /\ Found = {r.url : r \in checks}
      /\ (audit.status = "failed") <=> (answered = {})
      /\ (audit.status = "completed") <=> (answered = Found /\ Found # {} /\ audit.complete)
      /\ (overall = "fail") <=> (good # Found)
      /\ overall = "pass" => good = Found /\ Found # {} /\ audit.complete

\* Whoever sees an audit that has ended well sees all of it: the status, the counts and the
\* graph are never apart, and what the stream has told stays the answer.
EndIsWhole ==
  /\ audit.status \in {"completed", "partial"} =>
       /\ audit.found = Cardinality(Found)
       /\ audit.failed = Cardinality({node \in audit.graph.checked : node.end \in Unverified})
       /\ audit.passed + audit.failed = audit.found
  /\ event # <<>> /\ event[1].status \in {"completed", "partial"} =>
       event[1].results = Shown(audit)

\* An ended audit is not opened again, by a message delivered twice either.  Its status changes
\* only if something raises between its final commit and the end of its task, or if POST /check
\* is told that it could not send a message which is executed all the same: it then calls the
\* audit failed whatever the execution has made of it, and the execution goes on regardless.
VerdictStands ==
  [][audit.status \in Terminal /\ audit'.status # audit.status
       => \/ audit'.status = "failed" /\ (pc = "return" \/ audit'.error = "queue")
          \/ audit.error = "queue" /\ pc \in {"begin", "discover", "store"}]_audit
=============================================================================
