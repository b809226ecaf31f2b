----------------------------- MODULE RedirectAudit -----------------------------
(***************************************************************************)
(* One audit of redirect_urls: POST /check commits it and sends            *)
(* redirect_check.run_domain_check, whose executions discover the pages of *)
(* a site breadth first, walk the redirects of each, and store the graph   *)
(* from which every later answer is built.  A client listens to the event  *)
(* stream.  A step is the code up to a commit of the audit's row; a site   *)
(* gives the same answer as long as it is audited, but a request of a      *)
(* check may fail.  The task is not retried; when a worker dies it is      *)
(* delivered again or is lost.                                             *)
(***************************************************************************)
EXTENDS RedirectDiscovery

CONSTANTS
  Sites,        \* the sites that may be audited
  Batch,        \* pages fetched, and chains walked, at a time (10 in the code)
  MaxFaults     \* bound on failed requests, raised errors, time limits and deaths

ASSUME AuditAssumption ==
  /\ Sites \subseteq Site /\ Batch \in Nat \ {0} /\ MaxFaults \in Nat
  /\ \A s \in Sites : s.home \notin s.foreign

VARIABLES
  api,        \* the progress of POST /check
  faults

vars == <<site, api, audit, pc, crawl, checks, event, faults>>

Running == {"begin", "discover", "check", "store", "return"}

TypeOK ==
  /\ api \in {"new", "created", "sent", "refused"}
  /\ audit.status \in {"queued", "discovering", "checking"} \cup Terminal
  /\ audit.error \in {"none", "queue", "raised", "timeout", "no_urls", "discovery", "unchecked"}
  /\ audit.found \in 0 .. MaxUrls /\ audit.passed \in Nat /\ audit.failed \in Nat
  /\ pc \in {"none", "queued", "done", "lost"} \cup Running
  /\ faults \in 0 .. MaxFaults
  /\ Len(crawl.urls) <= MaxUrls /\ crawl.links \subseteq [from : Url, to : Url]

NewAudit == [status |-> "queued", error |-> "none", found |-> 0, passed |-> 0, failed |-> 0,
             graph |-> NoGraph, complete |-> TRUE]

Init ==
  /\ site \in Sites /\ api = "new" /\ audit = NewAudit
  /\ pc = "none" /\ crawl = NoCrawl /\ checks = {} /\ event = <<>> /\ faults = 0

Fault == faults < MaxFaults /\ faults' = faults + 1

-----------------------------------------------------------------------------
(* POST /check *)

Create ==
  /\ api = "new" /\ api' = "created"
  /\ UNCHANGED <<site, audit, pc, crawl, checks, event, faults>>

\* The broker takes the message; a worker may begin before the caller knows.
Accept ==
  /\ api = "created" /\ pc = "none" /\ pc' = "queued"
  /\ UNCHANGED <<site, api, audit, crawl, checks, event, faults>>

Send ==
  /\ api = "created" /\ pc # "none" /\ api' = "sent"
  /\ UNCHANGED <<site, audit, pc, crawl, checks, event, faults>>

\* send_task raises, before the broker has the message or after.  The caller is told 503, and so
\* is whoever reads the audit.
SendFails ==
  /\ Fault /\ api = "created" /\ api' = "refused"
  /\ audit' = [audit EXCEPT !.status = "failed", !.error = "queue"]
  /\ UNCHANGED <<site, pc, crawl, checks, event>>

-----------------------------------------------------------------------------
(* The discovery *)

\* _run_pipeline: an ended audit is not run again.
Admit_Ungated ==
  /\ pc = "queued" /\ pc' = "begin"
  /\ UNCHANGED <<site, api, audit, crawl, checks, event, faults>>

Admit ==
  /\ pc = "queued" /\ audit.status \notin Terminal /\ pc' = "begin"
  /\ UNCHANGED <<site, api, audit, crawl, checks, event, faults>>

\* Whatever its status has become since it was read.  A column is written only if it changes what
\* was read, so that of a failure committed in between the error stays, and the status as well if
\* it was read as discovering.
Begin ==
  /\ pc = "begin" /\ pc' = "discover"
  /\ \E status \in {"discovering"} \cup {t \in Terminal : t = audit.status} :
       audit' = [audit EXCEPT !.status = status, !.error = IF audit.status \in Terminal THEN @ ELSE "none"]
  /\ crawl' = Seeded /\ checks' = {}
  /\ UNCHANGED <<site, api, event, faults>>

BeginEnded ==
  /\ pc = "queued" /\ audit.status \in Terminal
  /\ pc' = "done"
  /\ UNCHANGED <<site, api, audit, crawl, checks, event, faults>>

\* A batch is worked off; its progress is committed.
DiscoverBatch ==
  /\ pc = "discover"
  /\ \E n \in 1 .. Batch :
       /\ n = Min({Batch, MaxUrls - Len(crawl.urls), Len(Pending)})
       /\ crawl' = BatchWorkedOff(n)
  /\ UNCHANGED <<site, api, audit, pc, checks, event, faults>>

\* An audit that has found no URL is failed at once, while its task goes on.
Discovered ==
  /\ pc = "discover" /\ (Pending = <<>> \/ Len(crawl.urls) = MaxUrls)
  /\ audit' = [audit EXCEPT !.found = Len(crawl.urls),
                            !.status = IF crawl.urls = <<>> THEN "failed" ELSE "checking"]
  /\ pc' = "check"
  /\ UNCHANGED <<site, api, crawl, checks, event, faults>>

-----------------------------------------------------------------------------
(* The checks, and the end *)

Atmost(seq, n) == SubSeq(seq, 1, IF Len(seq) < n THEN Len(seq) ELSE n)

IsError(r) == r.end \in Unverified

\* Counts are committed when all are checked; those in between only when their number is a
\* multiple of twenty, which the model leaves out.  The URLs of a
\* batch are walked at once, each with requests of its own.
CheckBatch ==
  /\ pc = "check" /\ Cardinality(checks) < Len(crawl.urls)
  /\ \E n \in {Len(Atmost(crawl.urls, Cardinality(checks) + Batch))} :
     \E urls \in {{crawl.urls[i] : i \in Cardinality(checks) + 1 .. n}} :
     \E walk \in [urls -> UNION {Walks(site, u) : u \in urls}] :
     \E all \in {checks \cup Checks(site, {walk[u] : u \in urls})} :
       /\ \A u \in urls : walk[u] \in Walks(site, u)
       /\ faults' = faults + Cardinality({u \in urls : walk[u] # Walk(site, u)})
       /\ faults' <= MaxFaults
       /\ checks' = all
       /\ audit' = IF n < Len(crawl.urls) THEN audit
                   ELSE LET bad == Cardinality({r \in all : IsError(r)})
                        IN  [audit EXCEPT !.passed = n - bad, !.failed = bad]
  /\ UNCHANGED <<site, api, pc, crawl, event>>

Checked ==
  /\ pc = "check" /\ Cardinality(checks) = Len(crawl.urls) /\ pc' = "store"
  /\ UNCHANGED <<site, api, audit, crawl, checks, event, faults>>

FinalStatus ==
  IF \A r \in checks : IsError(r) THEN "failed"
  ELSE IF (\E r \in checks : IsError(r)) \/ ~crawl.complete THEN "partial" ELSE "completed"

FinalError ==
  IF checks = {} THEN "no_urls"
  ELSE IF \A r \in checks : IsError(r) THEN "unchecked"
  ELSE IF crawl.complete THEN "none" ELSE "discovery"

\* replace_graph does not commit: the graph and the row that calls it final become visible
\* together.  No error is written over an error that has been committed since the row was read.
Stored == Graph(checks, crawl.links, crawl.depth, ToSet(crawl.listed))

Store_StatusFirst ==
  /\ pc = "store"
  /\ IF audit.status = "checking"
     THEN /\ audit' = [audit EXCEPT !.status = FinalStatus] /\ pc' = pc
     ELSE /\ audit' = [audit EXCEPT !.error = FinalError, !.complete = crawl.complete, !.graph = Stored]
          /\ pc' = "return"
  /\ UNCHANGED <<site, api, crawl, checks, event, faults>>

Store ==
  /\ pc = "store" /\ pc' = "return"
  /\ \E error \in IF FinalError = "none" THEN {"none", audit.error} ELSE {FinalError} :
       audit' = [audit EXCEPT !.status = FinalStatus, !.error = error, !.complete = crawl.complete,
                              !.graph = Stored]
  /\ UNCHANGED <<site, api, crawl, checks, event, faults>>

\* build_result of what was stored, and the end of the task.
Return ==
  /\ pc = "return" /\ pc' = "done"
  /\ UNCHANGED <<site, api, audit, crawl, checks, event, faults>>

Task == Admit \/ Begin \/ BeginEnded \/ DiscoverBatch \/ Discovered \/ CheckBatch \/ Checked \/ Store \/ Return

\* Something raises, or wait_for runs into AUDIT_TIMEOUT_SECONDS: the handler calls the audit
\* failed, even after its final commit.
Raise ==
  /\ Fault /\ pc \in Running
  /\ \E e \in {"raised", "timeout"} : audit' = [audit EXCEPT !.status = "failed", !.error = e]
  /\ pc' = "done"
  /\ UNCHANGED <<site, api, crawl, checks, event>>

\* What raises is outside the handler, or in it, or the process dies and takes an acknowledged
\* message with it.
Lose ==
  /\ Fault /\ pc \in Running \cup {"queued"} /\ pc' = "lost"
  /\ UNCHANGED <<site, api, audit, crawl, checks, event>>

\* The worker dies; the message is delivered again.
Redeliver ==
  /\ Fault /\ pc \in Running /\ pc' = "queued"
  /\ crawl' = NoCrawl
  /\ UNCHANGED <<site, api, audit, checks, event>>

-----------------------------------------------------------------------------
(* The answers of the API *)

\* The stream closes with the result as soon as it sees a terminal status.
Listen ==
  /\ api # "new" /\ event = <<>> /\ audit.status \in Terminal
  /\ event' = <<Response(audit)>>
  /\ UNCHANGED <<site, api, audit, pc, crawl, checks, faults>>

Idle == pc \in {"none", "done", "lost"} /\ api \in {"sent", "refused"} /\ UNCHANGED vars

Next == Create \/ Accept \/ Send \/ SendFails \/ Task \/ Raise \/ Lose \/ Redeliver \/ Listen \/ Idle

Spec == Init /\ [][Next]_vars

=============================================================================
