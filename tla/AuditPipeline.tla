---------------------------- MODULE AuditPipeline ----------------------------
(***************************************************************************)
(* The analysis of a crawl: executions of audit.run_analysis_pipeline that *)
(* parse the pages, evaluate the rules and score the audit, each stage in  *)
(* a session of its own, and the readers that serve the result from Redis, *)
(* the output file or the database.  An execution may raise (and be        *)
(* retried), die (and be delivered again), or outlive its task's soft time *)
(* limit (shared/tasks/db.py) beside its own retry.                        *)
(* A report is abstracted to the rule results it was built from.  The link *)
(* check, stage 0, writes only columns that nothing here reads.            *)
(***************************************************************************)
EXTENDS Naturals, FiniteSets

CONSTANTS
  Page,             \* the successful pages of the crawl
  Bare,             \* those whose snapshot has no content
  Ignored,          \* those an ignore pattern of scope "seo" matches
  MaxExecutions,    \* deliveries and retries of the task
  MaxFaults,        \* bound on errors, time limits and deaths
  NoPage

ASSUME PipelineAssumption ==
  /\ IsFiniteSet(Page) /\ Bare \subseteq Page /\ Ignored \subseteq Page
  /\ MaxExecutions \in Nat \ {0} /\ MaxFaults \in Nat
  /\ NoPage \notin Page

Exec == 1 .. MaxExecutions
Stage == {"parse", "evaluate", "score"}

\* A page has the results of its rules, or the one "evaluation_error" row, or both.
Rows == SUBSET (Page \X {"rules", "error"})
NoReport == {<<NoPage, "none">>}
Report == Rows \cup {NoReport}

VARIABLES
  facts,    \* pages with a committed row in parsed_page_facts
  rows,     \* committed rows of rule_evaluation_results
  saved,    \* the committed row of seo_analysis_runs
  file,     \* app/output/{domain}_{audit_id}.json
  result,   \* Redis audit:result:{audit_id}:full
  status,   \* whether Redis has audit:status:{audit_id}, which says "completed" throughout
  force,    \* the message's force flag
  exec,     \* the executions
  reader,   \* what a GET is about to put into Redis
  faults

db == <<facts, rows, saved>>
cache == <<result, status>>
vars == <<db, file, cache, force, exec, reader, faults>>

Running == {"begin", "parse", "evaluate?", "evaluate", "score?", "file", "select", "save",
            "result", "status"}

TypeOK ==
  /\ facts \subseteq Page /\ rows \in Rows
  /\ {saved, file, result, reader} \subseteq Report /\ {status, force} \subseteq BOOLEAN
  /\ exec \in [Exec -> [pc : {"none", "queued", "raised", "done"} \cup Running,
                        watched : BOOLEAN,      \* the task's thread waits for it
                        todo : SUBSET Page,     \* pages of the stage still to do
                        page : Page \cup {NoPage},   \* the page being stored
                        exists : BOOLEAN,       \* what upsert's SELECT found
                        flushed : SUBSET Page,  \* stored, not committed
                        aborted : BOOLEAN,      \* a flush failed: the session is unusable
                        unparsed : SUBSET Page, \* pages that failed on their own
                        report : Report,
                        failed : SUBSET Stage]] \* results[stage] = {"error": ...}
  /\ faults \in 0 .. MaxFaults

NotStarted == [pc |-> "none", watched |-> TRUE, todo |-> {}, page |-> NoPage, exists |-> FALSE,
               flushed |-> {}, aborted |-> FALSE, unparsed |-> {}, report |-> NoReport,
               failed |-> {}]

\* The crawl has sent the message.
Init ==
  /\ facts = {} /\ rows = {} /\ saved = NoReport /\ file = NoReport
  /\ result = NoReport /\ status = FALSE /\ force \in BOOLEAN
  /\ exec = [x \in Exec |-> IF x = 1 THEN [NotStarted EXCEPT !.pc = "queued"] ELSE NotStarted]
  /\ reader = NoReport /\ faults = 0

Fault == faults < MaxFaults /\ faults' = faults + 1

\* Execution x goes from one place to another with record e.
Goes(x, from, to, e) == exec[x].pc = from /\ exec' = [exec EXCEPT ![x] = [e EXCEPT !.pc = to]]

Judged == {r[1] : r \in rows}

-----------------------------------------------------------------------------
(* The end of a task *)

\* The next delivery, if there is one.
WithNext(f, x) == [y \in Exec |-> IF y = x + 1 /\ f[y].pc = "none"
                                  THEN [f[y] EXCEPT !.pc = "queued"] ELSE f[y]]

\* The coroutine ends and rolls back; the task, if it still waits, comes again.
Ends(x) ==
  LET f == [exec EXCEPT ![x] = [NotStarted EXCEPT !.pc = "raised", !.watched = exec[x].watched]]
  IN  exec' = IF exec[x].watched THEN WithNext(f, x) ELSE f

\* _report_progress stands outside the stages' try: the task raises.
ReportRaises(x) ==
  /\ Fault /\ exec[x].pc \in {"queued", "begin", "evaluate?", "score?"} /\ Ends(x)
  /\ UNCHANGED <<db, file, cache, reader, force>>

\* The worker dies.
Crash(x) ==
  /\ Fault /\ exec[x].pc \in Running /\ Ends(x)
  /\ UNCHANGED <<db, file, cache, reader, force>>

\* The soft time limit ends the wait in run_async; the coroutine goes on.
SoftLimit(x) ==
  /\ Fault /\ exec[x].pc \in Running /\ exec[x].watched
  /\ exec' = WithNext([exec EXCEPT ![x].watched = FALSE], x)
  /\ UNCHANGED <<db, file, cache, reader, force>>

-----------------------------------------------------------------------------
(* Stage 1: parse_crawl *)

\* The stage raises, at whatever point: recorded, rolled back, and passed over.
StageFails(x, stage, from, to) ==
  /\ Goes(x, from, to, [exec[x] EXCEPT !.failed = @ \cup {stage}, !.todo = {}, !.page = NoPage,
                                       !.flushed = {}, !.aborted = FALSE, !.report = NoReport])
  /\ UNCHANGED <<db, file, cache, reader, force>>

Deliver(x) ==
  /\ Goes(x, "queued", "begin", exec[x])
  /\ UNCHANGED <<db, file, cache, reader, faults, force>>

\* get_existing_page_ids; a page without content returns no result.
ParseBegin(x) ==
  /\ Goes(x, "begin", "parse",
          [exec[x] EXCEPT !.todo = (Page \ Bare) \ (IF force THEN {} ELSE facts),
                          !.unparsed = Bare])
  /\ UNCHANGED <<db, file, cache, reader, faults, force>>

\* The parser raises on p, before any statement.
ParseFails(x, p) ==
  /\ Fault /\ p \in exec[x].todo /\ exec[x].page = NoPage
  /\ Goes(x, "parse", "parse", [exec[x] EXCEPT !.todo = @ \ {p}, !.unparsed = @ \cup {p}])
  /\ UNCHANGED <<db, file, cache, reader, force>>

\* upsert: the SELECT sees what is committed ...
UpsertSelect(x, p) ==
  /\ p \in exec[x].todo /\ exec[x].page = NoPage
  /\ Goes(x, "parse", "parse", [exec[x] EXCEPT !.page = p, !.exists = p \in facts])
  /\ UNCHANGED <<db, file, cache, reader, faults, force>>

\* The transaction that holds p's row or its key in the unique index.
Holds(y, p) == p \in exec[y].flushed
WaitsFor(x, y) == x # y /\ exec[x].page # NoPage /\ Holds(y, exec[x].page)

\* A flush fails: the transaction is gone, and every later page fails at its first
\* statement.  The loop catches it page by page and never rolls back.
Aborted(x) == [exec[x] EXCEPT !.todo = {}, !.page = NoPage, !.flushed = {}, !.aborted = TRUE]

\* ... the flush waits for a transaction that holds the page, and fails if it then
\* finds the row that the SELECT did not.
Flush(x) ==
  LET e == exec[x] IN
  /\ e.page # NoPage /\ ~\E y \in Exec : WaitsFor(x, y)
  /\ Goes(x, "parse", "parse",
          IF ~e.exists /\ e.page \in facts THEN Aborted(x)
          ELSE [e EXCEPT !.todo = @ \ {e.page}, !.page = NoPage, !.flushed = @ \cup {e.page}])
  /\ UNCHANGED <<db, file, cache, reader, faults, force>>

\* Two executions wait for each other (the pages come in no given order): PostgreSQL
\* ends one of the statements.
DeadlockVictim(x) ==
  /\ \E y \in Exec : WaitsFor(x, y) /\ WaitsFor(y, x)
  /\ Goes(x, "parse", "parse", Aborted(x))
  /\ UNCHANGED <<db, file, cache, reader, faults, force>>

\* commit raises on an unusable session: nothing of the stage is kept.
ParseCommit(x) ==
  /\ exec[x].todo = {} /\ ~exec[x].aborted
  /\ facts' = facts \cup exec[x].flushed
  /\ Goes(x, "parse", "evaluate?", [exec[x] EXCEPT !.flushed = {}])
  /\ UNCHANGED <<rows, saved, file, cache, reader, faults, force>>

ParseLost_RolledBack(x) ==
  /\ exec[x].todo = {} /\ exec[x].aborted
  /\ Goes(x, "parse", "evaluate?", [exec[x] EXCEPT !.aborted = FALSE])
  /\ UNCHANGED <<db, file, cache, reader, faults, force>>

ParseLost_TriesAgain(x) ==
  /\ exec[x].todo = {} /\ exec[x].aborted
  /\ Goes(x, "parse", "parse", exec[x])
  /\ UNCHANGED <<db, file, cache, reader, faults, force>>

ParseLost(x) ==
  /\ exec[x].todo = {} /\ exec[x].aborted
  /\ StageFails(x, "parse", "parse", "evaluate?") /\ UNCHANGED faults

ParseError(x) == Fault /\ exec[x].page = NoPage /\ StageFails(x, "parse", "parse", "evaluate?")

-----------------------------------------------------------------------------
(* Stage 2: evaluate_crawl *)

\* The parsed pages that are not ignored; a page with any row counts as evaluated.
EvaluateBegin(x) ==
  /\ Goes(x, "evaluate?", "evaluate",
          [exec[x] EXCEPT !.todo = (facts \ Ignored) \ (IF force THEN {} ELSE Judged)])
  /\ UNCHANGED <<db, file, cache, reader, faults, force>>

\* bulk_upsert and commit: the results of all pages at once; the pages of bad raised.
Written(todo, bad) == (todo \ bad) \X {"rules"} \cup bad \X {"error"}

EvaluateCommit_DeletesFirst(x) ==
  /\ \E bad \in SUBSET exec[x].todo :
       /\ IF bad = {} THEN UNCHANGED faults ELSE Fault
       /\ rows' = {r \in rows : r[1] \notin exec[x].todo} \cup Written(exec[x].todo, bad)
  /\ Goes(x, "evaluate", "score?", [exec[x] EXCEPT !.todo = {}])
  /\ UNCHANGED <<facts, saved, file, cache, reader, force>>

EvaluateCommit(x) ==
  /\ \E bad \in SUBSET exec[x].todo :
       /\ IF bad = {} THEN UNCHANGED faults ELSE Fault
       /\ rows' = rows \cup Written(exec[x].todo, bad)
  /\ Goes(x, "evaluate", "score?", [exec[x] EXCEPT !.todo = {}])
  /\ UNCHANGED <<facts, saved, file, cache, reader, force>>

EvaluateError(x) == Fault /\ StageFails(x, "evaluate", "evaluate", "score?")

-----------------------------------------------------------------------------
(* Stage 3: score_project, on whatever rows there are *)

\* No page passes every rule: what CanonicalUrl reads is never there (see PageAdvice).
HasIssues(report) == \E p \in Page : <<p, "rules">> \in report

ScoreBegin(x) ==
  /\ HasIssues(rows)
  /\ Goes(x, "score?", "file", [exec[x] EXCEPT !.report = rows])
  /\ UNCHANGED <<db, file, cache, reader, faults, force>>

\* build strips the empty list of issues, which score_project then looks up.
ScoreNoIssues(x) ==
  /\ ~HasIssues(rows)
  /\ StageFails(x, "score", "score?", "result") /\ UNCHANGED faults

\* The file comes before the row; its errors are swallowed.
WriteFile(x) ==
  /\ Goes(x, "file", "select", exec[x])
  /\ \/ file' = exec[x].report /\ UNCHANGED faults
     \/ Fault /\ UNCHANGED file
  /\ UNCHANGED <<db, cache, reader, force>>

SelectRun(x) ==
  /\ Goes(x, "select", "save", [exec[x] EXCEPT !.exists = saved # NoReport])
  /\ UNCHANGED <<db, file, cache, reader, faults, force>>

SaveRun(x) ==
  /\ exec[x].exists \/ saved = NoReport
  /\ saved' = exec[x].report
  /\ Goes(x, "save", "result", exec[x])
  /\ UNCHANGED <<facts, rows, file, cache, reader, faults, force>>

\* The unique index on audit_id: another execution has inserted the row meanwhile.
SaveConflict(x) ==
  /\ ~exec[x].exists /\ saved # NoReport
  /\ StageFails(x, "score", "save", "result") /\ UNCHANGED faults

ScoreError(x) ==
  Fault /\ \E from \in {"file", "select", "save"} : StageFails(x, "score", from, "result")

-----------------------------------------------------------------------------
(* The cache: the result, then the status; an error skips what is left. *)

SetResult(x) ==
  /\ "score" \notin exec[x].failed
  /\ result' = exec[x].report
  /\ Goes(x, "result", "status", exec[x])
  /\ UNCHANGED <<db, file, status, reader, faults, force>>

SetStatus(x) ==
  /\ Goes(x, "status", "done", [exec[x] EXCEPT !.report = NoReport])
  /\ status' = TRUE
  /\ UNCHANGED <<db, file, result, reader, faults, force>>

Done(x, from) ==
  /\ Goes(x, from, "done", [exec[x] EXCEPT !.report = NoReport])
  /\ UNCHANGED <<db, file, cache, reader, force>>

NothingToCache(x) == "score" \in exec[x].failed /\ Done(x, "result") /\ UNCHANGED faults
CacheError(x) == Fault /\ \E from \in {"result", "status"} : Done(x, from)

\* Both keys live a day from two SETs a moment apart; that moment is left out, and no
\* execution is between the two SETs for a day.
Expire ==
  /\ \A x \in Exec : exec[x].pc # "status"
  /\ result # NoReport \/ status
  /\ result' = NoReport /\ status' = FALSE
  /\ UNCHANGED <<db, file, exec, reader, faults, force>>

-----------------------------------------------------------------------------
(* GET /audit/result and the poll endpoint: Redis, else the file, else a report *)
(* built from the rows if there is a run; what was read is cached in a later step. *)

Read ==
  /\ result = NoReport /\ reader = NoReport
  /\ \/ file # NoReport /\ reader' = file
     \/ file = NoReport /\ saved # NoReport /\ reader' = rows
  /\ UNCHANGED <<db, file, cache, exec, faults, force>>

Remember ==
  /\ reader # NoReport /\ reader' = NoReport
  /\ \/ result' = reader /\ UNCHANGED faults
     \/ Fault /\ UNCHANGED result
  /\ UNCHANGED <<db, file, status, exec, force>>

Parse(x) ==
  \/ ParseBegin(x) \/ Flush(x) \/ DeadlockVictim(x) \/ ParseCommit(x) \/ ParseLost(x)
  \/ \E p \in Page : UpsertSelect(x, p)
Evaluate(x) == EvaluateBegin(x) \/ EvaluateCommit(x)
Score(x) ==
  \/ ScoreBegin(x) \/ ScoreNoIssues(x) \/ WriteFile(x) \/ SelectRun(x) \/ SaveRun(x)
  \/ SaveConflict(x)
Keep(x) == SetResult(x) \/ SetStatus(x) \/ NothingToCache(x)
Advance(x) == Deliver(x) \/ Parse(x) \/ Evaluate(x) \/ Score(x) \/ Keep(x)

Fails(x) ==
  \/ ReportRaises(x) \/ Crash(x) \/ SoftLimit(x)
  \/ ParseError(x) \/ EvaluateError(x) \/ ScoreError(x) \/ CacheError(x)
  \/ \E p \in Page : ParseFails(x, p)

Next ==
  \/ \E x \in Exec : Advance(x) \/ Fails(x)
  \/ Read \/ Remember \/ Expire

Spec == Init /\ [][Next]_vars

\* Workers consume the queue; a statement ends.  Nothing is assumed of readers.
LiveSpec == Spec /\ \A x \in Exec : WF_vars(Advance(x))

-----------------------------------------------------------------------------
(* Properties *)

\* An execution whose stages report no error has left a fact for every page but those
\* that failed on their own, a rule result for every such page that is not ignored, and
\* a scored run -- though a page's error is caught inside the loop, another execution
\* may hold or take the same rows, and pages it skipped are another's work.
CleanRunCovers ==
  \A x \in Exec : exec[x].pc = "done" /\ exec[x].failed = {} =>
    /\ Page \ exec[x].unparsed \subseteq facts
    /\ (Page \ exec[x].unparsed) \ Ignored \subseteq Judged
    /\ saved # NoReport

\* The saved run loses rule results it had counted only when an execution outlives its
\* task and runs beside its retry.
SavedShrinksOnlyByOverlap ==
  [][saved # NoReport /\ ~(saved \subseteq saved') => \E x \in Exec : ~exec[x].watched]_vars

\* Every execution that is delivered ends, although executions wait for each other's rows.
ExecutionEnds ==
  \A x \in Exec : exec[x].pc = "queued" ~> exec[x].pc \in {"done", "raised"}
=============================================================================
