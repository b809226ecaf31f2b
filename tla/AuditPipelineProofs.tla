-------------------------- MODULE AuditPipelineProofs --------------------------
(***************************************************************************)
(* For any number of pages, executions and faults: an execution of the     *)
(* pipeline that reports no error leaves nothing out, and the saved run    *)
(* loses what it counted only to an execution that outlived its task.      *)
(* For every page: a verdict's impact has the sign of the verdict.  And    *)
(* whatever its author follows, the page gets the verdicts that it         *)
(* deserves, except of the rules that are not told what they ask for, and  *)
(* its score is never lowered by a recommendation but one on its links.    *)
(***************************************************************************)
EXTENDS AuditPipeline, PageAdvice, FiniteSetTheorems, SequenceTheorems, WellFoundedInduction, TLAPS

-----------------------------------------------------------------------------
(* The inductive invariant *)

PC == {"none", "queued", "raised", "done"} \cup Running

Execution == [pc : PC, watched : BOOLEAN, todo : SUBSET Page, page : Page \cup {NoPage},
              exists : BOOLEAN, flushed : SUBSET Page, aborted : BOOLEAN,
              unparsed : SUBSET Page, report : Report, failed : SUBSET Stage]

\* What an execution still has to show for the pages that did not fail on their own.
Due(e) == Page \ e.unparsed

Scoring    == {"file", "select", "save"}
Scored     == {"result", "status", "done"}
Evaluated  == {"score?"} \cup Scoring \cup Scored
Parsed     == {"evaluate?", "evaluate"} \cup Evaluated

\* A page that is due is a fact, or is among the pages of the stage, or stored and not committed.
Parses(e) == e.pc = "parse" /\ ~e.aborted => Due(e) \subseteq facts \cup e.todo \cup e.flushed

HasParsed(e) == e.pc \in Parsed /\ "parse" \notin e.failed => Due(e) \subseteq facts

Evaluates(e) ==
  e.pc = "evaluate" /\ "parse" \notin e.failed => Due(e) \ Ignored \subseteq Judged \cup e.todo

HasEvaluated(e) ==
  e.pc \in Evaluated /\ e.failed \cap {"parse", "evaluate"} = {} => Due(e) \ Ignored \subseteq Judged

\* A report that is about to be saved is made of committed rows, and is not the empty one.
Scores(e) == e.pc \in Scoring => HasIssues(e.report) /\ e.report \subseteq rows

HasScored(e) == e.pc \in Scored /\ "score" \notin e.failed => saved # NoReport

Keeps(e) ==
  Parses(e) /\ HasParsed(e) /\ Evaluates(e) /\ HasEvaluated(e) /\ Scores(e) /\ HasScored(e)

\* A delivery starts when every earlier one has raised or is no longer waited for.
Turns ==
  \A x, y \in Exec : x < y /\ exec[y].pc # "none" => exec[x].pc = "raised" \/ ~exec[x].watched

AllWatched == \A x \in Exec : exec[x].watched

\* What is saved is still among the rows and, as long as every execution is waited for, in
\* the report that replaces it.
SavedIsKept ==
  saved # NoReport =>
    /\ saved \subseteq rows
    /\ AllWatched => \A x \in Exec : exec[x].pc \in Scoring => saved \subseteq exec[x].report

PipelineInv == TypeOK /\ (\A x \in Exec : Keeps(exec[x])) /\ Turns /\ SavedIsKept

-----------------------------------------------------------------------------
(* Steps that move one execution *)

LEMMA NotStartedTyped == NotStarted \in Execution
BY DEF NotStarted, Execution, PC, NoReport, Report, Rows

LEMMA RowsAreReports == Rows \subseteq Report
BY DEF Report

\* Rows are never the empty report: that one is about no page.
LEMMA IssuesAreARun == ASSUME NEW report, HasIssues(report) PROVE report # NoReport
BY PipelineAssumption DEF HasIssues, NoReport

LEMMA ExecTyped == ASSUME TypeOK PROVE exec \in [Exec -> Execution]
BY DEF TypeOK, Execution, PC

\* A later execution that has begun shows that an earlier one is out of its way.
LEMMA OneAtATime ==
  ASSUME Turns, AllWatched, NEW x \in Exec, NEW y \in Exec, x # y,
         exec[x].pc \in Scoring, exec[y].pc \in Scoring
  PROVE  FALSE
<1>1. x \in Nat /\ y \in Nat
  BY PipelineAssumption DEF Exec
<1>2. CASE x < y
  BY <1>2 DEF Turns, AllWatched, Scoring
<1>3. CASE y < x
  BY <1>3 DEF Turns, AllWatched, Scoring
<1> QED
  BY <1>1, <1>2, <1>3

\* What the others have to show stays shown while facts and rows grow.
LEMMA OthersKeep ==
  ASSUME NEW y \in Exec, Keeps(exec[y]), exec'[y] = exec[y],
         facts \subseteq facts', rows \subseteq rows', saved # NoReport => saved' # NoReport
  PROVE  Keeps(exec[y])'
<1>1. Judged \subseteq Judged'
  BY DEF Judged
<1>2. Parses(exec[y])' /\ HasParsed(exec[y])'
  BY DEF Keeps, Parses, HasParsed, Due
<1>3. Evaluates(exec[y])' /\ HasEvaluated(exec[y])'
  BY <1>1 DEF Keeps, Evaluates, HasEvaluated, Due
<1>4. Scores(exec[y])' /\ HasScored(exec[y])'
  BY DEF Keeps, Scores, HasScored, HasIssues
<1> QED
  BY <1>2, <1>3, <1>4 DEF Keeps

\* An execution goes on, and nothing is saved.
LEMMA Moves ==
  ASSUME PipelineInv, NEW x \in Exec, NEW e \in Execution,
         NEW from \in PC \ {"none", "raised"}, NEW to \in PC,
         Goes(x, from, to, e), e.watched = exec[x].watched,
         facts \subseteq facts', rows \subseteq rows', saved' = saved,
         Keeps(exec[x])',
         to \in Scoring => e.report = rows \/ (from \in Scoring /\ e.report = exec[x].report)
  PROVE  /\ exec' \in [Exec -> Execution]
         /\ \A y \in Exec : Keeps(exec[y])'
         /\ Turns' /\ SavedIsKept'
<1>1. exec \in [Exec -> Execution]
  BY ExecTyped DEF PipelineInv
<1>2. exec'[x] = [e EXCEPT !.pc = to] /\ exec[x].pc = from
  BY <1>1 DEF Goes
<1>3. \A y \in Exec : y # x => exec'[y] = exec[y]
  BY <1>1 DEF Goes
<1>4. exec' \in [Exec -> Execution]
  <2>1. [e EXCEPT !.pc = to] \in Execution
    BY DEF Execution
  <2> QED
    BY <1>1, <2>1 DEF Goes
<1>5. exec'[x].watched = exec[x].watched /\ exec'[x].pc = to /\ exec'[x].report = e.report
  BY <1>2 DEF Execution
<1>6. ASSUME NEW y \in Exec PROVE Keeps(exec[y])'
  <2>1. CASE y = x
    BY <2>1
  <2>2. CASE y # x
    BY <1>3, <2>2, OthersKeep DEF PipelineInv
  <2> QED
    BY <2>1, <2>2
<1>7. Turns'
  BY <1>2, <1>3, <1>5 DEF Turns, PipelineInv
<1>8. SavedIsKept'
  <2> SUFFICES ASSUME saved # NoReport
               PROVE  /\ saved \subseteq rows'
                      /\ AllWatched' => \A y \in Exec : exec'[y].pc \in Scoring => saved \subseteq exec'[y].report
    BY DEF SavedIsKept
  <2>1. saved \subseteq rows
    BY DEF PipelineInv, SavedIsKept
  <2>2. ASSUME AllWatched', NEW y \in Exec, exec'[y].pc \in Scoring
        PROVE  saved \subseteq exec'[y].report
    <3>1. AllWatched
      BY <1>3, <1>5, <2>2 DEF AllWatched
    <3>2. CASE y # x
      BY <1>3, <2>2, <3>1, <3>2 DEF PipelineInv, SavedIsKept
    <3>3. CASE y = x
      BY <1>2, <1>5, <2>1, <2>2, <3>1, <3>3 DEF PipelineInv, SavedIsKept
    <3> QED
      BY <3>2, <3>3
  <2> QED
    BY <2>1, <2>2
<1> QED
  BY <1>4, <1>6, <1>7, <1>8

\* The record of an execution that has moved, by what it shows.
LEMMA Moved ==
  ASSUME PipelineInv, NEW x \in Exec, NEW e \in Execution, NEW from \in PC, NEW to \in PC,
         Goes(x, from, to, e)
  PROVE  /\ exec[x] \in Execution /\ exec[x].pc = from
         /\ exec'[x].pc = to
         /\ exec'[x].todo = e.todo /\ exec'[x].flushed = e.flushed
         /\ exec'[x].aborted = e.aborted /\ exec'[x].unparsed = e.unparsed
         /\ exec'[x].report = e.report /\ exec'[x].failed = e.failed
<1>1. exec \in [Exec -> Execution]
  BY ExecTyped DEF PipelineInv
<1>2. exec'[x] = [e EXCEPT !.pc = to] /\ exec[x].pc = from
  BY <1>1 DEF Goes
<1> QED
  BY <1>1, <1>2 DEF Execution

\* The rest of the type invariant, for steps that touch nothing but executions.
LEMMA RestTyped ==
  ASSUME PipelineInv, exec' \in [Exec -> Execution], UNCHANGED <<db, file, cache, reader, force>>,
         UNCHANGED faults \/ Fault
  PROVE  TypeOK'
<1>1. /\ facts' = facts /\ rows' = rows /\ saved' = saved /\ file' = file /\ result' = result
      /\ status' = status /\ reader' = reader /\ force' = force
  BY DEF db, cache
<1>2. faults' \in 0 .. MaxFaults
  BY PipelineAssumption DEF PipelineInv, TypeOK, Fault
<1> QED
  BY <1>1, <1>2 DEF PipelineInv, TypeOK, Execution, PC

LEMMA DeliverKeeps == ASSUME PipelineInv, NEW x \in Exec, Deliver(x) PROVE PipelineInv'
<1> DEFINE e == exec[x]
<1>1. e \in Execution /\ Goes(x, "queued", "begin", e)
  BY ExecTyped DEF PipelineInv, Deliver
<1>2. "queued" \in PC \ {"none", "raised"} /\ "begin" \in PC \ Scoring
  BY DEF PC, Running, Scoring
<1>3. UNCHANGED <<db, file, cache, reader, force>> /\ UNCHANGED faults
  BY DEF Deliver
<1>4. exec'[x].pc = "begin"
  BY <1>1, <1>2, Moved
<1>5. Keeps(exec[x])'
  BY <1>4 DEF Keeps, Parses, HasParsed, Evaluates, HasEvaluated, Scores, HasScored, Parsed,
     Evaluated, Scoring, Scored
<1> QED
  BY <1>1, <1>2, <1>3, <1>5, Moves, RestTyped DEF PipelineInv, db

LEMMA ParseBeginKeeps == ASSUME PipelineInv, NEW x \in Exec, ParseBegin(x) PROVE PipelineInv'
<1> DEFINE e == [exec[x] EXCEPT !.todo = (Page \ Bare) \ (IF force THEN {} ELSE facts), !.unparsed = Bare]
<1>1. exec[x] \in Execution /\ e \in Execution /\ Goes(x, "begin", "parse", e)
  BY ExecTyped, PipelineAssumption DEF PipelineInv, ParseBegin, Execution
<1>2. e.todo = (Page \ Bare) \ (IF force THEN {} ELSE facts) /\ e.unparsed = Bare /\ e.watched = exec[x].watched
  BY <1>1 DEF Execution
<1> HIDE DEF e
<1>3. UNCHANGED <<db, file, cache, reader, force>> /\ UNCHANGED faults
  BY DEF ParseBegin
<1>4. "begin" \in PC \ {"none", "raised"} /\ "parse" \in PC \ Scoring
  BY DEF PC, Running, Scoring
<1>5. exec'[x].pc = "parse" /\ exec'[x].todo = e.todo /\ exec'[x].unparsed = e.unparsed
  BY <1>1, <1>4, Moved
<1>6. Keeps(exec[x])'
  BY <1>2, <1>3, <1>5 DEF Keeps, Parses, HasParsed, Evaluates, HasEvaluated, Scores, HasScored,
     Parsed, Evaluated, Scoring, Scored, Due, db
<1> QED
  BY <1>1, <1>2, <1>3, <1>4, <1>6, Moves, RestTyped DEF PipelineInv, db

LEMMA ParseFailsKeeps == ASSUME PipelineInv, NEW x \in Exec, NEW p \in Page, ParseFails(x, p) PROVE PipelineInv'
<1> DEFINE e == [exec[x] EXCEPT !.todo = @ \ {p}, !.unparsed = @ \cup {p}]
<1>1. exec[x] \in Execution /\ e \in Execution /\ Goes(x, "parse", "parse", e)
  <2>1. exec[x] \in Execution
    BY ExecTyped DEF PipelineInv
  <2>2. e \in Execution
    BY <2>1 DEF Execution
  <2> QED
    BY <2>1, <2>2 DEF ParseFails
<1>2. /\ e.todo = exec[x].todo \ {p} /\ e.unparsed = exec[x].unparsed \cup {p} /\ e.watched = exec[x].watched
      /\ e.aborted = exec[x].aborted /\ e.flushed = exec[x].flushed
  BY <1>1 DEF Execution
<1> HIDE DEF e
<1>3. UNCHANGED <<db, file, cache, reader, force>> /\ Fault
  BY DEF ParseFails
<1>4. "parse" \in PC \ {"none", "raised"} /\ "parse" \notin Scoring
  BY DEF PC, Running, Scoring
<1>5. /\ exec[x].pc = "parse" /\ exec'[x].pc = "parse" /\ exec'[x].todo = e.todo /\ exec'[x].unparsed = e.unparsed
      /\ exec'[x].aborted = e.aborted /\ exec'[x].flushed = e.flushed
  BY <1>1, <1>4, Moved
<1>6. Keeps(exec[x])'
  <2>1. Parses(exec[x])
    BY DEF PipelineInv, Keeps
  <2> QED
    BY <1>2, <1>3, <1>5, <2>1 DEF Keeps, Parses, HasParsed, Evaluates, HasEvaluated, Scores,
       HasScored, Parsed, Evaluated, Scoring, Scored, Due, db
<1> QED
  BY <1>1, <1>2, <1>3, <1>4, <1>6, Moves, RestTyped DEF PipelineInv, db

LEMMA UpsertSelectKeeps == ASSUME PipelineInv, NEW x \in Exec, NEW p \in Page, UpsertSelect(x, p) PROVE PipelineInv'
<1> DEFINE e == [exec[x] EXCEPT !.page = p, !.exists = p \in facts]
<1>1. exec[x] \in Execution /\ e \in Execution /\ Goes(x, "parse", "parse", e)
  <2>1. exec[x] \in Execution /\ (p \in facts) \in BOOLEAN
    BY ExecTyped DEF PipelineInv
  <2>2. e \in Execution
    BY <2>1 DEF Execution
  <2> QED
    BY <2>1, <2>2 DEF UpsertSelect
<1>2. /\ e.todo = exec[x].todo /\ e.unparsed = exec[x].unparsed /\ e.watched = exec[x].watched
      /\ e.aborted = exec[x].aborted /\ e.flushed = exec[x].flushed
  BY <1>1 DEF Execution
<1> HIDE DEF e
<1>3. UNCHANGED <<db, file, cache, reader, force>> /\ UNCHANGED faults
  BY DEF UpsertSelect
<1>4. "parse" \in PC \ {"none", "raised"} /\ "parse" \notin Scoring
  BY DEF PC, Running, Scoring
<1>5. /\ exec[x].pc = "parse" /\ exec'[x].pc = "parse" /\ exec'[x].todo = e.todo /\ exec'[x].unparsed = e.unparsed
      /\ exec'[x].aborted = e.aborted /\ exec'[x].flushed = e.flushed
  BY <1>1, <1>4, Moved
<1>6. Keeps(exec[x])'
  <2>1. Parses(exec[x])
    BY DEF PipelineInv, Keeps
  <2> QED
    BY <1>2, <1>3, <1>5, <2>1 DEF Keeps, Parses, HasParsed, Evaluates, HasEvaluated, Scores,
       HasScored, Parsed, Evaluated, Scoring, Scored, Due, db
<1> QED
  BY <1>1, <1>2, <1>3, <1>4, <1>6, Moves, RestTyped DEF PipelineInv, db

LEMMA AbortedTyped ==
  ASSUME NEW x \in Exec, exec[x] \in Execution
  PROVE  Aborted(x) \in Execution /\ Aborted(x).watched = exec[x].watched /\ Aborted(x).aborted
BY DEF Aborted, Execution

\* A failed flush leaves nothing to show: the stage is going to fail.
LEMMA AbortKeeps ==
  ASSUME PipelineInv, NEW x \in Exec, Goes(x, "parse", "parse", Aborted(x)),
         UNCHANGED <<db, file, cache, reader, force>>, UNCHANGED faults
  PROVE  PipelineInv'
<1>1. /\ exec[x] \in Execution /\ Aborted(x) \in Execution /\ Aborted(x).watched = exec[x].watched
      /\ Aborted(x).aborted
  BY ExecTyped, AbortedTyped DEF PipelineInv
<1>2. "parse" \in PC \ {"none", "raised"} /\ "parse" \notin Scoring
  BY DEF PC, Running, Scoring
<1>3. exec'[x].pc = "parse" /\ exec'[x].aborted
  BY <1>1, <1>2, Moved
<1>4. Keeps(exec[x])'
  BY <1>3 DEF Keeps, Parses, HasParsed, Evaluates, HasEvaluated, Scores, HasScored, Parsed,
     Evaluated, Scoring, Scored
<1> QED
  BY <1>1, <1>2, <1>4, Moves, RestTyped DEF PipelineInv, db

LEMMA FlushKeeps == ASSUME PipelineInv, NEW x \in Exec, Flush(x) PROVE PipelineInv'
<1> DEFINE e == [exec[x] EXCEPT !.todo = @ \ {exec[x].page}, !.page = NoPage,
                                !.flushed = @ \cup {exec[x].page}]
<1>1. exec[x] \in Execution /\ exec[x].page \in Page
  BY ExecTyped DEF PipelineInv, Flush, Execution
<1>2. CASE ~exec[x].exists /\ exec[x].page \in facts
  BY <1>2, AbortKeeps DEF Flush
<1>3. CASE ~(~exec[x].exists /\ exec[x].page \in facts)
  <2>1. e \in Execution /\ Goes(x, "parse", "parse", e)
    BY <1>1, <1>3 DEF Flush, Execution
  <2>2. /\ e.todo = exec[x].todo \ {exec[x].page} /\ e.flushed = exec[x].flushed \cup {exec[x].page}
        /\ e.unparsed = exec[x].unparsed /\ e.watched = exec[x].watched /\ e.aborted = exec[x].aborted
    BY <1>1 DEF Execution
  <2> HIDE DEF e
  <2>3. UNCHANGED <<db, file, cache, reader, force>> /\ UNCHANGED faults
    BY DEF Flush
  <2>4. "parse" \in PC \ {"none", "raised"} /\ "parse" \notin Scoring
    BY DEF PC, Running, Scoring
  <2>5. /\ exec[x].pc = "parse" /\ exec'[x].pc = "parse" /\ exec'[x].todo = e.todo
        /\ exec'[x].unparsed = e.unparsed /\ exec'[x].aborted = e.aborted /\ exec'[x].flushed = e.flushed
    BY <2>1, <2>4, Moved
  <2>6. Keeps(exec[x])'
    <3>1. Parses(exec[x])
      BY DEF PipelineInv, Keeps
    <3> QED
      BY <2>2, <2>3, <2>5, <3>1 DEF Keeps, Parses, HasParsed, Evaluates, HasEvaluated, Scores,
         HasScored, Parsed, Evaluated, Scoring, Scored, Due, db
  <2> QED
    BY <2>1, <2>2, <2>3, <2>4, <2>6, Moves, RestTyped DEF PipelineInv, db
<1> QED
  BY <1>2, <1>3

\* The commit makes facts of all that was due.
LEMMA ParseCommitKeeps == ASSUME PipelineInv, NEW x \in Exec, ParseCommit(x) PROVE PipelineInv'
<1> DEFINE e == [exec[x] EXCEPT !.flushed = {}]
<1>1. exec[x] \in Execution /\ e \in Execution /\ Goes(x, "parse", "evaluate?", e)
  BY ExecTyped DEF PipelineInv, ParseCommit, Execution
<1>2. e.unparsed = exec[x].unparsed /\ e.watched = exec[x].watched
  BY <1>1 DEF Execution
<1> HIDE DEF e
<1>3. /\ UNCHANGED <<rows, saved, file, cache, reader, faults, force>>
      /\ facts' = facts \cup exec[x].flushed /\ exec[x].todo = {} /\ ~exec[x].aborted
  BY DEF ParseCommit
<1>4. "parse" \in PC \ {"none", "raised"} /\ "evaluate?" \in PC \ Scoring
  BY DEF PC, Running, Scoring
<1>5. exec[x].pc = "parse" /\ exec'[x].pc = "evaluate?" /\ exec'[x].unparsed = e.unparsed
  BY <1>1, <1>4, Moved
<1>6. Keeps(exec[x])'
  <2>1. Parses(exec[x])
    BY DEF PipelineInv, Keeps
  <2> QED
    BY <1>2, <1>3, <1>5, <2>1 DEF Keeps, Parses, HasParsed, Evaluates, HasEvaluated, Scores,
       HasScored, Parsed, Evaluated, Scoring, Scored, Due
<1>7. TypeOK' <=> exec' \in [Exec -> Execution]
  <2>1. facts' \subseteq Page
    BY <1>1, <1>3 DEF PipelineInv, TypeOK, Execution
  <2> QED
    BY <1>3, <2>1 DEF PipelineInv, TypeOK, Execution, PC, cache
<1> QED
  BY <1>1, <1>2, <1>3, <1>4, <1>6, <1>7, Moves DEF PipelineInv

-----------------------------------------------------------------------------
(* A stage that fails, and the stages that follow *)

\* The places to which a failing stage goes on, with the stage that has failed.
FailsTo(stage, from, to) ==
  \/ stage = "parse"    /\ from = "parse"                        /\ to = "evaluate?"
  \/ stage = "evaluate" /\ from = "evaluate"                     /\ to = "score?"
  \/ stage = "score"    /\ from \in {"score?"} \cup Scoring      /\ to = "result"

LEMMA StageFailsKeeps ==
  ASSUME PipelineInv, NEW x \in Exec, NEW stage, NEW from, NEW to,
         FailsTo(stage, from, to), StageFails(x, stage, from, to), UNCHANGED faults \/ Fault
  PROVE  PipelineInv'
<1> DEFINE e == [exec[x] EXCEPT !.failed = @ \cup {stage}, !.todo = {}, !.page = NoPage,
                                !.flushed = {}, !.aborted = FALSE, !.report = NoReport]
<1>1. /\ stage \in Stage /\ from \in PC \ {"none", "raised"} /\ to \in PC \ Scoring
      /\ to \in {"evaluate?", "score?", "result"}
  BY DEF FailsTo, Stage, PC, Running, Scoring
<1>2. exec[x] \in Execution /\ NoReport \in Report
  BY ExecTyped DEF PipelineInv, Report
<1>3. e \in Execution
  BY <1>1, <1>2 DEF Execution
<1>4. e.failed = exec[x].failed \cup {stage} /\ e.unparsed = exec[x].unparsed /\ e.watched = exec[x].watched
  BY <1>2 DEF Execution
<1>5. Goes(x, from, to, e) /\ UNCHANGED <<db, file, cache, reader, force>>
  BY DEF StageFails
<1> HIDE DEF e
<1>6. /\ exec[x].pc = from /\ exec'[x].pc = to /\ exec'[x].failed = e.failed
      /\ exec'[x].unparsed = e.unparsed
  BY <1>1, <1>3, <1>5, Moved
<1>7. Keeps(exec[x])'
  <2>1. HasParsed(exec[x]) /\ HasEvaluated(exec[x])
    BY DEF PipelineInv, Keeps
  <2>2. CASE stage = "parse"
    BY <1>4, <1>6, <2>2 DEF FailsTo, Keeps, Parses, HasParsed, Evaluates, HasEvaluated, Scores,
       HasScored, Parsed, Evaluated, Scoring, Scored
  <2>3. CASE stage = "evaluate"
    BY <1>4, <1>5, <1>6, <2>1, <2>3 DEF FailsTo, Keeps, Parses, HasParsed, Evaluates,
       HasEvaluated, Scores, HasScored, Parsed, Evaluated, Scoring, Scored, Due, db
  <2>4. CASE stage = "score"
    BY <1>4, <1>5, <1>6, <2>1, <2>4 DEF FailsTo, Keeps, Parses, HasParsed, Evaluates,
       HasEvaluated, Scores, HasScored, Parsed, Evaluated, Scoring, Scored, Due, Judged, db
  <2> QED
    BY <2>2, <2>3, <2>4 DEF FailsTo
<1> QED
  BY <1>1, <1>3, <1>4, <1>5, <1>7, Moves, RestTyped DEF PipelineInv, db

LEMMA FailingStages ==
  ASSUME PipelineInv, NEW x \in Exec
  PROVE  /\ ParseLost(x) \/ ParseError(x) => PipelineInv'
         /\ EvaluateError(x) => PipelineInv'
         /\ ScoreNoIssues(x) \/ SaveConflict(x) \/ ScoreError(x) => PipelineInv'
<1>1. ParseLost(x) \/ ParseError(x) => PipelineInv'
  BY StageFailsKeeps DEF ParseLost, ParseError, FailsTo
<1>2. EvaluateError(x) => PipelineInv'
  BY StageFailsKeeps DEF EvaluateError, FailsTo
<1>3. ScoreNoIssues(x) \/ SaveConflict(x) => PipelineInv'
  BY StageFailsKeeps DEF ScoreNoIssues, SaveConflict, FailsTo, Scoring
<1>4. ScoreError(x) => PipelineInv'
  BY StageFailsKeeps DEF ScoreError, FailsTo, Scoring
<1> QED
  BY <1>1, <1>2, <1>3, <1>4

\* What is parsed and neither ignored nor judged is to be evaluated.
LEMMA EvaluateBeginKeeps == ASSUME PipelineInv, NEW x \in Exec, EvaluateBegin(x) PROVE PipelineInv'
<1> DEFINE e == [exec[x] EXCEPT !.todo = (facts \ Ignored) \ (IF force THEN {} ELSE Judged)]
<1>1. exec[x] \in Execution /\ e \in Execution /\ Goes(x, "evaluate?", "evaluate", e)
  <2>1. exec[x] \in Execution /\ facts \subseteq Page
    BY ExecTyped DEF PipelineInv, TypeOK
  <2>2. e \in Execution
    BY <2>1 DEF Execution
  <2> QED
    BY <2>1, <2>2 DEF EvaluateBegin
<1>2. /\ e.todo = (facts \ Ignored) \ (IF force THEN {} ELSE Judged)
      /\ e.unparsed = exec[x].unparsed /\ e.watched = exec[x].watched /\ e.failed = exec[x].failed
  BY <1>1 DEF Execution
<1> HIDE DEF e
<1>3. UNCHANGED <<db, file, cache, reader, force>> /\ UNCHANGED faults
  BY DEF EvaluateBegin
<1>4. "evaluate?" \in PC \ {"none", "raised"} /\ "evaluate" \in PC \ Scoring
  BY DEF PC, Running, Scoring
<1>5. /\ exec[x].pc = "evaluate?" /\ exec'[x].pc = "evaluate" /\ exec'[x].todo = e.todo
      /\ exec'[x].unparsed = e.unparsed /\ exec'[x].failed = e.failed
  BY <1>1, <1>4, Moved
<1>6. Keeps(exec[x])'
  <2>1. HasParsed(exec[x])
    BY DEF PipelineInv, Keeps
  <2> QED
    BY <1>2, <1>3, <1>5, <2>1 DEF Keeps, Parses, HasParsed, Evaluates, HasEvaluated, Scores,
       HasScored, Parsed, Evaluated, Scoring, Scored, Due, Judged, db
<1> QED
  BY <1>1, <1>2, <1>3, <1>4, <1>6, Moves, RestTyped DEF PipelineInv, db

\* Every page of the stage gets a row, whether its evaluation raised or not.
LEMMA WrittenFacts ==
  ASSUME NEW todo \in SUBSET Page, NEW bad \in SUBSET todo
  PROVE  Written(todo, bad) \in Rows /\ \A p \in todo : \E r \in Written(todo, bad) : r[1] = p
<1>1. Written(todo, bad) \in Rows
  BY DEF Written, Rows
<1>2. ASSUME NEW p \in todo PROVE \E r \in Written(todo, bad) : r[1] = p
  <2>1. CASE p \in bad
    <3>1. <<p, "error">> \in Written(todo, bad)
      BY <2>1 DEF Written
    <3> QED
      BY <3>1
  <2>2. CASE p \notin bad
    <3>1. <<p, "rules">> \in Written(todo, bad)
      BY <2>2 DEF Written
    <3> QED
      BY <3>1
  <2> QED
    BY <2>1, <2>2
<1> QED
  BY <1>1, <1>2

LEMMA EvaluateCommitKeeps == ASSUME PipelineInv, NEW x \in Exec, EvaluateCommit(x) PROVE PipelineInv'
<1> DEFINE e == [exec[x] EXCEPT !.todo = {}]
<1>1. exec[x] \in Execution /\ e \in Execution /\ Goes(x, "evaluate", "score?", e)
  BY ExecTyped DEF PipelineInv, EvaluateCommit, Execution
<1>2. /\ e.unparsed = exec[x].unparsed /\ e.watched = exec[x].watched /\ e.failed = exec[x].failed
      /\ exec[x].todo \in SUBSET Page
  BY <1>1 DEF Execution
<1> HIDE DEF e
<1>3. UNCHANGED <<facts, saved, file, cache, reader, force>>
  BY DEF EvaluateCommit
<1>4. PICK bad \in SUBSET exec[x].todo :
        /\ rows' = rows \cup Written(exec[x].todo, bad)
        /\ UNCHANGED faults \/ Fault
  BY DEF EvaluateCommit
<1>5. "evaluate" \in PC \ {"none", "raised"} /\ "score?" \in PC \ Scoring
  BY DEF PC, Running, Scoring
<1>6. /\ exec[x].pc = "evaluate" /\ exec'[x].pc = "score?"
      /\ exec'[x].unparsed = e.unparsed /\ exec'[x].failed = e.failed
  BY <1>1, <1>5, Moved
<1>7. Judged \cup exec[x].todo \subseteq Judged'
  BY <1>2, <1>4, WrittenFacts DEF Judged
<1>8. Keeps(exec[x])'
  <2>1. HasParsed(exec[x]) /\ Evaluates(exec[x])
    BY DEF PipelineInv, Keeps
  <2> QED
    BY <1>2, <1>3, <1>6, <1>7, <2>1 DEF Keeps, Parses, HasParsed, Evaluates, HasEvaluated, Scores,
       HasScored, Parsed, Evaluated, Scoring, Scored, Due
<1>9. TypeOK' <=> exec' \in [Exec -> Execution]
  <2>1. rows' \in Rows
    BY <1>2, <1>4, WrittenFacts DEF PipelineInv, TypeOK, Rows
  <2>2. faults' \in 0 .. MaxFaults
    BY <1>4, PipelineAssumption DEF PipelineInv, TypeOK, Fault
  <2> QED
    BY <1>3, <2>1, <2>2 DEF PipelineInv, TypeOK, Execution, PC, cache
<1> QED
  BY <1>1, <1>2, <1>3, <1>4, <1>5, <1>8, <1>9, Moves DEF PipelineInv

-----------------------------------------------------------------------------
(* The score and the cache *)

\* The report is made of all committed rows, and they are no run without issues.
LEMMA ScoreBeginKeeps == ASSUME PipelineInv, NEW x \in Exec, ScoreBegin(x) PROVE PipelineInv'
<1> DEFINE e == [exec[x] EXCEPT !.report = rows]
<1>1. exec[x] \in Execution /\ e \in Execution /\ Goes(x, "score?", "file", e)
  <2>1. exec[x] \in Execution /\ rows \in Report
    BY ExecTyped, RowsAreReports DEF PipelineInv, TypeOK
  <2>2. e \in Execution
    BY <2>1 DEF Execution
  <2> QED
    BY <2>1, <2>2 DEF ScoreBegin
<1>2. /\ e.unparsed = exec[x].unparsed /\ e.watched = exec[x].watched /\ e.failed = exec[x].failed
      /\ e.report = rows
  BY <1>1 DEF Execution
<1> HIDE DEF e
<1>3. UNCHANGED <<db, file, cache, reader, force>> /\ UNCHANGED faults /\ HasIssues(rows)
  BY DEF ScoreBegin
<1>4. "score?" \in PC \ {"none", "raised"} /\ "file" \in PC
  BY DEF PC, Running, Scoring
<1>5. /\ exec[x].pc = "score?" /\ exec'[x].pc = "file" /\ exec'[x].report = e.report
      /\ exec'[x].unparsed = e.unparsed /\ exec'[x].failed = e.failed
  BY <1>1, <1>4, Moved
<1>6. Keeps(exec[x])'
  <2>1. HasParsed(exec[x]) /\ HasEvaluated(exec[x])
    BY DEF PipelineInv, Keeps
  <2> QED
    BY <1>2, <1>3, <1>5, <2>1 DEF Keeps, Parses, HasParsed, Evaluates, HasEvaluated, Scores,
       HasScored, HasIssues, Parsed, Evaluated, Scoring, Scored, Due, Judged, db
<1> QED
  BY <1>1, <1>2, <1>3, <1>4, <1>6, Moves, RestTyped DEF PipelineInv, db

\* A step of the scoring that keeps the report and saves nothing.
LEMMA ScoringGoesOn ==
  ASSUME PipelineInv, NEW x \in Exec, NEW e \in Execution, NEW from \in Scoring, NEW to \in Scoring,
         Goes(x, from, to, e), UNCHANGED db,
         e.watched = exec[x].watched, e.unparsed = exec[x].unparsed, e.failed = exec[x].failed,
         e.report = exec[x].report
  PROVE  /\ exec' \in [Exec -> Execution]
         /\ \A y \in Exec : Keeps(exec[y])'
         /\ Turns' /\ SavedIsKept'
<1>1. from \in PC \ {"none", "raised"} /\ to \in PC
  BY DEF PC, Running, Scoring
<1>2. /\ exec[x].pc = from /\ exec'[x].pc = to /\ exec'[x].report = e.report
      /\ exec'[x].unparsed = e.unparsed /\ exec'[x].failed = e.failed
  BY <1>1, Moved
<1>3. HasParsed(exec[x]) /\ HasEvaluated(exec[x]) /\ Scores(exec[x])
  BY DEF PipelineInv, Keeps
<1>4. Keeps(exec[x])'
  <2>1. Parses(exec[x])' /\ Evaluates(exec[x])' /\ HasScored(exec[x])'
    BY <1>2 DEF Parses, Evaluates, HasScored, Scoring, Scored
  <2>2. HasParsed(exec[x])' /\ HasEvaluated(exec[x])' /\ Scores(exec[x])'
    BY <1>2, <1>3 DEF HasParsed, HasEvaluated, Scores, HasIssues, Due, Judged, Parsed, Evaluated, db
  <2> QED
    BY <2>1, <2>2 DEF Keeps
<1> QED
  BY <1>1, <1>4, Moves DEF db

LEMMA WriteFileKeeps == ASSUME PipelineInv, NEW x \in Exec, WriteFile(x) PROVE PipelineInv'
<1>1. exec[x] \in Execution /\ Goes(x, "file", "select", exec[x])
  BY ExecTyped DEF PipelineInv, WriteFile
<1>2. UNCHANGED <<db, cache, reader, force>> /\ {"file", "select"} \subseteq Scoring
  BY DEF WriteFile, Scoring
<1>3. file' \in Report /\ faults' \in 0 .. MaxFaults
  BY <1>1, PipelineAssumption DEF WriteFile, Fault, Execution, PipelineInv, TypeOK
<1>4. TypeOK' <=> exec' \in [Exec -> Execution]
  BY <1>2, <1>3 DEF PipelineInv, TypeOK, Execution, PC, db, cache
<1> QED
  BY <1>1, <1>2, <1>4, ScoringGoesOn DEF PipelineInv

LEMMA SelectRunKeeps == ASSUME PipelineInv, NEW x \in Exec, SelectRun(x) PROVE PipelineInv'
<1> DEFINE e == [exec[x] EXCEPT !.exists = saved # NoReport]
<1>1. exec[x] \in Execution /\ e \in Execution /\ Goes(x, "select", "save", e)
  <2>1. exec[x] \in Execution /\ (saved # NoReport) \in BOOLEAN
    BY ExecTyped DEF PipelineInv
  <2>2. e \in Execution
    BY <2>1 DEF Execution
  <2> QED
    BY <2>1, <2>2 DEF SelectRun
<1>2. /\ e.unparsed = exec[x].unparsed /\ e.watched = exec[x].watched /\ e.failed = exec[x].failed
      /\ e.report = exec[x].report
  BY <1>1 DEF Execution
<1> HIDE DEF e
<1>3. UNCHANGED <<db, file, cache, reader, force>> /\ UNCHANGED faults /\ {"select", "save"} \subseteq Scoring
  BY DEF SelectRun, Scoring
<1> QED
  BY <1>1, <1>2, <1>3, ScoringGoesOn, RestTyped DEF PipelineInv

\* What is saved are committed rows; no other execution that everyone waits for is about to
\* save anything else.
LEMMA SaveRunKeeps == ASSUME PipelineInv, NEW x \in Exec, SaveRun(x) PROVE PipelineInv'
<1> DEFINE e == [exec[x] EXCEPT !.pc = "result"]
<1>1. exec \in [Exec -> Execution] /\ exec[x] \in Execution /\ exec[x].pc = "save"
  BY ExecTyped DEF PipelineInv, SaveRun, Goes
<1>2. exec' = [exec EXCEPT ![x] = e] /\ saved' = exec[x].report
  BY DEF SaveRun, Goes
<1>3. UNCHANGED <<facts, rows, file, cache, reader, faults, force>>
  BY DEF SaveRun
<1>4. e \in Execution /\ e.pc = "result" /\ e.watched = exec[x].watched /\ e.unparsed = exec[x].unparsed
      /\ e.failed = exec[x].failed
  BY <1>1 DEF Execution, PC, Running
<1> HIDE DEF e
<1>5. exec' \in [Exec -> Execution] /\ exec'[x] = e /\ \A y \in Exec : y # x => exec'[y] = exec[y]
  BY <1>1, <1>2, <1>4
<1>6. HasParsed(exec[x]) /\ HasEvaluated(exec[x]) /\ Scores(exec[x])
  BY DEF PipelineInv, Keeps
<1>7. saved' # NoReport /\ saved' \subseteq rows
  BY <1>1, <1>2, <1>6, IssuesAreARun DEF Scores, Scoring
<1>8. Keeps(exec[x])'
  BY <1>1, <1>3, <1>4, <1>5, <1>6, <1>7 DEF Keeps, Parses, HasParsed, Evaluates, HasEvaluated,
     Scores, HasScored, Due, Judged, Parsed, Evaluated, Scoring, Scored
<1>9. ASSUME NEW y \in Exec PROVE Keeps(exec[y])'
  <2>1. CASE y = x
    BY <1>8, <2>1
  <2>2. CASE y # x
    BY <1>3, <1>5, <1>7, <2>2, OthersKeep DEF PipelineInv
  <2> QED
    BY <2>1, <2>2
<1>10. Turns'
  BY <1>1, <1>4, <1>5 DEF Turns, PipelineInv
<1>11. SavedIsKept'
  <2>1. ASSUME AllWatched', NEW y \in Exec, exec'[y].pc \in Scoring PROVE FALSE
    <3>1. AllWatched
      BY <1>4, <1>5, <2>1 DEF AllWatched
    <3>2. y # x /\ exec[y].pc \in Scoring /\ exec[x].pc \in Scoring
      BY <1>1, <1>4, <1>5, <2>1 DEF Scoring
    <3> QED
      BY <3>1, <3>2, OneAtATime DEF PipelineInv
  <2> QED
    BY <1>3, <1>7, <2>1 DEF SavedIsKept
<1>12. TypeOK'
  BY <1>1, <1>2, <1>3, <1>5 DEF PipelineInv, TypeOK, Execution, PC, cache
<1> QED
  BY <1>9, <1>10, <1>11, <1>12 DEF PipelineInv

\* A step after the scoring: what it has shown is all that is asked of it.
LEMMA Ending ==
  ASSUME PipelineInv, NEW x \in Exec, NEW e \in Execution, NEW from \in {"result", "status"},
         NEW to \in {"status", "done"}, Goes(x, from, to, e), UNCHANGED db,
         e.watched = exec[x].watched, e.unparsed = exec[x].unparsed, e.failed = exec[x].failed
  PROVE  /\ exec' \in [Exec -> Execution]
         /\ \A y \in Exec : Keeps(exec[y])'
         /\ Turns' /\ SavedIsKept'
<1>1. from \in PC \ {"none", "raised"} /\ to \in PC \ Scoring
  BY DEF PC, Running, Scoring
<1>2. exec[x].pc = from /\ exec'[x].pc = to /\ exec'[x].unparsed = e.unparsed /\ exec'[x].failed = e.failed
  BY <1>1, Moved
<1>3. HasParsed(exec[x]) /\ HasEvaluated(exec[x]) /\ HasScored(exec[x])
  BY DEF PipelineInv, Keeps
<1>4. Keeps(exec[x])'
  <2>1. Parses(exec[x])' /\ Evaluates(exec[x])' /\ Scores(exec[x])'
    BY <1>2 DEF Parses, Evaluates, Scores, Scoring
  <2>2. HasParsed(exec[x])' /\ HasEvaluated(exec[x])' /\ HasScored(exec[x])'
    BY <1>2, <1>3 DEF HasParsed, HasEvaluated, HasScored, Due, Judged, Parsed, Evaluated, Scored, db
  <2> QED
    BY <2>1, <2>2 DEF Keeps
<1> QED
  BY <1>1, <1>4, Moves DEF db

LEMMA ReportDropped ==
  ASSUME NEW x \in Exec, exec[x] \in Execution, NEW e, e = [exec[x] EXCEPT !.report = NoReport]
  PROVE  e \in Execution /\ e.watched = exec[x].watched /\ e.unparsed = exec[x].unparsed /\ e.failed = exec[x].failed
BY DEF Execution, Report

LEMMA KeepKeeps ==
  ASSUME PipelineInv, NEW x \in Exec, Keep(x) \/ CacheError(x)
  PROVE  PipelineInv'
<1> DEFINE e == [exec[x] EXCEPT !.report = NoReport]
<1>1. exec[x] \in Execution
  BY ExecTyped DEF PipelineInv
<1>2. e \in Execution /\ e.watched = exec[x].watched /\ e.unparsed = exec[x].unparsed /\ e.failed = exec[x].failed
  BY <1>1, ReportDropped
<1> HIDE DEF e
<1>3. CASE SetResult(x)
  <2>1. UNCHANGED <<db, file, status, reader, faults, force>> /\ result' \in Report
    BY <1>1, <1>3 DEF SetResult, Execution
  <2>2. TypeOK' <=> exec' \in [Exec -> Execution]
    BY <2>1 DEF PipelineInv, TypeOK, Execution, PC, db
  <2> QED
    BY <1>1, <1>3, <2>1, <2>2, Ending DEF SetResult, PipelineInv
<1>4. CASE SetStatus(x)
  <2>1. UNCHANGED <<db, file, result, reader, faults, force>> /\ status' = TRUE
    BY <1>4 DEF SetStatus
  <2>2. TypeOK' <=> exec' \in [Exec -> Execution]
    BY <2>1 DEF PipelineInv, TypeOK, Execution, PC, db
  <2>3. Goes(x, "status", "done", e)
    BY <1>4 DEF SetStatus, e
  <2> QED
    BY <1>2, <2>1, <2>2, <2>3, Ending DEF PipelineInv
<1>5. ASSUME NEW from \in {"result", "status"}, Done(x, from), UNCHANGED faults \/ Fault PROVE PipelineInv'
  <2>1. UNCHANGED <<db, file, cache, reader, force>>
    BY <1>5 DEF Done
  <2>2. Goes(x, from, "done", e)
    BY <1>5 DEF Done, e
  <2>3. exec' \in [Exec -> Execution] /\ (\A y \in Exec : Keeps(exec[y])') /\ Turns' /\ SavedIsKept'
    BY <1>2, <2>1, <2>2, Ending
  <2> QED
    BY <1>5, <2>1, <2>3, RestTyped DEF PipelineInv
<1> QED
  BY <1>3, <1>4, <1>5 DEF Keep, NothingToCache, CacheError

-----------------------------------------------------------------------------
(* The end of a task, and the readers *)

\* Deliveries of the task that are not in anyone's way yet have nothing to show.
LEMMA NothingShown ==
  ASSUME NEW x \in Exec, exec'[x].pc \in {"none", "queued", "raised"}
  PROVE  Keeps(exec[x])'
BY DEF Keeps, Parses, HasParsed, Evaluates, HasEvaluated, Scores, HasScored, Parsed, Evaluated,
   Scoring, Scored

\* The next delivery is queued when x has raised or is not waited for any longer.
LEMMA NextTurn ==
  ASSUME PipelineInv, NEW x \in Exec, exec[x].pc \notin {"none", "raised"}, UNCHANGED db,
         NEW f \in [Exec -> Execution], \A y \in Exec : y # x => f[y] = exec[y],
         f[x].pc = "raised" \/ (~f[x].watched /\ f[x].pc # "none"),
         f[x].watched => exec[x].watched,
         exec' = WithNext(f, x) \/ exec' = f,
         f[x].pc = "raised" \/ f[x] = [exec[x] EXCEPT !.watched = FALSE]
  PROVE  /\ exec' \in [Exec -> Execution]
         /\ \A y \in Exec : Keeps(exec[y])'
         /\ Turns' /\ SavedIsKept'
<1>1. exec \in [Exec -> Execution]
  BY ExecTyped DEF PipelineInv
<1>2. ASSUME NEW y \in Exec
      PROVE  \/ exec'[y] = f[y]
             \/ y = x + 1 /\ f[y].pc = "none" /\ exec'[y] = [f[y] EXCEPT !.pc = "queued"]
  BY DEF WithNext
<1>3. ASSUME NEW y \in Exec PROVE exec'[y] \in Execution
  <2>1. f[y] \in Execution
    OBVIOUS
  <2>2. [f[y] EXCEPT !.pc = "queued"] \in Execution
    BY <2>1 DEF Execution, PC
  <2> QED
    BY <1>2, <2>1, <2>2
<1>4. exec' \in [Exec -> Execution]
  <2>1. \E g : exec' = [y \in Exec |-> g[y]]
    <3>1. f = [y \in Exec |-> f[y]]
      OBVIOUS
    <3>2. WithNext(f, x) = [y \in Exec |-> WithNext(f, x)[y]]
      BY DEF WithNext
    <3> QED
      BY <3>1, <3>2
  <2> QED
    BY <1>3, <2>1
<1>5. x \in Nat /\ \A y \in Exec : y \in Nat
  BY PipelineAssumption DEF Exec
<1>6. ASSUME NEW y \in Exec
      PROVE  /\ exec'[y].watched = f[y].watched /\ exec'[y].report = f[y].report
             /\ exec'[y].pc = f[y].pc \/ (y = x + 1 /\ f[y].pc = "none" /\ exec'[y].pc = "queued")
  <2>1. f[y] \in Execution
    OBVIOUS
  <2> QED
    BY <1>2, <2>1 DEF Execution
<1>7. ASSUME NEW y \in Exec PROVE Keeps(exec[y])'
  <2>1. CASE exec'[y].pc \in {"none", "queued", "raised"}
    BY <2>1, NothingShown
  <2>2. CASE exec'[y].pc \notin {"none", "queued", "raised"}
    <3>1. exec'[y] = f[y]
      BY <1>2, <1>6, <2>2
    <3>2. CASE y # x
      BY <3>1, <3>2, OthersKeep DEF PipelineInv, db
    <3>3. CASE y = x
      <4>1. exec[x] \in Execution /\ exec'[x] = [exec[x] EXCEPT !.watched = FALSE]
        BY <1>1, <2>2, <3>1, <3>3
      <4>2. /\ exec'[x].pc = exec[x].pc /\ exec'[x].todo = exec[x].todo
            /\ exec'[x].flushed = exec[x].flushed /\ exec'[x].aborted = exec[x].aborted
            /\ exec'[x].unparsed = exec[x].unparsed /\ exec'[x].report = exec[x].report
            /\ exec'[x].failed = exec[x].failed
        BY <4>1 DEF Execution
      <4>3. Keeps(exec[x])
        BY DEF PipelineInv
      <4> QED
        BY <3>3, <4>2, <4>3 DEF Keeps, Parses, HasParsed, Evaluates, HasEvaluated, Scores,
           HasScored, HasIssues, Due, Judged, db
    <3> QED
      BY <3>2, <3>3
  <2> QED
    BY <2>1, <2>2
<1>8. ASSUME NEW v \in Exec, NEW y \in Exec, v < y, exec'[y].pc # "none"
      PROVE  exec'[v].pc = "raised" \/ ~exec'[v].watched
  <2>1. CASE v = x
    BY <1>6, <2>1
  <2>2. CASE v # x /\ exec[v].pc = "raised"
    BY <1>6, <2>2
  <2>3. CASE v # x /\ ~exec[v].watched
    BY <1>6, <2>3
  <2>4. CASE v # x /\ exec[v].pc # "raised" /\ exec[v].watched
    <3>1. (v < x /\ exec[x].pc # "none") \/ exec[y].pc # "none"
      BY <1>5, <1>6, <1>8, <2>4
    <3> QED
      BY <1>8, <2>4, <3>1 DEF PipelineInv, Turns
  <2> QED
    BY <2>1, <2>2, <2>3, <2>4
<1>9. SavedIsKept'
  <2> SUFFICES ASSUME saved # NoReport
               PROVE  /\ saved \subseteq rows
                      /\ AllWatched' => \A y \in Exec : exec'[y].pc \in Scoring => saved \subseteq exec'[y].report
    BY DEF SavedIsKept, db
  <2>1. saved \subseteq rows
    BY DEF PipelineInv, SavedIsKept
  <2>2. ASSUME AllWatched', NEW y \in Exec, exec'[y].pc \in Scoring PROVE saved \subseteq exec'[y].report
    <3>1. AllWatched /\ f[x].pc = "raised"
      BY <1>6, <2>2 DEF AllWatched
    <3>2. y # x /\ exec[y].pc \in Scoring /\ exec'[y].report = exec[y].report
      BY <1>6, <2>2, <3>1 DEF Scoring
    <3> QED
      BY <3>1, <3>2 DEF PipelineInv, SavedIsKept
  <2> QED
    BY <2>1, <2>2
<1> QED
  BY <1>4, <1>7, <1>8, <1>9 DEF Turns

LEMMA EndOfTaskKeeps ==
  ASSUME PipelineInv, NEW x \in Exec, ReportRaises(x) \/ Crash(x) \/ SoftLimit(x)
  PROVE  PipelineInv'
<1>1. exec \in [Exec -> Execution] /\ exec[x] \in Execution
  BY ExecTyped DEF PipelineInv
<1>2. exec[x].pc \notin {"none", "raised"} /\ UNCHANGED <<db, file, cache, reader, force>> /\ Fault
  BY DEF ReportRaises, Crash, SoftLimit, Running
<1>3. CASE Ends(x)
  <2> DEFINE e == [NotStarted EXCEPT !.pc = "raised", !.watched = exec[x].watched]
             f == [exec EXCEPT ![x] = e]
  <2>1. e \in Execution /\ e.pc = "raised" /\ e.watched = exec[x].watched
    BY <1>1, NotStartedTyped DEF Execution, PC, NotStarted
  <2>2. exec' = WithNext(f, x) \/ exec' = f
    BY <1>3 DEF Ends
  <2> HIDE DEF e
  <2>3. f \in [Exec -> Execution] /\ f[x] = e /\ \A y \in Exec : y # x => f[y] = exec[y]
    BY <1>1, <2>1
  <2> HIDE DEF f
  <2>4. exec' \in [Exec -> Execution] /\ (\A y \in Exec : Keeps(exec[y])') /\ Turns' /\ SavedIsKept'
    BY <1>2, <2>1, <2>2, <2>3, NextTurn
  <2> QED
    BY <1>2, <2>4, RestTyped DEF PipelineInv
<1>4. CASE SoftLimit(x)
  <2> DEFINE e == [exec[x] EXCEPT !.watched = FALSE]
             f == [exec EXCEPT ![x] = e]
  <2>1. e \in Execution /\ e.pc = exec[x].pc /\ ~e.watched
    BY <1>1 DEF Execution
  <2>2. exec' = WithNext(f, x)
    BY <1>4 DEF SoftLimit
  <2>3. f \in [Exec -> Execution] /\ f[x] = e /\ \A y \in Exec : y # x => f[y] = exec[y]
    BY <1>1, <2>1
  <2> HIDE DEF f
  <2>4. exec' \in [Exec -> Execution] /\ (\A y \in Exec : Keeps(exec[y])') /\ Turns' /\ SavedIsKept'
    BY <1>2, <2>1, <2>2, <2>3, NextTurn
  <2> QED
    BY <1>2, <2>4, RestTyped DEF PipelineInv
<1> QED
  BY <1>3, <1>4 DEF ReportRaises, Crash

LEMMA ReadersKeep == ASSUME PipelineInv, Read \/ Remember \/ Expire PROVE PipelineInv'
<1>1. UNCHANGED <<db, exec, force, file>>
  BY DEF Read, Remember, Expire
<1>2. result' \in Report /\ reader' \in Report /\ status' \in BOOLEAN /\ faults' \in 0 .. MaxFaults
  <2>1. NoReport \in Report /\ rows \in Report /\ saved \in Report /\ file \in Report /\ reader \in Report
        /\ result \in Report
    BY RowsAreReports DEF PipelineInv, TypeOK, Report
  <2>2. CASE Read
    BY <2>1, <2>2 DEF Read, cache, PipelineInv, TypeOK
  <2>3. CASE Remember
    BY <2>1, <2>3, PipelineAssumption DEF Remember, PipelineInv, TypeOK, Fault
  <2>4. CASE Expire
    BY <2>1, <2>4 DEF Expire, PipelineInv, TypeOK
  <2> QED
    BY <2>2, <2>3, <2>4
<1>3. TypeOK'
  BY <1>1, <1>2 DEF PipelineInv, TypeOK, db
<1>4. (\A y \in Exec : Keeps(exec[y])') /\ Turns' /\ SavedIsKept'
  BY <1>1, OthersKeep DEF PipelineInv, Turns, SavedIsKept, AllWatched, db
<1> QED
  BY <1>3, <1>4 DEF PipelineInv

-----------------------------------------------------------------------------
(* The theorems *)

LEMMA PipelineStarts == Init => PipelineInv
<1> SUFFICES ASSUME Init PROVE PipelineInv
  OBVIOUS
<1> DEFINE queued == [NotStarted EXCEPT !.pc = "queued"]
<1>1. queued \in Execution /\ queued.pc = "queued" /\ queued.watched /\ NotStarted.pc = "none"
  BY NotStartedTyped DEF Execution, PC, NotStarted
<1>2. exec = [x \in Exec |-> IF x = 1 THEN queued ELSE NotStarted]
  BY DEF Init
<1> HIDE DEF queued
<1>3. exec \in [Exec -> Execution]
  BY <1>1, <1>2, NotStartedTyped
<1>4. TypeOK
  <2>1. exec \in [Exec -> [pc : {"none", "queued", "raised", "done"} \cup Running, watched : BOOLEAN,
                          todo : SUBSET Page, page : Page \cup {NoPage}, exists : BOOLEAN,
                          flushed : SUBSET Page, aborted : BOOLEAN, unparsed : SUBSET Page,
                          report : Report, failed : SUBSET Stage]]
    BY <1>3 DEF Execution, PC
  <2>2. facts \subseteq Page /\ rows \in Rows /\ {saved, file, result, reader} \subseteq Report
    BY DEF Init, Rows, Report
  <2>3. {status, force} \subseteq BOOLEAN
    BY Zenon DEF Init
  <2>4. faults \in 0 .. MaxFaults
    BY PipelineAssumption DEF Init
  <2> QED
    BY <2>1, <2>2, <2>3, <2>4 DEF TypeOK
<1>5. \A x \in Exec : Keeps(exec[x])
  BY <1>1, <1>2 DEF Keeps, Parses, HasParsed, Evaluates, HasEvaluated, Scores, HasScored, Parsed,
     Evaluated, Scoring, Scored
<1>6. Turns /\ SavedIsKept
  BY <1>1, <1>2, PipelineAssumption DEF Turns, SavedIsKept, Init, Exec
<1> QED
  BY <1>4, <1>5, <1>6 DEF PipelineInv

LEMMA PipelineStep == PipelineInv /\ [Next]_vars => PipelineInv'
<1> SUFFICES ASSUME PipelineInv, [Next]_vars PROVE PipelineInv'
  OBVIOUS
<1>1. ASSUME NEW x \in Exec, Advance(x) PROVE PipelineInv'
  <2>1. CASE Deliver(x)
    BY <2>1, DeliverKeeps
  <2>2. CASE Parse(x)
    BY <2>2, ParseBeginKeeps, FlushKeeps, AbortKeeps, ParseCommitKeeps, FailingStages,
       UpsertSelectKeeps
    DEF Parse, DeadlockVictim
  <2>3. CASE Evaluate(x)
    BY <2>3, EvaluateBeginKeeps, EvaluateCommitKeeps DEF Evaluate
  <2>4. CASE Score(x)
    BY <2>4, ScoreBeginKeeps, FailingStages, WriteFileKeeps, SelectRunKeeps, SaveRunKeeps DEF Score
  <2>5. CASE Keep(x)
    BY <2>5, KeepKeeps
  <2> QED
    BY <1>1, <2>1, <2>2, <2>3, <2>4, <2>5 DEF Advance
<1>2. ASSUME NEW x \in Exec, Fails(x) PROVE PipelineInv'
  BY <1>2, EndOfTaskKeeps, FailingStages, KeepKeeps, ParseFailsKeeps DEF Fails
<1>3. CASE Read \/ Remember \/ Expire
  BY <1>3, ReadersKeep
<1>4. CASE UNCHANGED vars
  <2>1. UNCHANGED <<facts, rows, saved, file, result, status, force, exec, reader, faults>>
    BY <1>4 DEF vars, db, cache
  <2>2. TypeOK'
    BY <2>1 DEF PipelineInv, TypeOK
  <2>3. (\A y \in Exec : Keeps(exec[y])') /\ Turns' /\ SavedIsKept'
    BY <2>1, OthersKeep DEF PipelineInv, Turns, SavedIsKept, AllWatched
  <2> QED
    BY <2>2, <2>3 DEF PipelineInv
<1> QED
  BY <1>1, <1>2, <1>3, <1>4 DEF Next

\* The inductive invariant, with the types of all variables.
THEOREM PipelineInvariant == Spec => []PipelineInv
BY PipelineStarts, PipelineStep, PTL DEF Spec

THEOREM PipelineTypes == Spec => []TypeOK
<1>1. PipelineInv => TypeOK
  BY DEF PipelineInv
<1> QED
  BY <1>1, PipelineInvariant, PTL

\* audit.run_analysis_pipeline: when an execution has ended without an error of any stage,
\* no page is without a fact or a judgement but those that failed on their own, and the run
\* is saved, whatever other executions did meanwhile.
THEOREM CleanRunIsComplete == Spec => []CleanRunCovers
<1>1. PipelineInv => CleanRunCovers
  BY DEF PipelineInv, Keeps, CleanRunCovers, HasParsed, HasEvaluated, HasScored, Due, Parsed,
     Evaluated, Scored
<1> QED
  BY <1>1, PipelineInvariant, PTL

\* Nothing but the end of a scoring writes the row of seo_analysis_runs.
LEMMA SavedOnlyByScoring ==
  ASSUME [Next]_vars, saved' # saved
  PROVE  \E x \in Exec : exec[x].pc = "save" /\ saved' = exec[x].report
<1>1. ASSUME NEW x \in Exec, Advance(x) PROVE SaveRun(x)
  <2>1. ~Deliver(x) /\ ~Keep(x)
    BY DEF Deliver, Keep, SetResult, SetStatus, NothingToCache, Done, db
  <2>2. ~Parse(x)
    BY DEF Parse, ParseBegin, Flush, DeadlockVictim, ParseCommit, ParseLost, StageFails,
       UpsertSelect, db
  <2>3. ~Evaluate(x)
    BY DEF Evaluate, EvaluateBegin, EvaluateCommit, db
  <2>4. Score(x) => SaveRun(x)
    BY DEF Score, ScoreBegin, ScoreNoIssues, WriteFile, SelectRun, SaveConflict, StageFails, db
  <2> QED
    BY <1>1, <2>1, <2>2, <2>3, <2>4 DEF Advance
<1>2. ASSUME NEW x \in Exec PROVE ~Fails(x)
  <2>1. ~ReportRaises(x) /\ ~Crash(x) /\ ~SoftLimit(x) /\ ~CacheError(x)
    BY DEF ReportRaises, Crash, SoftLimit, CacheError, Done, db
  <2>2. ~ParseError(x) /\ ~EvaluateError(x) /\ ~ScoreError(x) /\ \A p \in Page : ~ParseFails(x, p)
    BY DEF ParseError, EvaluateError, ScoreError, ParseFails, StageFails, db
  <2> QED
    BY <2>1, <2>2 DEF Fails
<1>3. ~Read /\ ~Remember /\ ~Expire /\ ~UNCHANGED vars
  BY DEF Read, Remember, Expire, vars, db
<1>4. PICK x \in Exec : SaveRun(x)
  BY <1>1, <1>2, <1>3 DEF Next
<1> QED
  BY <1>4 DEF SaveRun, Goes

\* upsert_run replaces the saved run: what it had counted is still counted, unless an
\* execution runs on that nobody waits for.
THEOREM SavedShrinks == Spec => SavedShrinksOnlyByOverlap
<1>1. ASSUME PipelineInv, [Next]_vars, saved # NoReport, ~(saved \subseteq saved')
      PROVE  \E x \in Exec : ~exec[x].watched
  <2>1. PICK x \in Exec : exec[x].pc = "save" /\ saved' = exec[x].report
    BY <1>1, SavedOnlyByScoring
  <2>2. ~AllWatched
    BY <1>1, <2>1 DEF PipelineInv, SavedIsKept, Scoring
  <2> QED
    BY <2>2 DEF AllWatched
<1>2. PipelineInv /\ [Next]_vars =>
        [saved # NoReport /\ ~(saved \subseteq saved') => \E x \in Exec : ~exec[x].watched]_vars
  BY <1>1
<1> QED
  BY <1>2, PipelineInvariant, PTL DEF Spec, SavedShrinksOnlyByOverlap

-----------------------------------------------------------------------------
(* The rules that the second stage applies.  For every page, a verdict's   *)
(* impact has the sign that the scorer and AuditReport count on: a rule    *)
(* that passes takes no points, and one that fails gives none.             *)

Signed(v) == /\ v \in [passed : BOOLEAN, impact : Int, error : BOOLEAN]
             /\ IF v.passed THEN v.impact >= 0 ELSE v.impact <= 0

\* Every registered rule judges every page with an impact of the right sign
\* (BaseRule._create_result takes any impact; rule_engine/category_rules).
ImpactMatchesVerdict == \A d \in Data, r \in Rule : Signed(Verdicts(d)[r])

-----------------------------------------------------------------------------
(* What verdicts are made of *)

LEMMA PassSigned == ASSUME NEW n \in Nat PROVE Signed(Pass(n))
BY DEF Signed, Pass

LEMMA FailSigned == ASSUME NEW n \in Nat PROVE Signed(Fail(n))
BY DEF Signed, Fail

LEMMA RaisedSigned == Signed(Raised)
BY DEF Signed, Raised

LEMMA UnlessSigned == ASSUME NEW fault, NEW n \in Nat PROVE Signed(PassUnless(fault, n))
BY PassSigned, FailSigned DEF PassUnless

LEMMA IfNat == ASSUME NEW c, NEW n \in Nat PROVE If(c, n) \in Nat
BY DEF If

LEMMA OneMore ==
  ASSUME NEW S, IsFiniteSet(S), NEW x
  PROVE  /\ IsFiniteSet(S \cup {x}) /\ Cardinality(S) \in Nat /\ Cardinality(S \cup {x}) \in Nat
         /\ Cardinality(S \cup {x}) <= Cardinality(S) + 1
<1>1. IsFiniteSet(S \cup {x}) /\ Cardinality(S) \in Nat
  BY FS_AddElement, FS_CardinalityType
<1>2. Cardinality(S \cup {x}) = IF x \in S THEN Cardinality(S) ELSE Cardinality(S) + 1
  BY FS_AddElement, Zenon
<1> QED BY <1>1, <1>2

LEMMA FewFinite ==
  ASSUME NEW a, NEW b, NEW c, NEW e
  PROVE  IsFiniteSet({a, b, c, e}) /\ Cardinality({a, b, c, e}) \in Nat /\ Cardinality({a, b, c, e}) <= 4
<1> DEFINE A == {a}
           B == A \cup {b}
           C == B \cup {c}
           E == C \cup {e}
<1>1. IsFiniteSet(A) /\ Cardinality(A) = 1
  BY FS_Singleton
<1>2. E = {a, b, c, e}
  OBVIOUS
<1> HIDE DEF A
<1>3. IsFiniteSet(B) /\ Cardinality(B) \in Nat /\ Cardinality(B) <= 2
  <2>1. /\ IsFiniteSet(B) /\ Cardinality(A) \in Nat /\ Cardinality(B) \in Nat
        /\ Cardinality(B) <= Cardinality(A) + 1
    BY <1>1, OneMore, Zenon
  <2> QED BY <1>1, <2>1
<1> HIDE DEF B
<1>4. IsFiniteSet(C) /\ Cardinality(C) \in Nat /\ Cardinality(C) <= 3
  <2>1. /\ IsFiniteSet(C) /\ Cardinality(B) \in Nat /\ Cardinality(C) \in Nat
        /\ Cardinality(C) <= Cardinality(B) + 1
    BY <1>3, OneMore, Zenon
  <2> QED BY <1>3, <2>1
<1> HIDE DEF C
<1>5. IsFiniteSet(E) /\ Cardinality(E) \in Nat /\ Cardinality(E) <= 4
  <2>1. /\ IsFiniteSet(E) /\ Cardinality(C) \in Nat /\ Cardinality(E) \in Nat
        /\ Cardinality(E) <= Cardinality(C) + 1
    BY <1>4, OneMore, Zenon
  <2> QED BY <1>4, <2>1
<1> HIDE DEF E
<1> QED BY <1>2, <1>5

LEMMA FewCounted ==
  ASSUME NEW a, NEW b, NEW c, NEW e, NEW S \in SUBSET {a, b, c, e}
  PROVE  Cardinality(S) \in Nat
BY FewFinite, FS_Subset, FS_CardinalityType

\* All that the rules need of the data for it: what they count is counted.
Counts(d) ==
  /\ d.broken \in Nat /\ d.generic \in Nat /\ d.js_errors \in Nat
  /\ d.images.without_alt \in Nat
  /\ d.path \in SUBSET {"missing", "underscore", "space", "long"}

LEMMA DataCount == ASSUME NEW d \in Data PROVE Counts(d)
BY DEF Data, Counts

LEMMA OnPageSigned ==
  ASSUME NEW d, Counts(d)
  PROVE  /\ Signed(TitleTag(d))
         /\ Signed(MetaDescription(d))
         /\ Signed(H1Tag(d))
         /\ Signed(HeadingHierarchy(d))
         /\ Signed(MetaKeywords(d))
         /\ Signed(CanonicalUrl(d))
         /\ Signed(RobotsMeta(d))
         /\ Signed(OpenGraph(d))
         /\ Signed(TwitterCards(d))
<1>1. Signed(TitleTag(d))
  BY PassSigned, FailSigned, RaisedSigned, UnlessSigned, IfNat DEF TitleTag, TitleVerdict
<1>2. Signed(MetaDescription(d))
  BY PassSigned, FailSigned, RaisedSigned, UnlessSigned, IfNat DEF MetaDescription
<1>3. Signed(H1Tag(d))
  BY PassSigned, FailSigned, RaisedSigned, UnlessSigned, IfNat DEF H1Tag
<1>4. Signed(HeadingHierarchy(d))
  <2> DEFINE h == d.headings
             a == If(d.h1.count = 0, 3)
             b == If(h.h2 = 0 /\ h.h3 > 0, 2)
             c == If(~h.sequential, 2)
             total == d.h1.count + h.h2 + h.h3 + h.deeper
             e == IF total > 20 THEN 2 ELSE If(h.h2 > 10, 1)
             f == If(h.empty, 1)
             g == If(h.repeated, 1)
             i == If(h.long \/ d.h1.long, 1)
             fault == \/ d.h1.count = 0 \/ (h.h2 = 0 /\ h.h3 > 0) \/ ~h.sequential
                      \/ total > 20 \/ h.h2 > 10 \/ h.empty \/ h.repeated \/ h.long \/ d.h1.long
  <2>1. a \in Nat /\ b \in Nat /\ c \in Nat /\ e \in Nat /\ f \in Nat /\ g \in Nat /\ i \in Nat
    BY DEF If
  <2>2. HeadingHierarchy(d) = PassUnless(fault, a + b + c + e + f + g + i)
    BY DEF HeadingHierarchy
  <2> HIDE DEF a, b, c, e, f, g, i, fault
  <2>3. a + b + c + e + f + g + i \in Nat
    BY <2>1
  <2> QED BY <2>2, <2>3, UnlessSigned
<1>5. Signed(MetaKeywords(d))
  BY PassSigned, FailSigned, RaisedSigned, UnlessSigned, IfNat DEF MetaKeywords
<1>6. Signed(CanonicalUrl(d))
  BY PassSigned, FailSigned, RaisedSigned, UnlessSigned, IfNat DEF CanonicalUrl
<1>7. Signed(RobotsMeta(d))
  BY PassSigned, FailSigned, RaisedSigned, UnlessSigned, IfNat DEF RobotsMeta
<1>8. Signed(OpenGraph(d))
  <2> DEFINE missing == OgTag \ d.open_graph
             n == Cardinality(missing)
  <2>1. n \in Nat
    BY FewCounted DEF OgTag
  <2>2. OpenGraph(d) = PassUnless(missing # {}, 2 * n)
    BY DEF OpenGraph
  <2> HIDE DEF n, missing
  <2> QED BY <2>1, <2>2, UnlessSigned
<1>9. Signed(TwitterCards(d))
  BY PassSigned, FailSigned, RaisedSigned, UnlessSigned, IfNat DEF TwitterCards
<1> QED BY <1>1, <1>2, <1>3, <1>4, <1>5, <1>6, <1>7, <1>8, <1>9

LEMMA TechnicalSigned ==
  ASSUME NEW d, Counts(d)
  PROVE  /\ Signed(SSL_Certificate(d))
         /\ Signed(MobileViewport(d))
         /\ Signed(LanguageDeclaration(d))
         /\ Signed(Charset(d))
         /\ Signed(Doctype(d))
         /\ Signed(SecurityHeaders(d))
         /\ Signed(RobotsTxt(d))
         /\ Signed(Sitemap(d))
         /\ Signed(StructuredData(d))
         /\ Signed(Url(d))
         /\ Signed(Mobile(d))
         /\ Signed(HttpStatus(d))
         /\ Signed(Hreflang(d))
<1>1. Signed(SSL_Certificate(d))
  BY PassSigned, FailSigned, RaisedSigned, UnlessSigned, IfNat DEF SSL_Certificate
<1>2. Signed(MobileViewport(d))
  BY PassSigned, FailSigned, RaisedSigned, UnlessSigned, IfNat DEF MobileViewport
<1>3. Signed(LanguageDeclaration(d))
  BY PassSigned, FailSigned, RaisedSigned, UnlessSigned, IfNat DEF LanguageDeclaration
<1>4. Signed(Charset(d))
  BY PassSigned, FailSigned, RaisedSigned, UnlessSigned, IfNat DEF Charset
<1>5. Signed(Doctype(d))
  BY PassSigned, FailSigned, RaisedSigned, UnlessSigned, IfNat DEF Doctype
<1>6. Signed(SecurityHeaders(d))
  <2> DEFINE required == {"strict-transport-security", "content-security-policy"} \ d.headers
             optional == {"x-frame-options", "x-content-type-options"} \ d.headers
             m == Cardinality(required)
             n == Cardinality(optional)
  <2>1. m \in Nat
    <3>1. required \in SUBSET {"strict-transport-security", "content-security-policy",
                               "strict-transport-security", "content-security-policy"}
      OBVIOUS
    <3> HIDE DEF required
    <3> QED BY <3>1, FewCounted
  <2>2. n \in Nat
    <3>1. optional \in SUBSET {"x-frame-options", "x-content-type-options",
                               "x-frame-options", "x-content-type-options"}
      OBVIOUS
    <3> HIDE DEF optional
    <3> QED BY <3>1, FewCounted
  <2>3. SecurityHeaders(d) = PassUnless(required \cup optional # {}, 2 * m + n)
    BY DEF SecurityHeaders
  <2> HIDE DEF m, n, required, optional
  <2> QED BY <2>1, <2>2, <2>3, UnlessSigned
<1>7. Signed(RobotsTxt(d))
  BY PassSigned, FailSigned, RaisedSigned, UnlessSigned, IfNat DEF RobotsTxt
<1>8. Signed(Sitemap(d))
  BY PassSigned, FailSigned, RaisedSigned, UnlessSigned, IfNat DEF Sitemap
<1>9. Signed(StructuredData(d))
  BY PassSigned, FailSigned, RaisedSigned, UnlessSigned, IfNat DEF StructuredData
<1>10. Signed(Url(d))
  <2> DEFINE fault == d.path # {} /\ (d.normalized_url \/ "missing" \notin d.path)
             n == Cardinality(d.path)
  <2>1. n \in Nat
    BY FewCounted DEF Counts
  <2>2. Url(d) = PassUnless(fault, n)
    BY DEF Url
  <2> HIDE DEF n, fault
  <2> QED BY <2>1, <2>2, UnlessSigned
<1>11. Signed(Mobile(d))
  BY PassSigned, FailSigned, RaisedSigned, UnlessSigned, IfNat DEF Mobile
<1>12. Signed(HttpStatus(d))
  BY PassSigned, FailSigned, RaisedSigned, UnlessSigned, IfNat DEF HttpStatus
<1>13. Signed(Hreflang(d))
  BY PassSigned, FailSigned, RaisedSigned, UnlessSigned, IfNat DEF Hreflang
<1> QED BY <1>1, <1>2, <1>3, <1>4, <1>5, <1>6, <1>7, <1>8, <1>9, <1>10, <1>11, <1>12, <1>13

LEMMA ContentSigned ==
  ASSUME NEW d, Counts(d)
  PROVE  /\ Signed(WordCount(d))
         /\ Signed(ReadingTime(d))
         /\ Signed(ParagraphCount(d))
         /\ Signed(TextHtmlRatio(d))
         /\ Signed(KeywordInContent(d))
         /\ Signed(DuplicateContent(d))
         /\ Signed(ContentFreshness(d))
         /\ Signed(DuplicateTitles(d))
         /\ Signed(DuplicateDescriptions(d))
         /\ Signed(DuplicateH1s(d))
<1>1. Signed(WordCount(d))
  BY PassSigned, FailSigned, RaisedSigned, UnlessSigned, IfNat DEF WordCount
<1>2. Signed(ReadingTime(d))
  BY PassSigned, FailSigned, RaisedSigned, UnlessSigned, IfNat DEF ReadingTime
<1>3. Signed(ParagraphCount(d))
  BY PassSigned, FailSigned, RaisedSigned, UnlessSigned, IfNat DEF ParagraphCount
<1>4. Signed(TextHtmlRatio(d))
  BY PassSigned, FailSigned, RaisedSigned, UnlessSigned, IfNat DEF TextHtmlRatio
<1>5. Signed(KeywordInContent(d))
  <2> DEFINE weak == {"title", "h1", "introduction"} \ d.keyword.found
             fault == d.keyword.given /\ Cardinality(d.keyword.found) < 4
             n == Cardinality(weak)
  <2>1. n \in Nat
    <3>1. weak \in SUBSET {"title", "h1", "introduction", "introduction"}
      OBVIOUS
    <3> HIDE DEF weak
    <3> QED BY <3>1, FewCounted
  <2>2. KeywordInContent(d) = PassUnless(fault, n)
    BY DEF KeywordInContent
  <2> HIDE DEF n, fault, weak
  <2> QED BY <2>1, <2>2, UnlessSigned
<1>6. Signed(DuplicateContent(d))
  BY PassSigned, FailSigned, RaisedSigned, UnlessSigned, IfNat DEF DuplicateContent
<1>7. Signed(ContentFreshness(d))
  BY PassSigned, FailSigned, RaisedSigned, UnlessSigned, IfNat DEF ContentFreshness
<1>8. Signed(DuplicateTitles(d))
  BY PassSigned, FailSigned, RaisedSigned, UnlessSigned, IfNat DEF DuplicateTitles
<1>9. Signed(DuplicateDescriptions(d))
  BY PassSigned, FailSigned, RaisedSigned, UnlessSigned, IfNat DEF DuplicateDescriptions
<1>10. Signed(DuplicateH1s(d))
  BY PassSigned, FailSigned, RaisedSigned, UnlessSigned, IfNat DEF DuplicateH1s
<1> QED BY <1>1, <1>2, <1>3, <1>4, <1>5, <1>6, <1>7, <1>8, <1>9, <1>10

LEMMA LinksSigned ==
  ASSUME NEW d, Counts(d)
  PROVE  /\ Signed(InternalLinks(d))
         /\ Signed(ExternalLinks(d))
         /\ Signed(BrokenLinks(d))
         /\ Signed(AnchorText(d))
         /\ Signed(NofollowLinks(d))
<1>1. Signed(InternalLinks(d))
  BY PassSigned, FailSigned, RaisedSigned, UnlessSigned, IfNat DEF InternalLinks
<1>2. Signed(ExternalLinks(d))
  BY PassSigned, FailSigned, RaisedSigned, UnlessSigned, IfNat DEF ExternalLinks
<1>3. Signed(BrokenLinks(d))
  <2>1. AtMost(3 * d.broken, 15) \in Nat
    BY DEF Counts, AtMost
  <2> QED BY <2>1, PassSigned, UnlessSigned DEF BrokenLinks
<1>4. Signed(AnchorText(d))
  <2>1. AtMost(2 * d.generic, 8) \in Nat
    BY DEF Counts, AtMost
  <2> QED BY <2>1, PassSigned, UnlessSigned DEF AnchorText
<1>5. Signed(NofollowLinks(d))
  BY PassSigned, FailSigned, RaisedSigned, UnlessSigned, IfNat DEF NofollowLinks
<1> QED BY <1>1, <1>2, <1>3, <1>4, <1>5

LEMMA ImagesSigned ==
  ASSUME NEW d, Counts(d)
  PROVE  /\ Signed(ImageAltText(d))
         /\ Signed(ImageSize(d))
         /\ Signed(LazyLoading(d))
         /\ Signed(ImageDimensions(d))
         /\ Signed(ResponsiveImages(d))
         /\ Signed(ImageFormats(d))
<1>1. Signed(ImageAltText(d))
  <2>1. AtMost(2 * d.images.without_alt, 10) \in Nat
    BY DEF Counts, AtMost
  <2> QED BY <2>1, PassSigned, UnlessSigned DEF ImageAltText
<1>2. Signed(ImageSize(d))
  BY PassSigned, FailSigned, RaisedSigned, UnlessSigned, IfNat DEF ImageSize
<1>3. Signed(LazyLoading(d))
  BY PassSigned, FailSigned, RaisedSigned, UnlessSigned, IfNat DEF LazyLoading
<1>4. Signed(ImageDimensions(d))
  BY PassSigned, FailSigned, RaisedSigned, UnlessSigned, IfNat DEF ImageDimensions
<1>5. Signed(ResponsiveImages(d))
  BY PassSigned, FailSigned, RaisedSigned, UnlessSigned, IfNat DEF ResponsiveImages
<1>6. Signed(ImageFormats(d))
  BY PassSigned, FailSigned, RaisedSigned, UnlessSigned, IfNat DEF ImageFormats
<1> QED BY <1>1, <1>2, <1>3, <1>4, <1>5, <1>6

LEMMA SchemaSigned ==
  ASSUME NEW d, Counts(d)
  PROVE  /\ Signed(SchemaMarkup(d))
         /\ Signed(OrganizationSchema(d))
         /\ Signed(BreadcrumbSchema(d))
         /\ Signed(ArticleSchema(d))
         /\ Signed(ProductSchema(d))
         /\ Signed(JsonLdFormat(d))
<1>1. Signed(SchemaMarkup(d))
  BY PassSigned, FailSigned, RaisedSigned, UnlessSigned, IfNat DEF SchemaMarkup
<1>2. Signed(OrganizationSchema(d))
  BY PassSigned, FailSigned, RaisedSigned, UnlessSigned, IfNat DEF OrganizationSchema, Looks
<1>3. Signed(BreadcrumbSchema(d))
  BY PassSigned, FailSigned, RaisedSigned, UnlessSigned, IfNat DEF BreadcrumbSchema, Looks
<1>4. Signed(ArticleSchema(d))
  BY PassSigned, FailSigned, RaisedSigned, UnlessSigned, IfNat DEF ArticleSchema, Looks
<1>5. Signed(ProductSchema(d))
  BY PassSigned, FailSigned, RaisedSigned, UnlessSigned, IfNat DEF ProductSchema, Looks
<1>6. Signed(JsonLdFormat(d))
  BY PassSigned, FailSigned, RaisedSigned, UnlessSigned, IfNat DEF JsonLdFormat
<1> QED BY <1>1, <1>2, <1>3, <1>4, <1>5, <1>6

LEMMA SocialSigned ==
  ASSUME NEW d, Counts(d)
  PROVE  /\ Signed(SocialMediaLinks(d))
         /\ Signed(FacebookDomain(d))
         /\ Signed(SocialImage(d))
<1>1. Signed(SocialMediaLinks(d))
  BY PassSigned, FailSigned, RaisedSigned, UnlessSigned, IfNat DEF SocialMediaLinks
<1>2. Signed(FacebookDomain(d))
  BY PassSigned, FailSigned, RaisedSigned, UnlessSigned, IfNat DEF FacebookDomain
<1>3. Signed(SocialImage(d))
  BY PassSigned, FailSigned, RaisedSigned, UnlessSigned, IfNat DEF SocialImage
<1> QED BY <1>1, <1>2, <1>3

LEMMA SecuritySigned ==
  ASSUME NEW d, Counts(d)
  PROVE  /\ Signed(HSTS(d))
         /\ Signed(XSSProtection(d))
<1>1. Signed(HSTS(d))
  BY PassSigned, FailSigned, RaisedSigned, UnlessSigned, IfNat DEF HSTS
<1>2. Signed(XSSProtection(d))
  BY PassSigned, FailSigned, RaisedSigned, UnlessSigned, IfNat DEF XSSProtection
<1> QED BY <1>1, <1>2

LEMMA AccessibilitySigned ==
  ASSUME NEW d, Counts(d)
  PROVE  /\ Signed(FormLabels(d))
<1>1. Signed(FormLabels(d))
  BY PassSigned, FailSigned, RaisedSigned, UnlessSigned, IfNat DEF FormLabels
<1> QED BY <1>1

LEMMA PerformanceSigned ==
  ASSUME NEW d, Counts(d)
  PROVE  /\ Signed(ResponseTime(d))
         /\ Signed(HTMLSize(d))
         /\ Signed(Minification(d))
         /\ Signed(ResourceCount(d))
         /\ Signed(CacheHeaders(d))
         /\ Signed(Compression(d))
         /\ Signed(PageSize(d))
         /\ Signed(JavaScriptErrors(d))
         /\ Signed(CoreWebVitals(d))
<1>1. Signed(ResponseTime(d))
  BY PassSigned, FailSigned, RaisedSigned, UnlessSigned, IfNat DEF ResponseTime
<1>2. Signed(HTMLSize(d))
  BY PassSigned, FailSigned, RaisedSigned, UnlessSigned, IfNat DEF HTMLSize
<1>3. Signed(Minification(d))
  BY PassSigned, FailSigned, RaisedSigned, UnlessSigned, IfNat DEF Minification
<1>4. Signed(ResourceCount(d))
  BY PassSigned, FailSigned, RaisedSigned, UnlessSigned, IfNat DEF ResourceCount
<1>5. Signed(CacheHeaders(d))
  BY PassSigned, FailSigned, RaisedSigned, UnlessSigned, IfNat DEF CacheHeaders
<1>6. Signed(Compression(d))
  BY PassSigned, FailSigned, RaisedSigned, UnlessSigned, IfNat DEF Compression
<1>7. Signed(PageSize(d))
  BY PassSigned, FailSigned, RaisedSigned, UnlessSigned, IfNat DEF PageSize
<1>8. Signed(JavaScriptErrors(d))
  <2>1. AtMost(2 * d.js_errors, 10) \in Nat
    BY DEF Counts, AtMost
  <2> QED BY <2>1, PassSigned, UnlessSigned DEF JavaScriptErrors
<1>9. Signed(CoreWebVitals(d))
  BY PassSigned, FailSigned, RaisedSigned, UnlessSigned, IfNat DEF CoreWebVitals
<1> QED BY <1>1, <1>2, <1>3, <1>4, <1>5, <1>6, <1>7, <1>8, <1>9

-----------------------------------------------------------------------------

LEMMA VerdictsSigned == ASSUME NEW d, Counts(d), NEW r \in Rule PROVE Signed(Verdicts(d)[r])
<1> SUFFICES ASSUME NEW c \in Category, r \in Registered[c]
             PROVE  Signed(Verdicts(d)[r])
  BY DEF Rule
<1>1. CASE c = "on_page"
  <2>1. r \in {"TitleTag", "MetaDescription", "H1Tag", "HeadingHierarchy", "MetaKeywords",
               "CanonicalUrl", "RobotsMeta", "OpenGraph", "TwitterCards"}
    BY <1>1 DEF Registered
  <2> QED BY <2>1, OnPageSigned DEF Verdicts
<1>2. CASE c = "technical"
  <2>1. r \in {"SSL_Certificate", "MobileViewport", "LanguageDeclaration", "Charset", "Doctype",
               "SecurityHeaders", "RobotsTxt", "Sitemap", "StructuredData", "Url", "Mobile",
               "HttpStatus", "Hreflang"}
    BY <1>2 DEF Registered
  <2> QED BY <2>1, TechnicalSigned DEF Verdicts
<1>3. CASE c = "content"
  <2>1. r \in {"WordCount", "ReadingTime", "ParagraphCount", "TextHtmlRatio",
               "KeywordInContent", "DuplicateContent", "ContentFreshness", "DuplicateTitles",
               "DuplicateDescriptions", "DuplicateH1s"}
    BY <1>3 DEF Registered
  <2> QED BY <2>1, ContentSigned DEF Verdicts
<1>4. CASE c = "links"
  <2>1. r \in {"InternalLinks", "ExternalLinks", "BrokenLinks", "AnchorText", "NofollowLinks"}
    BY <1>4 DEF Registered
  <2> QED BY <2>1, LinksSigned DEF Verdicts
<1>5. CASE c = "images"
  <2>1. r \in {"ImageAltText", "ImageSize", "LazyLoading", "ImageDimensions",
               "ResponsiveImages", "ImageFormats"}
    BY <1>5 DEF Registered
  <2> QED BY <2>1, ImagesSigned DEF Verdicts
<1>6. CASE c = "schema"
  <2>1. r \in {"SchemaMarkup", "OrganizationSchema", "BreadcrumbSchema", "ArticleSchema",
               "ProductSchema", "JsonLdFormat"}
    BY <1>6 DEF Registered
  <2> QED BY <2>1, SchemaSigned DEF Verdicts
<1>7. CASE c = "social"
  <2>1. r \in {"SocialMediaLinks", "FacebookDomain", "SocialImage"}
    BY <1>7 DEF Registered
  <2> QED BY <2>1, SocialSigned DEF Verdicts
<1>8. CASE c = "security"
  <2>1. r \in {"HSTS", "XSSProtection"}
    BY <1>8 DEF Registered
  <2> QED BY <2>1, SecuritySigned DEF Verdicts
<1>9. CASE c = "accessibility"
  <2>1. r \in {"FormLabels"}
    BY <1>9 DEF Registered
  <2> QED BY <2>1, AccessibilitySigned DEF Verdicts
<1>10. CASE c = "performance"
  <2>1. r \in {"ResponseTime", "HTMLSize", "Minification", "ResourceCount", "CacheHeaders",
               "Compression", "PageSize", "JavaScriptErrors", "CoreWebVitals"}
    BY <1>10 DEF Registered
  <2> QED BY <2>1, PerformanceSigned DEF Verdicts
<1> QED BY <1>1, <1>2, <1>3, <1>4, <1>5, <1>6, <1>7, <1>8, <1>9, <1>10 DEF Category, Registered

\* The impact of a verdict has the sign of the verdict, for every page and every rule.
THEOREM ImpactSigns == ImpactMatchesVerdict
BY VerdictsSigned, DataCount DEF ImpactMatchesVerdict

-----------------------------------------------------------------------------
(* What the rules are told of a page.  Pages are described by Data; of a   *)
(* record that a repair has changed, what the fields hold is enough.       *)

\* What each field of Data holds.
Kind ==
  [title |-> [length : Nat, generic : BOOLEAN, onTopic : BOOLEAN, wide : BOOLEAN],
   meta_description |-> Nat, h1 |-> [count : Nat, long : BOOLEAN, echoesTitle : BOOLEAN],
   headings |-> [h2 : Nat, h3 : Nat, deeper : Nat, sequential : BOOLEAN, empty : BOOLEAN,
                 repeated : BOOLEAN, long : BOOLEAN],
   keywords |-> BOOLEAN, canonical_url |-> SUBSET {"declared", "relative", "noindex"},
   robots_meta |-> SUBSET {"noindex", "nofollow"},
   open_graph |-> SUBSET (OgTag \cup {"fb:app_id", "fb:admins"}),
   twitter_cards |-> SUBSET (TwitterTag \cup {"twitter:image"}), social_links |-> Nat,
   https |-> BOOLEAN, ssl |-> {"unknown", "valid", "invalid"},
   viewport |-> {"none", "partial", "device"}, language |-> BOOLEAN,
   charset |-> {"none", "other", "utf-8"}, doctype |-> {"none", "<!DOCTYPE html>", "other"},
   headers |-> SUBSET Header, hstsYear |-> BOOLEAN,
   robots_txt |-> SUBSET {"rules", "sitemap", "blocks"},
   sitemap |-> {"none", "empty", "urls"}, schema_markup |-> Seq(Block),
   formats |-> SUBSET Format, path |-> SUBSET {"missing", "underscore", "space", "long"},
   normalized_url |-> BOOLEAN, status_code |-> Nat,
   hreflang |-> SUBSET {"self", "x-default", "other"}, word_count |-> Nat, shop |-> BOOLEAN,
   reading_time |-> Nat, paragraph_count |-> Nat, text_html_ratio |-> Nat, html_size |-> Nat,
   keyword |-> [given : BOOLEAN, found : SUBSET Place, inTitle : BOOLEAN],
   content_hash |-> BOOLEAN, duplicate_group_size |-> Nat, dates |-> BOOLEAN,
   duplicates |-> SUBSET {"title", "meta_description", "h1"}, internal |-> Nat,
   external |-> Nat, contextual |-> Nat, generic |-> Nat, nofollow |-> Nat, broken |-> Nat,
   broken_link_data_available |-> BOOLEAN,
   images |-> [total : Nat, without_alt : Nat, large : Nat, undimensioned : Nat,
               lazy : BOOLEAN, srcset : BOOLEAN, modern : BOOLEAN],
   forms |-> Nat, response_time |-> Nat,
   minification |-> SUBSET {"known", "html", "css", "js"}, resources |-> Nat,
   total_size |-> Nat, js_errors |-> Nat,
   core_web_vitals |-> [lcp : Nat, inp : Nat, cls : Nat]]

Field == DOMAIN Kind
Known(p) == DOMAIN p = Field /\ \A f \in Field : p[f] \in Kind[f]

LEMMA FieldNames == Field = {"title", "meta_description", "h1", "headings", "keywords", "canonical_url",
     "robots_meta", "open_graph", "twitter_cards", "social_links", "https", "ssl", "viewport",
     "language", "charset", "doctype", "headers", "hstsYear", "robots_txt", "sitemap",
     "schema_markup", "formats", "path", "normalized_url", "status_code", "hreflang",
     "word_count", "shop", "reading_time", "paragraph_count", "text_html_ratio", "html_size",
     "keyword", "content_hash", "duplicate_group_size", "dates", "duplicates", "internal",
     "external", "contextual", "generic", "nofollow", "broken", "broken_link_data_available",
     "images", "forms", "response_time", "minification", "resources", "total_size",
     "js_errors", "core_web_vitals"}
  BY DEF Field, Kind

\* Data and the fields of a record say the same.
LEMMA DataKnown == ASSUME NEW p \in Data PROVE Known(p)
<1>1. DOMAIN p = Field
  BY DEF Data, Field, Kind
<1>2. /\ p.title \in Kind.title
      /\ p.meta_description \in Kind.meta_description
      /\ p.h1 \in Kind.h1
      /\ p.headings \in Kind.headings
      /\ p.keywords \in Kind.keywords
      /\ p.canonical_url \in Kind.canonical_url
      /\ p.robots_meta \in Kind.robots_meta
      /\ p.open_graph \in Kind.open_graph
      /\ p.twitter_cards \in Kind.twitter_cards
      /\ p.social_links \in Kind.social_links
      /\ p.https \in Kind.https
      /\ p.ssl \in Kind.ssl
      /\ p.viewport \in Kind.viewport
      /\ p.language \in Kind.language
  BY DEF Data, Kind
<1>3. /\ p.charset \in Kind.charset
      /\ p.doctype \in Kind.doctype
      /\ p.headers \in Kind.headers
      /\ p.hstsYear \in Kind.hstsYear
      /\ p.robots_txt \in Kind.robots_txt
      /\ p.sitemap \in Kind.sitemap
      /\ p.schema_markup \in Kind.schema_markup
      /\ p.formats \in Kind.formats
      /\ p.path \in Kind.path
      /\ p.normalized_url \in Kind.normalized_url
      /\ p.status_code \in Kind.status_code
      /\ p.hreflang \in Kind.hreflang
      /\ p.word_count \in Kind.word_count
      /\ p.shop \in Kind.shop
  BY DEF Data, Kind
<1>4. /\ p.reading_time \in Kind.reading_time
      /\ p.paragraph_count \in Kind.paragraph_count
      /\ p.text_html_ratio \in Kind.text_html_ratio
      /\ p.html_size \in Kind.html_size
      /\ p.keyword \in Kind.keyword
      /\ p.content_hash \in Kind.content_hash
      /\ p.duplicate_group_size \in Kind.duplicate_group_size
      /\ p.dates \in Kind.dates
      /\ p.duplicates \in Kind.duplicates
      /\ p.internal \in Kind.internal
      /\ p.external \in Kind.external
      /\ p.contextual \in Kind.contextual
      /\ p.generic \in Kind.generic
      /\ p.nofollow \in Kind.nofollow
  BY DEF Data, Kind
<1>5. /\ p.broken \in Kind.broken
      /\ p.broken_link_data_available \in Kind.broken_link_data_available
      /\ p.images \in Kind.images
      /\ p.forms \in Kind.forms
      /\ p.response_time \in Kind.response_time
      /\ p.minification \in Kind.minification
      /\ p.resources \in Kind.resources
      /\ p.total_size \in Kind.total_size
      /\ p.js_errors \in Kind.js_errors
      /\ p.core_web_vitals \in Kind.core_web_vitals
  BY DEF Data, Kind
<1>6. ASSUME NEW f \in Field PROVE p[f] \in Kind[f]
  BY FieldNames, <1>2, <1>3, <1>4, <1>5
<1> QED BY <1>1, <1>6 DEF Known

\* A field that gets another value of its kind leaves the rest as it is.
LEMMA OneField == ASSUME NEW p, Known(p), NEW f \in Field, NEW v \in Kind[f]
  PROVE  Known([p EXCEPT ![f] = v])
BY DEF Known

-----------------------------------------------------------------------------
(* What arrives *)

\* What both functions make of a page.
Arrives(d, p) ==
  /\ d.title = p.title /\ d.meta_description = p.meta_description /\ d.h1 = p.h1
  /\ d.https = p.https /\ d.viewport = p.viewport /\ d.language = p.language
  /\ d.charset = p.charset /\ d.schema_markup = p.schema_markup /\ d.path = p.path
  /\ d.status_code = p.status_code /\ d.word_count = p.word_count
  /\ d.response_time = p.response_time /\ d.hstsYear = p.hstsYear /\ d.keywords = FALSE
  /\ d.canonical_url = {} /\ d.twitter_cards = {} /\ d.social_links = 0 /\ d.ssl = "unknown"
  /\ d.doctype = "none" /\ d.robots_txt = {} /\ d.sitemap = "none" /\ d.shop = FALSE
  /\ d.reading_time = 0 /\ d.paragraph_count = 0 /\ d.text_html_ratio = 0 /\ d.html_size = 0
  /\ d.duplicate_group_size = 0 /\ d.dates = FALSE /\ d.duplicates = {} /\ d.external = 0
  /\ d.contextual = 0 /\ d.nofollow = 0 /\ d.forms = 0 /\ d.minification = {}
  /\ d.resources = 0 /\ d.total_size = 0 /\ d.js_errors = 0
  /\ d.open_graph = p.open_graph \cap OgTag /\ d.internal = p.internal + p.external
  /\ d.generic = p.internal + p.external
  /\ d.core_web_vitals = [lcp |-> 0, inp |-> 0, cls |-> 0] /\ d.headings.h2 = p.headings.h2
  /\ d.headings.h3 = p.headings.h3 /\ d.headings.deeper = p.headings.deeper
  /\ d.headings.repeated = p.headings.repeated /\ d.headings.long = p.headings.long
  /\ d.headings.sequential /\ ~d.headings.empty /\ ~d.keyword.given /\ d.images.large = 0
  /\ d.images.total = p.images.total /\ d.images.without_alt = p.images.without_alt
  /\ d.images.undimensioned = p.images.undimensioned /\ d.images.lazy = p.images.lazy
  /\ d.images.srcset = p.images.srcset /\ d.images.modern = p.images.modern

\* What each of them makes of the rest.
ArrivesAtAudit(d, p) ==
  /\ d.robots_meta = p.robots_meta /\ d.headers = p.headers /\ d.hreflang = p.hreflang
  /\ d.broken = p.broken /\ d.broken_link_data_available /\ d.normalized_url
  /\ d.content_hash = (p.word_count > 0)
  /\ d.formats = {p.schema_markup[i].format : i \in DOMAIN p.schema_markup}

ArrivesAtStream(d, p) ==
  /\ d.robots_meta = {} /\ d.headers = {} /\ d.hreflang = {} /\ d.broken = 0
  /\ d.broken_link_data_available = FALSE /\ d.normalized_url = FALSE /\ d.content_hash = FALSE
  /\ d.formats = {}

\* Both functions begin with what is lost by both ...
LEMMA CommonArrives ==
  ASSUME NEW p, Known(p)
  PROVE  /\ DOMAIN Common(p) = Field
         /\ Arrives(Common(p), p)
         /\ Common(p).robots_meta = p.robots_meta /\ Common(p).headers = p.headers
         /\ Common(p).hreflang = p.hreflang /\ Common(p).broken = p.broken
<1> DEFINE d == Common(p)
<1>1. DOMAIN p = Field
  BY DEF Known
<1>2. /\ DOMAIN p.headings = {"h2", "h3", "deeper", "sequential", "empty", "repeated", "long"}
      /\ DOMAIN p.keyword = {"given", "found", "inTitle"}
      /\ DOMAIN p.images = {"total", "without_alt", "large", "undimensioned", "lazy", "srcset", "modern"}
  <2>1. /\ p.headings \in Kind.headings /\ p.keyword \in Kind.keyword /\ p.images \in Kind.images
    BY FieldNames DEF Known
  <2> QED BY <2>1 DEF Kind
<1>3. DOMAIN d = Field
  BY <1>1, FieldNames DEF Common
<1>4a. /\ d.title = p.title /\ d.meta_description = p.meta_description /\ d.h1 = p.h1
       /\ d.https = p.https /\ d.viewport = p.viewport /\ d.language = p.language
       /\ d.charset = p.charset /\ d.schema_markup = p.schema_markup /\ d.path = p.path
  BY <1>1, FieldNames DEF Common
<1>4b. /\ d.status_code = p.status_code /\ d.word_count = p.word_count
       /\ d.response_time = p.response_time /\ d.hstsYear = p.hstsYear /\ d.keywords = FALSE
       /\ d.canonical_url = {} /\ d.twitter_cards = {} /\ d.social_links = 0
       /\ d.ssl = "unknown"
  BY <1>1, FieldNames DEF Common
<1>4c. /\ d.doctype = "none" /\ d.robots_txt = {} /\ d.sitemap = "none" /\ d.shop = FALSE
       /\ d.reading_time = 0 /\ d.paragraph_count = 0 /\ d.text_html_ratio = 0
       /\ d.html_size = 0 /\ d.duplicate_group_size = 0
  BY <1>1, FieldNames DEF Common
<1>4d. /\ d.dates = FALSE /\ d.duplicates = {} /\ d.external = 0 /\ d.contextual = 0
       /\ d.nofollow = 0 /\ d.forms = 0 /\ d.minification = {} /\ d.resources = 0
       /\ d.total_size = 0
  BY <1>1, FieldNames DEF Common
<1>4e. /\ d.js_errors = 0 /\ d.open_graph = p.open_graph \cap OgTag
       /\ d.internal = p.internal + p.external /\ d.generic = p.internal + p.external
       /\ d.core_web_vitals = [lcp |-> 0, inp |-> 0, cls |-> 0]
       /\ d.headings = [p.headings EXCEPT !.sequential = TRUE, !.empty = FALSE]
       /\ d.keyword = [p.keyword EXCEPT !.given = FALSE]
       /\ d.images = [p.images EXCEPT !.large = 0]
  BY <1>1, FieldNames DEF Common
<1>5. /\ d.headings.h2 = p.headings.h2 /\ d.headings.h3 = p.headings.h3
      /\ d.headings.deeper = p.headings.deeper /\ d.headings.repeated = p.headings.repeated
      /\ d.headings.long = p.headings.long /\ d.headings.sequential /\ ~d.headings.empty
      /\ ~d.keyword.given /\ d.images.large = 0 /\ d.images.total = p.images.total
      /\ d.images.without_alt = p.images.without_alt
      /\ d.images.undimensioned = p.images.undimensioned /\ d.images.lazy = p.images.lazy
      /\ d.images.srcset = p.images.srcset /\ d.images.modern = p.images.modern
  BY <1>2, <1>4e
<1>6. /\ d.robots_meta = p.robots_meta /\ d.headers = p.headers /\ d.hreflang = p.hreflang
      /\ d.broken = p.broken
  BY <1>1, FieldNames DEF Common
<1> HIDE DEF d
<1> QED BY <1>3, <1>4a, <1>4b, <1>4c, <1>4d, <1>4e, <1>5, <1>6 DEF Arrives, d

\* ... and each loses or finds the rest in its own way.
LEMMA AuditArrives ==
  ASSUME NEW p, Known(p) PROVE Arrives(AuditReader(p), p) /\ ArrivesAtAudit(AuditReader(p), p)
<1> DEFINE c == Common(p)
           d == AuditReader(p)
<1>1. Arrives(c, p) /\ DOMAIN c = Field /\ c.robots_meta = p.robots_meta
      /\ c.headers = p.headers /\ c.hreflang = p.hreflang /\ c.broken = p.broken
  BY CommonArrives
<1>2. d = [c EXCEPT !.content_hash = p.word_count > 0, !.normalized_url = TRUE,
                    !.broken_link_data_available = TRUE,
                    !.formats = {p.schema_markup[i].format : i \in DOMAIN p.schema_markup}]
  BY DEF AuditReader
<1> HIDE DEF c, d
<1>3. \A f \in Field \ {"content_hash", "normalized_url", "broken_link_data_available",
                        "formats"} : d[f] = c[f]
  BY <1>1, <1>2
<1>4. Arrives(d, p)
  BY <1>1, <1>3, FieldNames DEF Arrives
<1>5. ArrivesAtAudit(d, p)
  BY <1>1, <1>2, <1>3, FieldNames DEF ArrivesAtAudit
<1> QED BY <1>4, <1>5 DEF d

LEMMA StreamArrives ==
  ASSUME NEW p, Known(p) PROVE Arrives(StreamReader(p), p) /\ ArrivesAtStream(StreamReader(p), p)
<1> DEFINE c == Common(p)
           d == StreamReader(p)
<1>1. Arrives(c, p) /\ DOMAIN c = Field
  BY CommonArrives
<1>2. d = [c EXCEPT !.robots_meta = {}, !.headers = {}, !.hreflang = {}, !.formats = {},
                    !.content_hash = FALSE, !.normalized_url = FALSE,
                    !.broken = 0, !.broken_link_data_available = FALSE]
  BY DEF StreamReader
<1> HIDE DEF c, d
<1>3. \A f \in Field \ {"robots_meta", "headers", "hreflang", "formats", "content_hash", "normalized_url",
                        "broken", "broken_link_data_available"} : d[f] = c[f]
  BY <1>1, <1>2
<1>4. Arrives(d, p)
  BY <1>1, <1>3, FieldNames DEF Arrives
<1>5. ArrivesAtStream(d, p)
  BY <1>1, <1>2, FieldNames DEF ArrivesAtStream
<1> QED BY <1>4, <1>5 DEF d

-----------------------------------------------------------------------------
(* Verdicts on what arrives *)

\* The page is described as Sane says; of the type of Data its fields are enough.
Sound(p) ==
  /\ Known(p) /\ p.normalized_url /\ p.broken_link_data_available
  /\ p.generic <= p.internal + p.external
  /\ "json-ld" \in p.formats => \E i \in DOMAIN p.schema_markup : p.schema_markup[i].format = "json-ld"

Sees(d, p) ==
  Arrives(d, p) /\ IF adapter = "audit" THEN ArrivesAtAudit(d, p) ELSE ArrivesAtStream(d, p)

\* What VerdictsAreTrue allows the verdict on a page to be, when another one is deserved.
Apt(told, deserved, r) ==
  /\ deserved.passed /\ ~told.passed => r \in Unheard \cup {"WordCount", "SocialImage"}
  /\ ~deserved.passed /\ told.passed => r \in Blind

LEMMA SeenArrives == ASSUME NEW p, Known(p) PROVE Sees(Seen(p), p)
BY AuditArrives, StreamArrives DEF Sees, Seen

LEMMA Counted ==
  ASSUME NEW p, Sound(p)
  PROVE  /\ p.internal \in Nat /\ p.external \in Nat /\ p.contextual \in Nat
         /\ p.generic \in Nat /\ p.nofollow \in Nat /\ p.word_count \in Nat
         /\ p.broken \in Nat /\ p.response_time \in Nat /\ p.meta_description \in Nat
         /\ p.path \in SUBSET {"missing", "underscore", "space", "long"}
         /\ p.images.total \in Nat /\ p.images.without_alt \in Nat
         /\ p.h1.count \in Nat /\ p.headings.h2 \in Nat /\ p.headings.h3 \in Nat
         /\ p.headings.deeper \in Nat /\ p.title.length \in Nat
<1>1. \A f \in {"internal", "external", "contextual", "generic", "nofollow", "word_count", "broken",
                "response_time", "meta_description", "path", "images", "h1", "headings", "title"} :
        f \in Field /\ p[f] \in Kind[f]
  BY FieldNames DEF Sound, Known
<1>2. /\ p.internal \in Nat /\ p.external \in Nat /\ p.contextual \in Nat
      /\ p.generic \in Nat /\ p.nofollow \in Nat /\ p.word_count \in Nat
  BY <1>1 DEF Kind
<1>3. /\ p.broken \in Nat /\ p.response_time \in Nat /\ p.meta_description \in Nat
      /\ p.path \in SUBSET {"missing", "underscore", "space", "long"}
  BY <1>1 DEF Kind
<1>4. p.images.total \in Nat /\ p.images.without_alt \in Nat
  BY <1>1 DEF Kind
<1>5. /\ p.h1.count \in Nat /\ p.headings.h2 \in Nat /\ p.headings.h3 \in Nat
      /\ p.headings.deeper \in Nat /\ p.title.length \in Nat
  BY <1>1 DEF Kind
<1> QED BY <1>2, <1>3, <1>4, <1>5

LEMMA OnPageApt ==
  ASSUME Sound(page), NEW d, Sees(d, page)
  PROVE  /\ Apt(TitleTag(d), TitleTag(page), "TitleTag")
         /\ Apt(MetaDescription(d), MetaDescription(page), "MetaDescription")
         /\ Apt(H1Tag(d), H1Tag(page), "H1Tag")
         /\ Apt(HeadingHierarchy(d), HeadingHierarchy(page), "HeadingHierarchy")
         /\ Apt(MetaKeywords(d), MetaKeywords(page), "MetaKeywords")
         /\ Apt(CanonicalUrl(d), CanonicalUrl(page), "CanonicalUrl")
         /\ Apt(RobotsMeta(d), RobotsMeta(page), "RobotsMeta")
         /\ Apt(OpenGraph(d), OpenGraph(page), "OpenGraph")
         /\ Apt(TwitterCards(d), TwitterCards(page), "TwitterCards")
<1>1. Apt(TitleTag(d), TitleTag(page), "TitleTag")
  <2>1. TitleTag(page).passed => TitleTag(d).passed
    BY DEF Sees, Arrives, Pass, Fail, PassUnless, Raised, TitleTag, TitleVerdict, TitleIssues,
       LengthStatus
  <2>2. CASE page.keyword.given
    BY <2>1, <2>2 DEF Apt, Blind
  <2>3. CASE ~page.keyword.given
    <3>1. TitleIssues(d) = TitleIssues(page)
      BY <2>3 DEF Sees, Arrives, TitleIssues
    <3> QED BY <3>1 DEF Sees, Arrives, TitleTag, Apt
  <2> QED BY <2>2, <2>3
<1>2. Apt(MetaDescription(d), MetaDescription(page), "MetaDescription")
  <2>1. MetaDescription(d).passed <=> MetaDescription(page).passed
    BY DEF Sees, Sound, Arrives, Pass, Fail, PassUnless, Raised, MetaDescription
  <2> QED BY <2>1 DEF Apt
<1>3. Apt(H1Tag(d), H1Tag(page), "H1Tag")
  <2>1. H1Tag(d).passed <=> H1Tag(page).passed
    BY DEF Sees, Sound, Arrives, Pass, Fail, PassUnless, Raised, H1Tag
  <2> QED BY <2>1 DEF Apt
<1>4. Apt(HeadingHierarchy(d), HeadingHierarchy(page), "HeadingHierarchy")
  <2>1. HeadingHierarchy(page).passed => HeadingHierarchy(d).passed
    BY DEF Sees, Sound, Arrives, Pass, Fail, PassUnless, Raised, HeadingHierarchy, If
  <2> QED BY <2>1 DEF Apt, Blind
<1>5. Apt(MetaKeywords(d), MetaKeywords(page), "MetaKeywords")
  <2>1. MetaKeywords(d).passed <=> MetaKeywords(page).passed
    BY DEF Sees, Sound, Arrives, Pass, Fail, PassUnless, Raised, MetaKeywords
  <2> QED BY <2>1 DEF Apt
<1>6. Apt(CanonicalUrl(d), CanonicalUrl(page), "CanonicalUrl")
  <2>1. ~CanonicalUrl(page).passed => ~CanonicalUrl(d).passed
    BY DEF Sees, Sound, Arrives, Pass, Fail, PassUnless, Raised, CanonicalUrl
  <2> QED BY <2>1 DEF Apt, Unheard
<1>7. Apt(RobotsMeta(d), RobotsMeta(page), "RobotsMeta")
  <2>1. CASE adapter = "audit"
    <3>1. RobotsMeta(d).passed <=> RobotsMeta(page).passed
      BY <2>1 DEF Sees, Sound, ArrivesAtAudit, Arrives, Pass, Fail, PassUnless, Raised, RobotsMeta
    <3> QED BY <3>1 DEF Apt
  <2>2. CASE adapter # "audit"
    <3>1. RobotsMeta(d).passed
      BY <2>2 DEF Sees, ArrivesAtStream, Arrives, Pass, Fail, PassUnless, Raised, RobotsMeta
    <3> QED BY <2>2, <3>1 DEF Apt, Unheard, Blind
  <2> QED BY <2>1, <2>2
<1>8. Apt(OpenGraph(d), OpenGraph(page), "OpenGraph")
  <2>1. OpenGraph(d).passed <=> OpenGraph(page).passed
    BY DEF Sees, Sound, Arrives, Pass, Fail, PassUnless, Raised, OpenGraph
  <2> QED BY <2>1 DEF Apt
<1>9. Apt(TwitterCards(d), TwitterCards(page), "TwitterCards")
  <2>1. TwitterCards(page).passed => TwitterCards(d).passed
    BY DEF Sees, Sound, Arrives, Pass, Fail, PassUnless, Raised, TwitterCards
  <2> QED BY <2>1 DEF Apt, Blind
<1> QED BY <1>1, <1>2, <1>3, <1>4, <1>5, <1>6, <1>7, <1>8, <1>9

LEMMA TechnicalApt ==
  ASSUME Sound(page), NEW d, Sees(d, page)
  PROVE  /\ Apt(SSL_Certificate(d), SSL_Certificate(page), "SSL_Certificate")
         /\ Apt(MobileViewport(d), MobileViewport(page), "MobileViewport")
         /\ Apt(LanguageDeclaration(d), LanguageDeclaration(page), "LanguageDeclaration")
         /\ Apt(Charset(d), Charset(page), "Charset")
         /\ Apt(Doctype(d), Doctype(page), "Doctype")
         /\ Apt(SecurityHeaders(d), SecurityHeaders(page), "SecurityHeaders")
         /\ Apt(RobotsTxt(d), RobotsTxt(page), "RobotsTxt")
         /\ Apt(Sitemap(d), Sitemap(page), "Sitemap")
         /\ Apt(StructuredData(d), StructuredData(page), "StructuredData")
         /\ Apt(Url(d), Url(page), "Url")
         /\ Apt(Mobile(d), Mobile(page), "Mobile")
         /\ Apt(HttpStatus(d), HttpStatus(page), "HttpStatus")
         /\ Apt(Hreflang(d), Hreflang(page), "Hreflang")
<1>1. Apt(SSL_Certificate(d), SSL_Certificate(page), "SSL_Certificate")
  <2>1. SSL_Certificate(page).passed => SSL_Certificate(d).passed
    BY DEF Sees, Sound, Arrives, Pass, Fail, PassUnless, Raised, SSL_Certificate
  <2> QED BY <2>1 DEF Apt, Blind
<1>2. Apt(MobileViewport(d), MobileViewport(page), "MobileViewport")
  <2>1. MobileViewport(d).passed <=> MobileViewport(page).passed
    BY DEF Sees, Sound, Arrives, Pass, Fail, PassUnless, Raised, MobileViewport
  <2> QED BY <2>1 DEF Apt
<1>3. Apt(LanguageDeclaration(d), LanguageDeclaration(page), "LanguageDeclaration")
  <2>1. LanguageDeclaration(d).passed <=> LanguageDeclaration(page).passed
    BY DEF Sees, Sound, Arrives, Pass, Fail, PassUnless, Raised, LanguageDeclaration
  <2> QED BY <2>1 DEF Apt
<1>4. Apt(Charset(d), Charset(page), "Charset")
  <2>1. Charset(d).passed <=> Charset(page).passed
    BY DEF Sees, Sound, Arrives, Pass, Fail, PassUnless, Raised, Charset
  <2> QED BY <2>1 DEF Apt
<1>5. Apt(Doctype(d), Doctype(page), "Doctype")
  <2>1. ~Doctype(page).passed => ~Doctype(d).passed
    BY DEF Sees, Sound, Arrives, Pass, Fail, PassUnless, Raised, Doctype
  <2> QED BY <2>1 DEF Apt, Unheard
<1>6. Apt(SecurityHeaders(d), SecurityHeaders(page), "SecurityHeaders")
  <2>1. CASE adapter = "audit"
    <3>1. SecurityHeaders(d).passed <=> SecurityHeaders(page).passed
      BY <2>1 DEF Sees, Sound, ArrivesAtAudit, Arrives, Pass, Fail, PassUnless, Raised,
         SecurityHeaders
    <3> QED BY <3>1 DEF Apt
  <2>2. CASE adapter # "audit"
    <3>1. ~SecurityHeaders(d).passed
      BY <2>2 DEF Sees, ArrivesAtStream, Arrives, Pass, Fail, PassUnless, Raised, SecurityHeaders
    <3> QED BY <2>2, <3>1 DEF Apt, Unheard, Blind
  <2> QED BY <2>1, <2>2
<1>7. Apt(RobotsTxt(d), RobotsTxt(page), "RobotsTxt")
  <2>1. RobotsTxt(page).passed => RobotsTxt(d).passed
    BY DEF Sees, Sound, Arrives, Pass, Fail, PassUnless, Raised, RobotsTxt
  <2> QED BY <2>1 DEF Apt, Blind
<1>8. Apt(Sitemap(d), Sitemap(page), "Sitemap")
  <2>1. ~Sitemap(page).passed => ~Sitemap(d).passed
    BY DEF Sees, Sound, Arrives, Pass, Fail, PassUnless, Raised, Sitemap
  <2> QED BY <2>1 DEF Apt, Unheard
<1>9. Apt(StructuredData(d), StructuredData(page), "StructuredData")
  <2>1. StructuredData(d).passed <=> StructuredData(page).passed
    BY DEF Sees, Sound, Arrives, Pass, Fail, PassUnless, Raised, StructuredData, JoinRaises
  <2> QED BY <2>1 DEF Apt
<1>10. Apt(Url(d), Url(page), "Url")
  <2>1. CASE adapter = "audit"
    <3>1. Url(d).passed <=> Url(page).passed
      BY <2>1 DEF Sees, Sound, ArrivesAtAudit, Arrives, Pass, Fail, PassUnless, Raised, Url
    <3> QED BY <3>1 DEF Apt
  <2>2. CASE adapter # "audit"
    <3>1. Url(page).passed => Url(d).passed
      BY <2>2 DEF Sees, Sound, Arrives, Pass, Fail, PassUnless, Raised, Url
    <3> QED BY <2>2, <3>1 DEF Apt, Blind
  <2> QED BY <2>1, <2>2
<1>11. Apt(Mobile(d), Mobile(page), "Mobile")
  <2>1. Mobile(d).passed <=> Mobile(page).passed
    BY DEF Sees, Sound, Arrives, Pass, Fail, PassUnless, Raised, Mobile
  <2> QED BY <2>1 DEF Apt
<1>12. Apt(HttpStatus(d), HttpStatus(page), "HttpStatus")
  <2>1. HttpStatus(d).passed <=> HttpStatus(page).passed
    BY DEF Sees, Sound, Arrives, Pass, Fail, PassUnless, Raised, HttpStatus
  <2> QED BY <2>1 DEF Apt
<1>13. Apt(Hreflang(d), Hreflang(page), "Hreflang")
  <2>1. CASE adapter = "audit"
    <3>1. Hreflang(d).passed <=> Hreflang(page).passed
      BY <2>1 DEF Sees, Sound, ArrivesAtAudit, Arrives, Pass, Fail, PassUnless, Raised, Hreflang
    <3> QED BY <3>1 DEF Apt
  <2>2. CASE adapter # "audit"
    <3>1. Hreflang(d).passed
      BY <2>2 DEF Sees, ArrivesAtStream, Arrives, Pass, Fail, PassUnless, Raised, Hreflang
    <3> QED BY <2>2, <3>1 DEF Apt, Unheard, Blind
  <2> QED BY <2>1, <2>2
<1> QED BY <1>1, <1>2, <1>3, <1>4, <1>5, <1>6, <1>7, <1>8, <1>9, <1>10, <1>11, <1>12, <1>13

LEMMA ContentApt ==
  ASSUME Sound(page), NEW d, Sees(d, page)
  PROVE  /\ Apt(WordCount(d), WordCount(page), "WordCount")
         /\ Apt(ReadingTime(d), ReadingTime(page), "ReadingTime")
         /\ Apt(ParagraphCount(d), ParagraphCount(page), "ParagraphCount")
         /\ Apt(TextHtmlRatio(d), TextHtmlRatio(page), "TextHtmlRatio")
         /\ Apt(KeywordInContent(d), KeywordInContent(page), "KeywordInContent")
         /\ Apt(DuplicateContent(d), DuplicateContent(page), "DuplicateContent")
         /\ Apt(ContentFreshness(d), ContentFreshness(page), "ContentFreshness")
         /\ Apt(DuplicateTitles(d), DuplicateTitles(page), "DuplicateTitles")
         /\ Apt(DuplicateDescriptions(d), DuplicateDescriptions(page), "DuplicateDescriptions")
         /\ Apt(DuplicateH1s(d), DuplicateH1s(page), "DuplicateH1s")
<1>1. Apt(WordCount(d), WordCount(page), "WordCount")
  <2>1. ~WordCount(page).passed => ~WordCount(d).passed
    BY Counted DEF Sees, Sound, Arrives, Pass, Fail, PassUnless, Raised, WordCount
  <2> QED BY <2>1 DEF Apt, Unheard
<1>2. Apt(ReadingTime(d), ReadingTime(page), "ReadingTime")
  <2>1. ReadingTime(page).passed => ReadingTime(d).passed
    BY DEF Sees, Sound, Arrives, Pass, Fail, PassUnless, Raised, ReadingTime
  <2> QED BY <2>1 DEF Apt, Blind
<1>3. Apt(ParagraphCount(d), ParagraphCount(page), "ParagraphCount")
  <2>1. ~ParagraphCount(page).passed => ~ParagraphCount(d).passed
    BY DEF Sees, Sound, Arrives, Pass, Fail, PassUnless, Raised, ParagraphCount
  <2> QED BY <2>1 DEF Apt, Unheard
<1>4. Apt(TextHtmlRatio(d), TextHtmlRatio(page), "TextHtmlRatio")
  <2>1. TextHtmlRatio(page).passed => TextHtmlRatio(d).passed
    BY DEF Sees, Sound, Arrives, Pass, Fail, PassUnless, Raised, TextHtmlRatio
  <2> QED BY <2>1 DEF Apt, Blind
<1>5. Apt(KeywordInContent(d), KeywordInContent(page), "KeywordInContent")
  <2>1. KeywordInContent(d).passed
    BY DEF Sees, Arrives, Pass, Fail, PassUnless, Raised, KeywordInContent
  <2>2. CASE page.keyword.given
    BY <2>1, <2>2 DEF Apt, Blind
  <2>3. CASE ~page.keyword.given
    <3>1. KeywordInContent(page).passed
      BY <2>3 DEF KeywordInContent, Pass, PassUnless
    <3> QED BY <2>1, <3>1 DEF Apt
  <2> QED BY <2>2, <2>3
<1>6. Apt(DuplicateContent(d), DuplicateContent(page), "DuplicateContent")
  <2>1. ~DuplicateContent(page).passed => ~DuplicateContent(d).passed
    BY DEF Sees, Sound, Arrives, Pass, Fail, PassUnless, Raised, DuplicateContent
  <2> QED BY <2>1 DEF Apt, Unheard
<1>7. Apt(ContentFreshness(d), ContentFreshness(page), "ContentFreshness")
  <2>1. ~ContentFreshness(page).passed => ~ContentFreshness(d).passed
    BY DEF Sees, Sound, Arrives, Pass, Fail, PassUnless, Raised, ContentFreshness
  <2> QED BY <2>1 DEF Apt, Unheard
<1>8. Apt(DuplicateTitles(d), DuplicateTitles(page), "DuplicateTitles")
  <2>1. DuplicateTitles(page).passed => DuplicateTitles(d).passed
    BY DEF Sees, Sound, Arrives, Pass, Fail, PassUnless, Raised, DuplicateTitles
  <2> QED BY <2>1 DEF Apt, Blind
<1>9. Apt(DuplicateDescriptions(d), DuplicateDescriptions(page), "DuplicateDescriptions")
  <2>1. DuplicateDescriptions(page).passed => DuplicateDescriptions(d).passed
    BY DEF Sees, Sound, Arrives, Pass, Fail, PassUnless, Raised, DuplicateDescriptions
  <2> QED BY <2>1 DEF Apt, Blind
<1>10. Apt(DuplicateH1s(d), DuplicateH1s(page), "DuplicateH1s")
  <2>1. DuplicateH1s(page).passed => DuplicateH1s(d).passed
    BY DEF Sees, Sound, Arrives, Pass, Fail, PassUnless, Raised, DuplicateH1s
  <2> QED BY <2>1 DEF Apt, Blind
<1> QED BY <1>1, <1>2, <1>3, <1>4, <1>5, <1>6, <1>7, <1>8, <1>9, <1>10

LEMMA LinksApt ==
  ASSUME Sound(page), NEW d, Sees(d, page)
  PROVE  /\ Apt(InternalLinks(d), InternalLinks(page), "InternalLinks")
         /\ Apt(ExternalLinks(d), ExternalLinks(page), "ExternalLinks")
         /\ Apt(BrokenLinks(d), BrokenLinks(page), "BrokenLinks")
         /\ Apt(AnchorText(d), AnchorText(page), "AnchorText")
         /\ Apt(NofollowLinks(d), NofollowLinks(page), "NofollowLinks")
<1>1. Apt(InternalLinks(d), InternalLinks(page), "InternalLinks")
  <2>1. InternalLinks(page).passed => InternalLinks(d).passed
    BY Counted DEF Sees, Sound, Arrives, Pass, Fail, PassUnless, Raised, InternalLinks
  <2> QED BY <2>1 DEF Apt, Blind
<1>2. Apt(ExternalLinks(d), ExternalLinks(page), "ExternalLinks")
  <2>1. ~ExternalLinks(page).passed => ~ExternalLinks(d).passed
    BY DEF Sees, Sound, Arrives, Pass, Fail, PassUnless, Raised, ExternalLinks
  <2> QED BY <2>1 DEF Apt, Unheard
<1>3. Apt(BrokenLinks(d), BrokenLinks(page), "BrokenLinks")
  <2>1. CASE adapter = "audit"
    <3>1. BrokenLinks(d).passed <=> BrokenLinks(page).passed
      BY <2>1 DEF Sees, Sound, ArrivesAtAudit, Arrives, Pass, Fail, PassUnless, Raised, BrokenLinks
    <3> QED BY <3>1 DEF Apt
  <2>2. CASE adapter # "audit"
    <3>1. BrokenLinks(d).passed
      BY <2>2 DEF Sees, ArrivesAtStream, Arrives, Pass, Fail, PassUnless, Raised, BrokenLinks
    <3> QED BY <2>2, <3>1 DEF Apt, Unheard, Blind
  <2> QED BY <2>1, <2>2
<1>4. Apt(AnchorText(d), AnchorText(page), "AnchorText")
  <2>1. ~AnchorText(page).passed => ~AnchorText(d).passed
    BY Counted DEF Sees, Sound, Arrives, Pass, Fail, PassUnless, Raised, AnchorText
  <2> QED BY <2>1 DEF Apt, Unheard
<1>5. Apt(NofollowLinks(d), NofollowLinks(page), "NofollowLinks")
  <2>1. NofollowLinks(page).passed => NofollowLinks(d).passed
    BY Counted DEF Sees, Sound, Arrives, Pass, Fail, PassUnless, Raised, NofollowLinks
  <2> QED BY <2>1 DEF Apt, Blind
<1> QED BY <1>1, <1>2, <1>3, <1>4, <1>5

LEMMA ImagesApt ==
  ASSUME Sound(page), NEW d, Sees(d, page)
  PROVE  /\ Apt(ImageAltText(d), ImageAltText(page), "ImageAltText")
         /\ Apt(ImageSize(d), ImageSize(page), "ImageSize")
         /\ Apt(LazyLoading(d), LazyLoading(page), "LazyLoading")
         /\ Apt(ImageDimensions(d), ImageDimensions(page), "ImageDimensions")
         /\ Apt(ResponsiveImages(d), ResponsiveImages(page), "ResponsiveImages")
         /\ Apt(ImageFormats(d), ImageFormats(page), "ImageFormats")
<1>1. Apt(ImageAltText(d), ImageAltText(page), "ImageAltText")
  <2>1. ImageAltText(d).passed <=> ImageAltText(page).passed
    BY DEF Sees, Sound, Arrives, Pass, Fail, PassUnless, Raised, ImageAltText, AtMost
  <2> QED BY <2>1 DEF Apt
<1>2. Apt(ImageSize(d), ImageSize(page), "ImageSize")
  <2>1. ImageSize(page).passed => ImageSize(d).passed
    BY DEF Sees, Sound, Arrives, Pass, Fail, PassUnless, Raised, ImageSize
  <2> QED BY <2>1 DEF Apt, Blind
<1>3. Apt(LazyLoading(d), LazyLoading(page), "LazyLoading")
  <2>1. LazyLoading(d).passed <=> LazyLoading(page).passed
    BY DEF Sees, Sound, Arrives, Pass, Fail, PassUnless, Raised, LazyLoading
  <2> QED BY <2>1 DEF Apt
<1>4. Apt(ImageDimensions(d), ImageDimensions(page), "ImageDimensions")
  <2>1. ImageDimensions(d).passed <=> ImageDimensions(page).passed
    BY DEF Sees, Sound, Arrives, Pass, Fail, PassUnless, Raised, ImageDimensions
  <2> QED BY <2>1 DEF Apt
<1>5. Apt(ResponsiveImages(d), ResponsiveImages(page), "ResponsiveImages")
  <2>1. ResponsiveImages(d).passed <=> ResponsiveImages(page).passed
    BY DEF Sees, Sound, Arrives, Pass, Fail, PassUnless, Raised, ResponsiveImages
  <2> QED BY <2>1 DEF Apt
<1>6. Apt(ImageFormats(d), ImageFormats(page), "ImageFormats")
  <2>1. ImageFormats(d).passed <=> ImageFormats(page).passed
    BY DEF Sees, Sound, Arrives, Pass, Fail, PassUnless, Raised, ImageFormats
  <2> QED BY <2>1 DEF Apt
<1> QED BY <1>1, <1>2, <1>3, <1>4, <1>5, <1>6

LEMMA SchemaApt ==
  ASSUME Sound(page), NEW d, Sees(d, page)
  PROVE  /\ Apt(SchemaMarkup(d), SchemaMarkup(page), "SchemaMarkup")
         /\ Apt(OrganizationSchema(d), OrganizationSchema(page), "OrganizationSchema")
         /\ Apt(BreadcrumbSchema(d), BreadcrumbSchema(page), "BreadcrumbSchema")
         /\ Apt(ArticleSchema(d), ArticleSchema(page), "ArticleSchema")
         /\ Apt(ProductSchema(d), ProductSchema(page), "ProductSchema")
         /\ Apt(JsonLdFormat(d), JsonLdFormat(page), "JsonLdFormat")
<1>1. Apt(SchemaMarkup(d), SchemaMarkup(page), "SchemaMarkup")
  <2>1. SchemaMarkup(d).passed <=> SchemaMarkup(page).passed
    BY DEF Sees, Sound, Arrives, Pass, Fail, PassUnless, Raised, SchemaMarkup, JoinRaises
  <2> QED BY <2>1 DEF Apt
<1>2. Apt(OrganizationSchema(d), OrganizationSchema(page), "OrganizationSchema")
  <2>1. OrganizationSchema(d).passed <=> OrganizationSchema(page).passed
    BY DEF Sees, Sound, Arrives, Pass, Fail, PassUnless, Raised, OrganizationSchema, Looks
  <2> QED BY <2>1 DEF Apt
<1>3. Apt(BreadcrumbSchema(d), BreadcrumbSchema(page), "BreadcrumbSchema")
  <2>1. BreadcrumbSchema(d).passed <=> BreadcrumbSchema(page).passed
    BY DEF Sees, Sound, Arrives, Pass, Fail, PassUnless, Raised, BreadcrumbSchema, Looks
  <2> QED BY <2>1 DEF Apt
<1>4. Apt(ArticleSchema(d), ArticleSchema(page), "ArticleSchema")
  <2>1. ArticleSchema(d).passed <=> ArticleSchema(page).passed
    BY DEF Sees, Sound, Arrives, Pass, Fail, PassUnless, Raised, ArticleSchema, Looks
  <2> QED BY <2>1 DEF Apt
<1>5. Apt(ProductSchema(d), ProductSchema(page), "ProductSchema")
  <2>1. ProductSchema(d).passed <=> ProductSchema(page).passed
    BY DEF Sees, Sound, Arrives, Pass, Fail, PassUnless, Raised, ProductSchema, Looks
  <2> QED BY <2>1 DEF Apt
<1>6. Apt(JsonLdFormat(d), JsonLdFormat(page), "JsonLdFormat")
  <2>1. CASE adapter = "audit"
    <3>1. JsonLdFormat(d).passed <=> JsonLdFormat(page).passed
      BY <2>1 DEF Sees, Sound, ArrivesAtAudit, Arrives, Pass, Fail, PassUnless, Raised, JsonLdFormat
    <3> QED BY <3>1 DEF Apt
  <2>2. CASE adapter # "audit"
    <3>1. JsonLdFormat(d).passed <=> JsonLdFormat(page).passed
      BY <2>2 DEF Sees, Sound, ArrivesAtStream, Arrives, Pass, Fail, PassUnless, Raised,
         JsonLdFormat
    <3> QED BY <3>1 DEF Apt
  <2> QED BY <2>1, <2>2
<1> QED BY <1>1, <1>2, <1>3, <1>4, <1>5, <1>6

LEMMA SocialApt ==
  ASSUME Sound(page), NEW d, Sees(d, page)
  PROVE  /\ Apt(SocialMediaLinks(d), SocialMediaLinks(page), "SocialMediaLinks")
         /\ Apt(FacebookDomain(d), FacebookDomain(page), "FacebookDomain")
         /\ Apt(SocialImage(d), SocialImage(page), "SocialImage")
<1>1. Apt(SocialMediaLinks(d), SocialMediaLinks(page), "SocialMediaLinks")
  <2>1. ~SocialMediaLinks(page).passed => ~SocialMediaLinks(d).passed
    BY DEF Sees, Sound, Arrives, Pass, Fail, PassUnless, Raised, SocialMediaLinks
  <2> QED BY <2>1 DEF Apt, Unheard
<1>2. Apt(FacebookDomain(d), FacebookDomain(page), "FacebookDomain")
  <2>1. ~FacebookDomain(page).passed => ~FacebookDomain(d).passed
    BY DEF Sees, Sound, Arrives, Pass, Fail, PassUnless, Raised, FacebookDomain
  <2> QED BY <2>1 DEF Apt, Unheard
<1>3. Apt(SocialImage(d), SocialImage(page), "SocialImage")
  <2>1. ~SocialImage(page).passed => ~SocialImage(d).passed
    BY DEF Sees, Sound, Arrives, Pass, Fail, PassUnless, Raised, SocialImage
  <2> QED BY <2>1 DEF Apt, Unheard
<1> QED BY <1>1, <1>2, <1>3

LEMMA SecurityApt ==
  ASSUME Sound(page), NEW d, Sees(d, page)
  PROVE  /\ Apt(HSTS(d), HSTS(page), "HSTS")
         /\ Apt(XSSProtection(d), XSSProtection(page), "XSSProtection")
<1>1. Apt(HSTS(d), HSTS(page), "HSTS")
  <2>1. CASE adapter = "audit"
    <3>1. HSTS(d).passed <=> HSTS(page).passed
      BY <2>1 DEF Sees, Sound, ArrivesAtAudit, Arrives, Pass, Fail, PassUnless, Raised, HSTS
    <3> QED BY <3>1 DEF Apt
  <2>2. CASE adapter # "audit"
    <3>1. ~HSTS(d).passed
      BY <2>2 DEF Sees, ArrivesAtStream, Arrives, Pass, Fail, PassUnless, Raised, HSTS
    <3> QED BY <2>2, <3>1 DEF Apt, Unheard, Blind
  <2> QED BY <2>1, <2>2
<1>2. Apt(XSSProtection(d), XSSProtection(page), "XSSProtection")
  <2>1. CASE adapter = "audit"
    <3>1. XSSProtection(d).passed <=> XSSProtection(page).passed
      BY <2>1 DEF Sees, Sound, ArrivesAtAudit, Arrives, Pass, Fail, PassUnless, Raised,
         XSSProtection
    <3> QED BY <3>1 DEF Apt
  <2>2. CASE adapter # "audit"
    <3>1. ~XSSProtection(d).passed
      BY <2>2 DEF Sees, ArrivesAtStream, Arrives, Pass, Fail, PassUnless, Raised, XSSProtection
    <3> QED BY <2>2, <3>1 DEF Apt, Unheard, Blind
  <2> QED BY <2>1, <2>2
<1> QED BY <1>1, <1>2

LEMMA AccessibilityApt ==
  ASSUME Sound(page), NEW d, Sees(d, page)
  PROVE  /\ Apt(FormLabels(d), FormLabels(page), "FormLabels")
<1>1. Apt(FormLabels(d), FormLabels(page), "FormLabels")
  <2>1. FormLabels(page).passed => FormLabels(d).passed
    BY DEF Sees, Sound, Arrives, Pass, Fail, PassUnless, Raised, FormLabels
  <2> QED BY <2>1 DEF Apt, Blind
<1> QED BY <1>1

LEMMA PerformanceApt ==
  ASSUME Sound(page), NEW d, Sees(d, page)
  PROVE  /\ Apt(ResponseTime(d), ResponseTime(page), "ResponseTime")
         /\ Apt(HTMLSize(d), HTMLSize(page), "HTMLSize")
         /\ Apt(Minification(d), Minification(page), "Minification")
         /\ Apt(ResourceCount(d), ResourceCount(page), "ResourceCount")
         /\ Apt(CacheHeaders(d), CacheHeaders(page), "CacheHeaders")
         /\ Apt(Compression(d), Compression(page), "Compression")
         /\ Apt(PageSize(d), PageSize(page), "PageSize")
         /\ Apt(JavaScriptErrors(d), JavaScriptErrors(page), "JavaScriptErrors")
         /\ Apt(CoreWebVitals(d), CoreWebVitals(page), "CoreWebVitals")
<1>1. Apt(ResponseTime(d), ResponseTime(page), "ResponseTime")
  <2>1. ResponseTime(d).passed <=> ResponseTime(page).passed
    BY DEF Sees, Sound, Arrives, Pass, Fail, PassUnless, Raised, ResponseTime
  <2> QED BY <2>1 DEF Apt
<1>2. Apt(HTMLSize(d), HTMLSize(page), "HTMLSize")
  <2>1. HTMLSize(page).passed => HTMLSize(d).passed
    BY DEF Sees, Sound, Arrives, Pass, Fail, PassUnless, Raised, HTMLSize
  <2> QED BY <2>1 DEF Apt, Blind
<1>3. Apt(Minification(d), Minification(page), "Minification")
  <2>1. Minification(page).passed => Minification(d).passed
    BY DEF Sees, Sound, Arrives, Pass, Fail, PassUnless, Raised, Minification
  <2> QED BY <2>1 DEF Apt, Blind
<1>4. Apt(ResourceCount(d), ResourceCount(page), "ResourceCount")
  <2>1. ResourceCount(page).passed => ResourceCount(d).passed
    BY DEF Sees, Sound, Arrives, Pass, Fail, PassUnless, Raised, ResourceCount
  <2> QED BY <2>1 DEF Apt, Blind
<1>5. Apt(CacheHeaders(d), CacheHeaders(page), "CacheHeaders")
  <2>1. CASE adapter = "audit"
    <3>1. CacheHeaders(d).passed <=> CacheHeaders(page).passed
      BY <2>1 DEF Sees, Sound, ArrivesAtAudit, Arrives, Pass, Fail, PassUnless, Raised, CacheHeaders
    <3> QED BY <3>1 DEF Apt
  <2>2. CASE adapter # "audit"
    <3>1. ~CacheHeaders(d).passed
      BY <2>2 DEF Sees, ArrivesAtStream, Arrives, Pass, Fail, PassUnless, Raised, CacheHeaders
    <3> QED BY <2>2, <3>1 DEF Apt, Unheard, Blind
  <2> QED BY <2>1, <2>2
<1>6. Apt(Compression(d), Compression(page), "Compression")
  <2>1. CASE adapter = "audit"
    <3>1. Compression(d).passed <=> Compression(page).passed
      BY <2>1 DEF Sees, Sound, ArrivesAtAudit, Arrives, Pass, Fail, PassUnless, Raised, Compression
    <3> QED BY <3>1 DEF Apt
  <2>2. CASE adapter # "audit"
    <3>1. ~Compression(d).passed
      BY <2>2 DEF Sees, ArrivesAtStream, Arrives, Pass, Fail, PassUnless, Raised, Compression
    <3> QED BY <2>2, <3>1 DEF Apt, Unheard, Blind
  <2> QED BY <2>1, <2>2
<1>7. Apt(PageSize(d), PageSize(page), "PageSize")
  <2>1. PageSize(page).passed => PageSize(d).passed
    BY DEF Sees, Sound, Arrives, Pass, Fail, PassUnless, Raised, PageSize
  <2> QED BY <2>1 DEF Apt, Blind
<1>8. Apt(JavaScriptErrors(d), JavaScriptErrors(page), "JavaScriptErrors")
  <2>1. JavaScriptErrors(page).passed => JavaScriptErrors(d).passed
    BY DEF Sees, Sound, Arrives, Pass, Fail, PassUnless, Raised, JavaScriptErrors
  <2> QED BY <2>1 DEF Apt, Blind
<1>9. Apt(CoreWebVitals(d), CoreWebVitals(page), "CoreWebVitals")
  <2>1. CoreWebVitals(page).passed => CoreWebVitals(d).passed
    BY DEF Sees, Sound, Arrives, Pass, Fail, PassUnless, Raised, CoreWebVitals
  <2> QED BY <2>1 DEF Apt, Blind
<1> QED BY <1>1, <1>2, <1>3, <1>4, <1>5, <1>6, <1>7, <1>8, <1>9

\* So much for one rule; for all of them:
LEMMA SoundVerdicts ==
  ASSUME Sound(page), NEW d, Sees(d, page), NEW r \in Rule
  PROVE  Apt(Verdicts(d)[r], Verdicts(page)[r], r)
<1> SUFFICES ASSUME NEW c \in Category, r \in Registered[c]
             PROVE  Apt(Verdicts(d)[r], Verdicts(page)[r], r)
  BY DEF Rule
<1>1. CASE c = "on_page"
  <2>1. r \in {"TitleTag", "MetaDescription", "H1Tag", "HeadingHierarchy", "MetaKeywords",
               "CanonicalUrl", "RobotsMeta", "OpenGraph", "TwitterCards"}
    BY <1>1 DEF Registered
  <2> QED BY <2>1, OnPageApt DEF Verdicts
<1>2. CASE c = "technical"
  <2>1. r \in {"SSL_Certificate", "MobileViewport", "LanguageDeclaration", "Charset", "Doctype",
               "SecurityHeaders", "RobotsTxt", "Sitemap", "StructuredData", "Url", "Mobile",
               "HttpStatus", "Hreflang"}
    BY <1>2 DEF Registered
  <2> QED BY <2>1, TechnicalApt DEF Verdicts
<1>3. CASE c = "content"
  <2>1. r \in {"WordCount", "ReadingTime", "ParagraphCount", "TextHtmlRatio",
               "KeywordInContent", "DuplicateContent", "ContentFreshness", "DuplicateTitles",
               "DuplicateDescriptions", "DuplicateH1s"}
    BY <1>3 DEF Registered
  <2> QED BY <2>1, ContentApt DEF Verdicts
<1>4. CASE c = "links"
  <2>1. r \in {"InternalLinks", "ExternalLinks", "BrokenLinks", "AnchorText", "NofollowLinks"}
    BY <1>4 DEF Registered
  <2> QED BY <2>1, LinksApt DEF Verdicts
<1>5. CASE c = "images"
  <2>1. r \in {"ImageAltText", "ImageSize", "LazyLoading", "ImageDimensions",
               "ResponsiveImages", "ImageFormats"}
    BY <1>5 DEF Registered
  <2> QED BY <2>1, ImagesApt DEF Verdicts
<1>6. CASE c = "schema"
  <2>1. r \in {"SchemaMarkup", "OrganizationSchema", "BreadcrumbSchema", "ArticleSchema",
               "ProductSchema", "JsonLdFormat"}
    BY <1>6 DEF Registered
  <2> QED BY <2>1, SchemaApt DEF Verdicts
<1>7. CASE c = "social"
  <2>1. r \in {"SocialMediaLinks", "FacebookDomain", "SocialImage"}
    BY <1>7 DEF Registered
  <2> QED BY <2>1, SocialApt DEF Verdicts
<1>8. CASE c = "security"
  <2>1. r \in {"HSTS", "XSSProtection"}
    BY <1>8 DEF Registered
  <2> QED BY <2>1, SecurityApt DEF Verdicts
<1>9. CASE c = "accessibility"
  <2>1. r \in {"FormLabels"}
    BY <1>9 DEF Registered
  <2> QED BY <2>1, AccessibilityApt DEF Verdicts
<1>10. CASE c = "performance"
  <2>1. r \in {"ResponseTime", "HTMLSize", "Minification", "ResourceCount", "CacheHeaders",
               "Compression", "PageSize", "JavaScriptErrors", "CoreWebVitals"}
    BY <1>10 DEF Registered
  <2> QED BY <2>1, PerformanceApt DEF Verdicts
<1> QED BY <1>1, <1>2, <1>3, <1>4, <1>5, <1>6, <1>7, <1>8, <1>9, <1>10 DEF Category, Registered

-----------------------------------------------------------------------------
(* Pages that are repaired stay described *)

Sanity == {"normalized_url", "broken_link_data_available", "generic", "internal", "external",
           "formats", "schema_markup"}

\* q is p with other values in the fields f and g.
Changes(q, p, f, g) == \E v \in Kind[f], w \in Kind[g] : q = [[p EXCEPT ![f] = v] EXCEPT ![g] = w]

\* Fields that no other one depends on may change as they like.
LEMMA ChangedIsSound ==
  ASSUME NEW p, Sound(p), NEW q, NEW f \in Field \ Sanity, NEW g \in Field \ Sanity, Changes(q, p, f, g)
  PROVE  Sound(q)
<1>1. PICK v \in Kind[f], w \in Kind[g] : q = [[p EXCEPT ![f] = v] EXCEPT ![g] = w]
  BY DEF Changes
<1>2. Known(q)
  BY <1>1, OneField DEF Sound
<1>3. \A s \in Sanity : q[s] = p[s]
  BY <1>1, FieldNames DEF Sound, Known, Sanity
<1> QED BY <1>2, <1>3 DEF Sound, Sanity

\* What these rules recommend changes one of those fields.
SanityAdvice == {"AnchorText", "InternalLinks", "ExternalLinks", "StructuredData", "SchemaMarkup",
                 "OrganizationSchema", "BreadcrumbSchema", "ArticleSchema", "ProductSchema", "JsonLdFormat"}

\* What every other rule recommends changes at most two fields.
LEMMA AdviceChanges ==
  ASSUME NEW p, Known(p), NEW r, NEW q \in Advice(r, p)
  PROVE  \/ r \in SanityAdvice \/ q = p
         \/ \E f, g \in Field \ Sanity : Changes(q, p, f, g)
<1>1. ASSUME r = "MetaDescription" PROVE Changes(q, p, "meta_description", "meta_description")
  <2>1. /\ DOMAIN p = Field /\ "meta_description" \in Field /\ p["meta_description"] \in Kind["meta_description"]
    BY FieldNames DEF Known
  <2> QED BY <1>1, <2>1 DEF Advice, Sized, Changes, Kind
<1>2. ASSUME r = "H1Tag" PROVE Changes(q, p, "h1", "h1")
  <2>1. /\ DOMAIN p = Field /\ "h1" \in Field /\ p["h1"] \in Kind["h1"]
    BY FieldNames DEF Known
  <2> QED BY <1>2, <2>1 DEF Advice, Sized, Changes, Kind
<1>3. ASSUME r = "RobotsMeta" PROVE Changes(q, p, "robots_meta", "robots_meta")
  <2>1. /\ DOMAIN p = Field /\ "robots_meta" \in Field /\ p["robots_meta"] \in Kind["robots_meta"]
    BY FieldNames DEF Known
  <2> QED BY <1>3, <2>1 DEF Advice, Sized, Changes, Kind
<1>4. ASSUME r = "OpenGraph" PROVE Changes(q, p, "open_graph", "open_graph")
  <2>1. /\ DOMAIN p = Field /\ "open_graph" \in Field /\ p["open_graph"] \in Kind["open_graph"]
    BY FieldNames DEF Known
  <2> QED BY <1>4, <2>1 DEF Advice, Sized, Changes, Kind
<1>5. ASSUME r = "FacebookDomain" PROVE Changes(q, p, "open_graph", "open_graph")
  <2>1. /\ DOMAIN p = Field /\ "open_graph" \in Field /\ p["open_graph"] \in Kind["open_graph"]
    BY FieldNames DEF Known
  <2>2. PICK tag \in {"fb:app_id", "fb:admins"} : q = [p EXCEPT !["open_graph"] = p.open_graph \cup {tag}]
    BY <1>5 DEF Advice
  <2>3. p.open_graph \cup {tag} \in Kind["open_graph"]
    <3>1. Kind["open_graph"] = SUBSET (OgTag \cup {"fb:app_id", "fb:admins"})
      BY DEF Kind
    <3> QED BY <2>1, <3>1
  <2> QED BY <2>1, <2>2, <2>3 DEF Changes
<1>6. ASSUME r = "SocialMediaLinks" PROVE Changes(q, p, "social_links", "social_links")
  <2>1. /\ DOMAIN p = Field /\ "social_links" \in Field /\ p["social_links"] \in Kind["social_links"]
    BY FieldNames DEF Known
  <2> QED BY <1>6, <2>1 DEF Advice, Sized, Changes, Kind
<1>7. ASSUME r = "SSL_Certificate" PROVE Changes(q, p, "https", "https")
  <2>1. /\ DOMAIN p = Field /\ "https" \in Field /\ p["https"] \in Kind["https"]
    BY FieldNames DEF Known
  <2> QED BY <1>7, <2>1 DEF Advice, Sized, Changes, Kind
<1>8. ASSUME r = "MobileViewport" PROVE Changes(q, p, "viewport", "viewport")
  <2>1. /\ DOMAIN p = Field /\ "viewport" \in Field /\ p["viewport"] \in Kind["viewport"]
    BY FieldNames DEF Known
  <2> QED BY <1>8, <2>1 DEF Advice, Sized, Changes, Kind
<1>9. ASSUME r = "Mobile" PROVE Changes(q, p, "viewport", "viewport")
  <2>1. /\ DOMAIN p = Field /\ "viewport" \in Field /\ p["viewport"] \in Kind["viewport"]
    BY FieldNames DEF Known
  <2> QED BY <1>9, <2>1 DEF Advice, Sized, Changes, Kind
<1>10. ASSUME r = "LanguageDeclaration" PROVE Changes(q, p, "language", "language")
  <2>1. /\ DOMAIN p = Field /\ "language" \in Field /\ p["language"] \in Kind["language"]
    BY FieldNames DEF Known
  <2> QED BY <1>10, <2>1 DEF Advice, Sized, Changes, Kind
<1>11. ASSUME r = "Charset" PROVE Changes(q, p, "charset", "charset")
  <2>1. /\ DOMAIN p = Field /\ "charset" \in Field /\ p["charset"] \in Kind["charset"]
    BY FieldNames DEF Known
  <2> QED BY <1>11, <2>1 DEF Advice, Sized, Changes, Kind
<1>12. ASSUME r = "Doctype" PROVE Changes(q, p, "doctype", "doctype")
  <2>1. /\ DOMAIN p = Field /\ "doctype" \in Field /\ p["doctype"] \in Kind["doctype"]
    BY FieldNames DEF Known
  <2> QED BY <1>12, <2>1 DEF Advice, Sized, Changes, Kind
<1>13. ASSUME r = "SecurityHeaders" PROVE Changes(q, p, "headers", "headers")
  <2>1. /\ DOMAIN p = Field /\ "headers" \in Field /\ p["headers"] \in Kind["headers"]
    BY FieldNames DEF Known
  <2> QED BY <1>13, <2>1 DEF Advice, Sized, Changes, Kind, Header
<1>14. ASSUME r = "XSSProtection" PROVE Changes(q, p, "headers", "headers")
  <2>1. /\ DOMAIN p = Field /\ "headers" \in Field /\ p["headers"] \in Kind["headers"]
    BY FieldNames DEF Known
  <2> QED BY <1>14, <2>1 DEF Advice, Sized, Changes, Kind, Header
<1>15. ASSUME r = "CacheHeaders" PROVE Changes(q, p, "headers", "headers")
  <2>1. /\ DOMAIN p = Field /\ "headers" \in Field /\ p["headers"] \in Kind["headers"]
    BY FieldNames DEF Known
  <2> QED BY <1>15, <2>1 DEF Advice, Sized, Changes, Kind, Header
<1>16. ASSUME r = "Compression" PROVE Changes(q, p, "headers", "headers")
  <2>1. /\ DOMAIN p = Field /\ "headers" \in Field /\ p["headers"] \in Kind["headers"]
    BY FieldNames DEF Known
  <2> QED BY <1>16, <2>1 DEF Advice, Sized, Changes, Kind, Header
<1>17. ASSUME r = "Sitemap" PROVE Changes(q, p, "sitemap", "sitemap")
  <2>1. /\ DOMAIN p = Field /\ "sitemap" \in Field /\ p["sitemap"] \in Kind["sitemap"]
    BY FieldNames DEF Known
  <2> QED BY <1>17, <2>1 DEF Advice, Sized, Changes, Kind
<1>18. ASSUME r = "Url" PROVE Changes(q, p, "path", "path")
  <2>1. /\ DOMAIN p = Field /\ "path" \in Field /\ p["path"] \in Kind["path"]
    BY FieldNames DEF Known
  <2> QED BY <1>18, <2>1 DEF Advice, Sized, Changes, Kind
<1>19. ASSUME r = "HttpStatus" PROVE Changes(q, p, "status_code", "status_code")
  <2>1. /\ DOMAIN p = Field /\ "status_code" \in Field /\ p["status_code"] \in Kind["status_code"]
    BY FieldNames DEF Known
  <2> QED BY <1>19, <2>1 DEF Advice, Sized, Changes, Kind
<1>20. ASSUME r = "Hreflang" PROVE Changes(q, p, "hreflang", "hreflang")
  <2>1. /\ DOMAIN p = Field /\ "hreflang" \in Field /\ p["hreflang"] \in Kind["hreflang"]
    BY FieldNames DEF Known
  <2> QED BY <1>20, <2>1 DEF Advice, Sized, Changes, Kind
<1>21. ASSUME r = "ParagraphCount" PROVE Changes(q, p, "paragraph_count", "paragraph_count")
  <2>1. /\ DOMAIN p = Field /\ "paragraph_count" \in Field /\ p["paragraph_count"] \in Kind["paragraph_count"]
    BY FieldNames DEF Known
  <2>2. q = [p EXCEPT !["paragraph_count"] = (p.word_count + 149) \div 150]
    BY <1>21, <2>1 DEF Advice
  <2>3. p.word_count \in Nat
    <3>1. p.word_count \in Kind.word_count
      BY FieldNames DEF Known
    <3> QED BY <3>1 DEF Kind
  <2>4. (p.word_count + 149) \div 150 \in Nat
    BY <2>3
  <2> QED BY <2>1, <2>2, <2>4 DEF Changes, Kind
<1>22. ASSUME r = "ContentFreshness" PROVE Changes(q, p, "dates", "dates")
  <2>1. /\ DOMAIN p = Field /\ "dates" \in Field /\ p["dates"] \in Kind["dates"]
    BY FieldNames DEF Known
  <2> QED BY <1>22, <2>1 DEF Advice, Sized, Changes, Kind
<1>23. ASSUME r = "BrokenLinks" PROVE Changes(q, p, "broken", "broken")
  <2>1. /\ DOMAIN p = Field /\ "broken" \in Field /\ p["broken"] \in Kind["broken"]
    BY FieldNames DEF Known
  <2> QED BY <1>23, <2>1 DEF Advice, Sized, Changes, Kind
<1>24. ASSUME r = "ImageAltText" PROVE Changes(q, p, "images", "images")
  <2>1. /\ DOMAIN p = Field /\ "images" \in Field /\ p["images"] \in Kind["images"]
    BY FieldNames DEF Known
  <2> QED BY <1>24, <2>1 DEF Advice, Sized, Changes, Kind
<1>25. ASSUME r = "LazyLoading" PROVE Changes(q, p, "images", "images")
  <2>1. /\ DOMAIN p = Field /\ "images" \in Field /\ p["images"] \in Kind["images"]
    BY FieldNames DEF Known
  <2> QED BY <1>25, <2>1 DEF Advice, Sized, Changes, Kind
<1>26. ASSUME r = "ImageDimensions" PROVE Changes(q, p, "images", "images")
  <2>1. /\ DOMAIN p = Field /\ "images" \in Field /\ p["images"] \in Kind["images"]
    BY FieldNames DEF Known
  <2> QED BY <1>26, <2>1 DEF Advice, Sized, Changes, Kind
<1>27. ASSUME r = "ResponsiveImages" PROVE Changes(q, p, "images", "images")
  <2>1. /\ DOMAIN p = Field /\ "images" \in Field /\ p["images"] \in Kind["images"]
    BY FieldNames DEF Known
  <2> QED BY <1>27, <2>1 DEF Advice, Sized, Changes, Kind
<1>28. ASSUME r = "ImageFormats" PROVE Changes(q, p, "images", "images")
  <2>1. /\ DOMAIN p = Field /\ "images" \in Field /\ p["images"] \in Kind["images"]
    BY FieldNames DEF Known
  <2> QED BY <1>28, <2>1 DEF Advice, Sized, Changes, Kind
<1>29. ASSUME r = "ResponseTime" PROVE Changes(q, p, "response_time", "response_time")
  <2>1. /\ DOMAIN p = Field /\ "response_time" \in Field /\ p["response_time"] \in Kind["response_time"]
    BY FieldNames DEF Known
  <2> QED BY <1>29, <2>1 DEF Advice, Sized, Changes, Kind
<1>30. ASSUME r = "TitleTag" PROVE Changes(q, p, "title", "h1")
  <2>1. /\ DOMAIN p = Field /\ "title" \in Field /\ p["title"] \in Kind["title"]
            /\ "h1" \in Field /\ p["h1"] \in Kind["h1"]
    BY FieldNames DEF Known
  <2>2. PICK echo \in BOOLEAN : q = [[p EXCEPT !["title"] = SoundTitle(p.title.length)]
             EXCEPT !["h1"] = [p.h1 EXCEPT !.echoesTitle = echo]]
    BY <1>30, <2>1 DEF Advice
  <2>3. SoundTitle(p.title.length) \in Kind["title"]
    BY <2>1 DEF Kind, Sized, SoundTitle, AtMost
  <2>4. [p.h1 EXCEPT !.echoesTitle = echo] \in Kind["h1"]
    BY <2>1 DEF Kind, Sized, AtMost
  <2> QED BY <2>2, <2>3, <2>4 DEF Changes
<1>31. ASSUME r = "HeadingHierarchy" PROVE Changes(q, p, "h1", "headings")
  <2>1. /\ DOMAIN p = Field /\ "h1" \in Field /\ p["h1"] \in Kind["h1"]
            /\ "headings" \in Field /\ p["headings"] \in Kind["headings"]
    BY FieldNames DEF Known
  <2>2. PICK echo \in BOOLEAN :
          q = [[p EXCEPT !["h1"] = [count |-> Sized(p.h1.count, 1, 3), long |-> FALSE,
                                    echoesTitle |-> echo]]
             EXCEPT !["headings"] = [h2 |-> Sized(p.headings.h2, 1, 10), h3 |-> Sized(p.headings.h3, 0, 5), deeper |-> 0,
               sequential |-> TRUE, empty |-> FALSE, repeated |-> FALSE, long |-> FALSE]]
    BY <1>31, <2>1 DEF Advice
  <2>3. [count |-> Sized(p.h1.count, 1, 3), long |-> FALSE, echoesTitle |-> echo] \in Kind["h1"]
    BY <2>1 DEF Kind, Sized, SoundTitle, AtMost
  <2>4. [h2 |-> Sized(p.headings.h2, 1, 10), h3 |-> Sized(p.headings.h3, 0, 5), deeper |-> 0,
               sequential |-> TRUE, empty |-> FALSE, repeated |-> FALSE, long |-> FALSE] \in Kind["headings"]
    BY <2>1 DEF Kind, Sized, AtMost
  <2> QED BY <2>2, <2>3, <2>4 DEF Changes
<1>32. ASSUME r = "CanonicalUrl" PROVE Changes(q, p, "canonical_url", "duplicate_group_size")
  <2>1. /\ DOMAIN p = Field /\ "canonical_url" \in Field /\ p["canonical_url"] \in Kind["canonical_url"]
            /\ "duplicate_group_size" \in Field /\ p["duplicate_group_size"] \in Kind["duplicate_group_size"]
    BY FieldNames DEF Known
  <2>2. q = [[p EXCEPT !["canonical_url"] = {"declared"}]
             EXCEPT !["duplicate_group_size"] = AtMost(p.duplicate_group_size, 1)]
    BY <1>32, <2>1 DEF Advice
  <2>3. {"declared"} \in Kind["canonical_url"]
    BY <2>1 DEF Kind, Sized, SoundTitle, AtMost
  <2>4. AtMost(p.duplicate_group_size, 1) \in Kind["duplicate_group_size"]
    BY <2>1 DEF Kind, Sized, AtMost
  <2> QED BY <2>2, <2>3, <2>4 DEF Changes
<1>33. ASSUME r = "DuplicateContent" PROVE Changes(q, p, "canonical_url", "duplicate_group_size")
  <2>1. /\ DOMAIN p = Field /\ "canonical_url" \in Field /\ p["canonical_url"] \in Kind["canonical_url"]
            /\ "duplicate_group_size" \in Field /\ p["duplicate_group_size"] \in Kind["duplicate_group_size"]
    BY FieldNames DEF Known
  <2>2. q = [[p EXCEPT !["canonical_url"] = {"declared"}]
             EXCEPT !["duplicate_group_size"] = AtMost(p.duplicate_group_size, 1)]
    BY <1>33, <2>1 DEF Advice
  <2>3. {"declared"} \in Kind["canonical_url"]
    BY <2>1 DEF Kind, Sized, SoundTitle, AtMost
  <2>4. AtMost(p.duplicate_group_size, 1) \in Kind["duplicate_group_size"]
    BY <2>1 DEF Kind, Sized, AtMost
  <2> QED BY <2>2, <2>3, <2>4 DEF Changes
<1>34. ASSUME r = "SocialImage" PROVE Changes(q, p, "open_graph", "twitter_cards")
  <2>1. /\ DOMAIN p = Field /\ "open_graph" \in Field /\ p["open_graph"] \in Kind["open_graph"]
            /\ "twitter_cards" \in Field /\ p["twitter_cards"] \in Kind["twitter_cards"]
    BY FieldNames DEF Known
  <2>2. q = [[p EXCEPT !["open_graph"] = p.open_graph \cup {"og:image"}]
             EXCEPT !["twitter_cards"] = p.twitter_cards \cup {"twitter:image"}]
    BY <1>34, <2>1 DEF Advice
  <2>3. p.open_graph \cup {"og:image"} \in Kind["open_graph"]
    <3>1. Kind["open_graph"] = SUBSET (OgTag \cup {"fb:app_id", "fb:admins"})
      BY DEF Kind
    <3> QED BY <2>1, <3>1 DEF OgTag
  <2>4. p.twitter_cards \cup {"twitter:image"} \in Kind["twitter_cards"]
    BY <2>1 DEF Kind, Sized, AtMost
  <2> QED BY <2>2, <2>3, <2>4 DEF Changes
<1>35. ASSUME r = "HSTS" PROVE Changes(q, p, "headers", "hstsYear")
  <2>1. /\ DOMAIN p = Field /\ "headers" \in Field /\ p["headers"] \in Kind["headers"]
            /\ "hstsYear" \in Field /\ p["hstsYear"] \in Kind["hstsYear"]
    BY FieldNames DEF Known
  <2>2. PICK year \in BOOLEAN : q = [[p EXCEPT !["headers"] = p.headers \cup {"strict-transport-security"}]
             EXCEPT !["hstsYear"] = year]
    <3>1. CASE "strict-transport-security" \in p.headers
      <4>1. q = [p EXCEPT !["hstsYear"] = TRUE]
        BY <1>35, <2>1, <3>1 DEF Advice
      <4>2. p.headers \cup {"strict-transport-security"} = p.headers
        BY <3>1
      <4> QED BY <4>1, <4>2, <2>1
    <3>2. CASE "strict-transport-security" \notin p.headers
      BY <1>35, <2>1, <3>2 DEF Advice
    <3> QED BY <3>1, <3>2
  <2>3. p.headers \cup {"strict-transport-security"} \in Kind["headers"]
    BY <2>1 DEF Kind, Header
  <2> QED BY <2>2, <2>3 DEF Changes, Kind
<1>36. ASSUME r = "WordCount" PROVE Changes(q, p, "word_count", "title")
  <2>1. /\ DOMAIN p = Field /\ "word_count" \in Field /\ p["word_count"] \in Kind["word_count"]
            /\ "title" \in Field /\ p["title"] \in Kind["title"]
    BY FieldNames DEF Known
  <2> DEFINE n == Sized(p.word_count, 150, 1500)
  <2>2. Advice(r, p) = {[p EXCEPT !.word_count = n, !.title.onTopic = topical] : topical \in BOOLEAN}
    BY <1>36 DEF Advice
  <2>3. n \in Kind["word_count"]
    BY <2>1 DEF Kind, Sized
  <2> HIDE DEF n
  <2>4. PICK topical \in BOOLEAN : q = [p EXCEPT !.word_count = n, !.title.onTopic = topical]
    BY <2>2
  <2>5. q = [[p EXCEPT !["word_count"] = n] EXCEPT !["title"] = [p.title EXCEPT !.onTopic = topical]]
    BY <2>1, <2>4
  <2>6. [p.title EXCEPT !.onTopic = topical] \in Kind["title"]
    BY <2>1 DEF Kind
  <2> QED BY <2>3, <2>5, <2>6 DEF Changes
<1>37. ASSUME r \notin SanityAdvice \cup {"MetaDescription", "H1Tag", "RobotsMeta", "OpenGraph",
                                          "FacebookDomain",
                  "SocialMediaLinks", "SSL_Certificate", "MobileViewport", "Mobile", "LanguageDeclaration",
                  "Charset", "Doctype", "SecurityHeaders", "XSSProtection", "CacheHeaders",
                  "Compression", "Sitemap", "Url", "HttpStatus", "Hreflang",
                  "ParagraphCount", "ContentFreshness", "BrokenLinks", "ImageAltText", "LazyLoading",
                  "ImageDimensions", "ResponsiveImages", "ImageFormats", "ResponseTime", "TitleTag",
                  "HeadingHierarchy", "CanonicalUrl", "DuplicateContent", "SocialImage", "HSTS",
                  "WordCount"}
       PROVE  q = p
  BY <1>37 DEF Advice, SanityAdvice
<1>38. {"broken", "canonical_url", "charset", "dates", "doctype", "duplicate_group_size", "h1",
        "headers", "headings", "hreflang", "hstsYear", "https", "images", "language",
        "meta_description", "open_graph", "paragraph_count", "path", "response_time",
        "robots_meta", "sitemap", "social_links", "status_code", "title", "twitter_cards",
        "viewport", "word_count"} \subseteq Field \ Sanity
  BY FieldNames DEF Sanity
<1> QED BY <1>1, <1>2, <1>3, <1>4, <1>5, <1>6, <1>7, <1>8, <1>9, <1>10, <1>11, <1>12, <1>13,
           <1>14, <1>15, <1>16, <1>17, <1>18, <1>19, <1>20, <1>21, <1>22, <1>23, <1>24, <1>25,
           <1>26, <1>27, <1>28, <1>29, <1>30, <1>31, <1>32, <1>33, <1>34, <1>35, <1>36, <1>37, <1>38

\* Links that are added are not generic ones ...
LEMMA MoreLinks ==
  ASSUME NEW p, Sound(p), NEW f \in {"internal", "external"}, NEW g \in {f, "contextual"}, NEW q,
         NEW v \in Nat, NEW w \in Nat, v >= p[f], g = f => w = v,
         q = [[p EXCEPT ![f] = v] EXCEPT ![g] = w]
  PROVE  Sound(q)
<1>1. f \in Field /\ g \in Field /\ Kind[f] = Nat /\ Kind[g] = Nat
  <2>1. Kind["internal"] = Nat /\ Kind["external"] = Nat /\ Kind["contextual"] = Nat
    BY DEF Kind
  <2> QED BY <2>1, FieldNames
<1>2. Known(q)
  BY <1>1, OneField DEF Sound
<1>3. \A s \in Sanity \ {f} : q[s] = p[s]
  BY FieldNames DEF Sound, Known, Sanity
<1>4. q[f] >= p[f]
  BY <1>1 DEF Sound, Known
<1>5. p.internal \in Nat /\ p.external \in Nat /\ p.generic \in Nat
  <2>1. p.internal \in Kind.internal /\ p.external \in Kind.external /\ p.generic \in Kind.generic
    BY FieldNames DEF Sound, Known
  <2> QED BY <2>1 DEF Kind
<1>6. q.internal \in Nat /\ q.external \in Nat
  <2>1. q.internal \in Kind.internal /\ q.external \in Kind.external
    BY <1>2, FieldNames DEF Known
  <2> QED BY <2>1 DEF Kind
<1>7. q.internal >= p.internal /\ q.external >= p.external
  <2>1. ASSUME NEW s \in {"internal", "external"} PROVE q[s] >= p[s]
    <3>1. p[s] \in Nat
      BY <1>5
    <3>2. CASE s = f
      BY <1>4, <3>2
    <3>3. CASE s # f
      <4>1. q[s] = p[s]
        BY <1>3, <3>3 DEF Sanity
      <4> QED BY <3>1, <4>1
    <3> QED BY <3>2, <3>3
  <2> QED BY <2>1
<1>8. /\ q.normalized_url = p.normalized_url /\ q.generic = p.generic /\ q.formats = p.formats
      /\ q.broken_link_data_available = p.broken_link_data_available
      /\ q.schema_markup = p.schema_markup
  BY <1>3 DEF Sanity
<1>9. q.generic <= q.internal + q.external
  BY <1>5, <1>6, <1>7, <1>8 DEF Sound
<1> QED BY <1>2, <1>8, <1>9 DEF Sound

\* ... and blocks that are added or rewritten have the format JSON-LD.
LEMMA NewBlocks ==
  ASSUME NEW p, Sound(p), NEW blocks \in Seq(Block), NEW q, q = [p EXCEPT !.schema_markup = blocks],
         (\E i \in DOMAIN p.schema_markup : p.schema_markup[i].format = "json-ld")
           => \E i \in DOMAIN blocks : blocks[i].format = "json-ld"
  PROVE  Sound(q)
<1>1. "schema_markup" \in Field /\ Kind["schema_markup"] = Seq(Block)
  BY FieldNames DEF Kind
<1>2. Known(q)
  BY <1>1, OneField DEF Sound
<1>3. \A s \in Sanity \ {"schema_markup"} : q[s] = p[s]
  BY FieldNames DEF Sound, Known, Sanity
<1>4. q.schema_markup = blocks
  BY <1>1 DEF Sound, Known
<1> QED BY <1>2, <1>3, <1>4 DEF Sound, Sanity

LEMMA AdviceIsSound ==
  ASSUME NEW p, Sound(p), NEW r, NEW q \in Advice(r, p)
  PROVE  Sound(q)
<1>1. CASE r \notin SanityAdvice
  BY <1>1, AdviceChanges, ChangedIsSound DEF Sound
<1> DEFINE blocks == p.schema_markup
<1>2. blocks \in Seq(Block) /\ DOMAIN p = Field /\ p.generic \in Nat
      /\ p.internal \in Nat /\ p.external \in Nat /\ p.contextual \in Nat
  <2>1. \A f \in {"schema_markup", "internal", "external", "contextual", "generic"} : p[f] \in Kind[f]
    BY FieldNames DEF Sound, Known
  <2> QED BY <2>1 DEF Kind, Sound, Known
<1>3. CASE r = "AnchorText"
  <2>1. q = [p EXCEPT !["generic"] = 0]
    BY <1>3 DEF Advice
  <2>2. Known(q)
    BY <2>1, OneField, FieldNames DEF Sound, Kind
  <2>3. q.generic = 0 /\ \A s \in Sanity \ {"generic"} : q[s] = p[s]
    BY <1>2, <2>1, FieldNames DEF Sanity
  <2> QED BY <1>2, <2>2, <2>3 DEF Sound, Sanity
<1>4. CASE r = "InternalLinks"
  <2>1. PICK n \in {4, 5} : q = [p EXCEPT !.internal = @ + n, !.contextual = @ + n]
    BY <1>4 DEF Advice
  <2>2. q = [[p EXCEPT !["internal"] = p.internal + n] EXCEPT !["contextual"] = p.contextual + n]
    BY <1>2, <2>1, FieldNames
  <2>3. /\ p.internal + n \in Nat /\ p.contextual + n \in Nat
        /\ p.internal + n >= p["internal"] /\ "internal" # "contextual"
    BY <1>2
  <2> QED BY <2>2, <2>3, MoreLinks
<1>5. CASE r = "ExternalLinks"
  <2> DEFINE n == IF p.external < MaxExternal THEN p.external + 1 ELSE p.external
  <2>1. q = [p EXCEPT !["external"] = n]
    BY <1>5 DEF Advice
  <2>2. n \in Nat /\ n >= p.external
    BY <1>2
  <2> HIDE DEF n
  <2>3. q = [[p EXCEPT !["external"] = n] EXCEPT !["external"] = n]
    BY <1>2, <2>1, FieldNames
  <2> QED BY <2>2, <2>3, MoreLinks
<1>6. CASE r \in {"StructuredData", "SchemaMarkup", "OrganizationSchema", "BreadcrumbSchema",
                   "ArticleSchema", "ProductSchema"}
  <2>1. PICK type \in {"Organization", "other", "BreadcrumbList", "Article", "Product"} :
          q = [p EXCEPT !.schema_markup = Added(p, type)]
    BY <1>6 DEF Advice
  <2>2. Added(p, type) = Append(blocks, [type |-> type, format |-> "json-ld"])
    BY DEF Added
  <2>3. [type |-> type, format |-> "json-ld"] \in Block
    BY DEF Block, SchemaType, Format
  <2>4. Added(p, type) \in Seq(Block)
    BY <1>2, <2>2, <2>3
  <2>5. \E i \in DOMAIN Added(p, type) : Added(p, type)[i].format = "json-ld"
    BY <1>2, <2>2, <2>3
  <2> QED BY <2>1, <2>4, <2>5, NewBlocks
<1>7. CASE r = "JsonLdFormat"
  <2> DEFINE new == [i \in DOMAIN blocks |-> [blocks[i] EXCEPT !.format = "json-ld"]]
  <2>1. q = [p EXCEPT !.schema_markup = new]
    BY <1>7 DEF Advice
  <2>2. \A i \in DOMAIN blocks : new[i] \in Block /\ new[i].format = "json-ld"
    <3> TAKE i \in DOMAIN blocks
    <3>1. blocks[i] \in Block
      BY <1>2
    <3> QED BY <3>1 DEF Block, Format
  <2>3. new \in Seq(Block)
    <3>1. DOMAIN blocks = 1 .. Len(blocks) /\ Len(blocks) \in Nat
      BY <1>2
    <3>2. new \in [1 .. Len(blocks) -> Block]
      BY <2>2, <3>1
    <3> HIDE DEF new, blocks
    <3> QED BY <3>1, <3>2, SeqDef
  <2>4. DOMAIN new = DOMAIN blocks
    OBVIOUS
  <2> HIDE DEF new
  <2> QED BY <2>1, <2>2, <2>3, <2>4, NewBlocks
<1> QED BY <1>1, <1>3, <1>4, <1>5, <1>6, <1>7 DEF SanityAdvice

-----------------------------------------------------------------------------
(* The page and the last audit of it *)

PageInv ==
  /\ Sound(page) /\ adapter \in {"audit", "streaming"}
  /\ verdicts = Verdicts(Seen(page)) /\ score = PageScore(verdicts)

LEMMA PageStarts == PAInit => PageInv
<1> SUFFICES ASSUME PAInit PROVE PageInv
  OBVIOUS
<1>1. Sane(page)
  BY AdviceAssumption DEF PAInit
<1>2. Sound(page)
  BY <1>1, DataKnown DEF Sane, Sound
<1> QED BY <1>2 DEF PAInit, PageInv

LEMMA PageStep == PageInv /\ [PANext]_pageVars => PageInv'
<1> SUFFICES ASSUME PageInv, [PANext]_pageVars PROVE PageInv'
  OBVIOUS
<1>1. CASE PANext
  <2>1. PICK r \in Rule : Follow(r)
    BY <1>1 DEF PANext
  <2>2. page' \in Advice(r, page)
    BY <2>1 DEF Follow, Repair
  <2>3. Sound(page')
    BY <2>2, AdviceIsSound DEF PageInv
  <2>4. adapter' = adapter
    BY <2>1 DEF Follow
  <2>5. verdicts' = Verdicts(Seen(page')) /\ score' = PageScore(verdicts')
    BY <2>1 DEF Follow, Audit
  <2>6. Seen(page)' = Seen(page')
    BY <2>4 DEF Seen
  <2>7. Sound(page)'
    BY <2>3 DEF Sound, Known
  <2> QED BY <2>4, <2>5, <2>6, <2>7 DEF PageInv
<1>2. CASE UNCHANGED pageVars
  BY <1>2 DEF pageVars, PageInv, Sound, Known, Seen
<1> QED BY <1>1, <1>2

\* The last verdicts and the last score are those of the page as it is.
LEMMA PageInvariant == PASpec => []PageInv
BY PageStarts, PageStep, PTL DEF PASpec

\* Whatever page is audited, and whatever its author has followed: a verdict that the page
\* does not deserve is one of a rule that does not get what it reads.
THEOREM VerdictsAreDeserved == PASpec => []VerdictsAreTrue
<1>1. PageInv => VerdictsAreTrue
  <2> SUFFICES ASSUME PageInv, NEW r \in Rule
               PROVE  Apt(verdicts[r], Verdicts(page)[r], r)
    BY DEF VerdictsAreTrue, Apt
  <2>1. Sees(Seen(page), page)
    BY SeenArrives DEF PageInv, Sound
  <2> QED BY <2>1, SoundVerdicts DEF PageInv
<1> QED BY <1>1, PageInvariant, PTL

-----------------------------------------------------------------------------
(* What a repair costs.  Scores are sums over sets, as the folds of the    *)
(* community modules take them: about such sums this is what               *)
(* AuditReportProofs says, for the rules as they are.                      *)

\* The element that the folds of the community modules take from a set first.
First(s) == CHOOSE x \in s : TRUE

\* g has the sum of f over each subset of S, as MapThenSumSet takes it.
Sums(g, f, S) ==
  g = [s \in SUBSET S |-> IF s = {} THEN 0 ELSE f[First(s)] + g[s \ {First(s)}]]

\* A fold takes an element of the set.
LEMMA FirstIn == ASSUME NEW s, s # {} PROVE First(s) \in s
  BY DEF First

\* Induction over the natural numbers, on a set of numbers.
LEMMA NatSteps ==
  ASSUME NEW G, 0 \in G, \A n \in Nat : n \in G => n + 1 \in G
  PROVE  Nat \subseteq G
<1> SUFFICES ASSUME Nat \ G # {} PROVE FALSE
  OBVIOUS
<1>1. PICK n \in Nat \ G : \A k \in Nat \ G : ~(<<k, n>> \in OpToRel(<, Nat))
  BY WFMin, NatLessThanWellFounded, Nat \ G \subseteq Nat, Zenon
<1>2. n # 0 /\ n - 1 \in Nat \ G
  BY n - 1 + 1 = n
<1>3. <<n - 1, n>> \in Nat \X Nat /\ n - 1 < n
  BY <1>2
<1>4. <<n - 1, n>> \in OpToRel(<, Nat)
  BY <1>3, Zenon DEF OpToRel
<1> QED BY <1>1, <1>2, <1>4, Zenon

\* Induction over the subsets of a finite set, in the order in which a fold takes them apart.
LEMMA SubsetSteps ==
  ASSUME NEW S, IsFiniteSet(S), NEW G, {} \in G,
         \A T \in SUBSET S : T # {} /\ T \ {First(T)} \in G => T \in G
  PROVE  SUBSET S \subseteq G
<1> DEFINE N == {n \in Nat : \A T \in SUBSET S : Cardinality(T) = n => T \in G}
<1>1. \A T \in SUBSET S : IsFiniteSet(T) /\ Cardinality(T) \in Nat
  BY FS_Subset, FS_CardinalityType
<1>2. 0 \in N
  BY <1>1, FS_EmptySet
<1>3. \A n \in Nat : n \in N => n + 1 \in N
  <2> SUFFICES ASSUME NEW n \in N, NEW T \in SUBSET S, Cardinality(T) = n + 1
               PROVE  T \in G
    OBVIOUS
  <2>1. T # {}
    BY FS_EmptySet
  <2>2. First(T) \in T
    BY <2>1, FirstIn
  <2>3. Cardinality(T \ {First(T)}) = Cardinality(T) - 1
    BY <1>1, <2>2, FS_RemoveElement
  <2>4. Cardinality(T \ {First(T)}) = n
    BY <2>3
  <2> QED BY <2>1, <2>4
<1>4. Nat \subseteq N
  <2> HIDE DEF N
  <2> QED BY <1>2, <1>3, NatSteps
<1> QED BY <1>1, <1>4

\* There are such sums.
LEMMA SumsExist ==
  ASSUME NEW S, IsFiniteSet(S), NEW f \in [S -> Int]
  PROVE  \E g : Sums(g, f, S)
<1> DEFINE Step(g, s) == IF s = {} THEN 0 ELSE f[First(s)] + g[s \ {First(s)}]
           Small(n) == {s \in SUBSET S : Cardinality(s) <= n}
           N == {n \in Nat : \E g \in [SUBSET S -> Int] : \A s \in Small(n) : g[s] = Step(g, s)}
<1>1. \A T \in SUBSET S : IsFiniteSet(T) /\ Cardinality(T) \in Nat
  BY FS_Subset, FS_CardinalityType
<1>2. 0 \in N
  <2>1. \A s \in Small(0) : s = {}
    BY <1>1, FS_EmptySet
  <2>2. [s \in SUBSET S |-> 0] \in [SUBSET S -> Int]
    OBVIOUS
  <2> QED BY <2>1, <2>2
<1>3. \A n \in Nat : n \in N => n + 1 \in N
  <2> SUFFICES ASSUME NEW n \in Nat, n \in N PROVE n + 1 \in N
    OBVIOUS
  <2>0. PICK g \in [SUBSET S -> Int] : \A s \in Small(n) : g[s] = Step(g, s)
    OBVIOUS
  <2> DEFINE h == [s \in SUBSET S |-> IF s \in Small(n) THEN g[s] ELSE Step(g, s)]
  <2>1. \A s \in SUBSET S : s # {} => First(s) \in S /\ s \ {First(s)} \in SUBSET S
    BY FirstIn
  <2>2. h \in [SUBSET S -> Int]
    BY <2>1
  <2>3. \A s \in Small(n + 1) : s # {} => s \ {First(s)} \in Small(n)
    BY <1>1, FirstIn, FS_RemoveElement
  <2>4. \A s \in Small(n + 1) : h[s] = Step(g, s)
    BY <2>0
  <2>5. \A s \in Small(n + 1) : Step(h, s) = Step(g, s)
    BY <2>3
  <2>6. \A s \in Small(n + 1) : h[s] = Step(h, s)
    <3> HIDE DEF h, Step, Small
    <3> QED BY <2>4, <2>5
  <2>7. \E k \in [SUBSET S -> Int] : \A s \in Small(n + 1) : k[s] = Step(k, s)
    <3> HIDE DEF h, Small
    <3> QED BY <2>2, <2>6
  <2>8. n + 1 \in Nat
    OBVIOUS
  <2> QED
    <3> HIDE DEF Small, Step
    <3> QED BY <2>7, <2>8, Zenon
<1>4. Nat \subseteq N
  <2> HIDE DEF N
  <2> QED BY <1>2, <1>3, NatSteps
<1>5. PICK g \in [SUBSET S -> Int] : \A s \in Small(Cardinality(S)) : g[s] = Step(g, s)
  BY <1>1, <1>4
<1>6. SUBSET S \subseteq Small(Cardinality(S))
  BY <1>1, FS_Subset
<1>7. g = [s \in SUBSET S |-> Step(g, s)]
  BY <1>5, <1>6
<1> QED BY <1>7 DEF Sums

\* A sum of positive numbers over a set with elements is positive.
LEMMA SumsPositive ==
  ASSUME NEW S, IsFiniteSet(S), S # {}, NEW f \in [S -> Nat \ {0}], NEW g, Sums(g, f, S)
  PROVE  g[S] \in Nat \ {0}
<1> DEFINE G == {T \in SUBSET S : g[T] \in Nat /\ (T # {} => g[T] # 0)}
<1>1. {} \in G
  BY DEF Sums
<1>2. ASSUME NEW T \in SUBSET S, T # {}, T \ {First(T)} \in G PROVE T \in G
  <2>1. First(T) \in S
    BY <1>2, FirstIn
  <2>2. g[T] = f[First(T)] + g[T \ {First(T)}]
    BY <1>2 DEF Sums
  <2> QED BY <1>2, <2>1, <2>2
<1>3. SUBSET S \subseteq G
  <2> HIDE DEF G
  <2> QED BY <1>1, <1>2, SubsetSteps
<1> QED BY <1>3

\* What a sum loses by some summands, one other may make up for.
LEMMA SumsTrade ==
  ASSUME NEW S, IsFiniteSet(S), NEW f \in [S -> Int], NEW e \in [S -> Int],
         NEW a, NEW gain \in Nat, NEW L, IsFiniteSet(L), a \notin L, NEW loss \in Nat,
         a \in S => e[a] >= f[a] + gain,
         \A x \in S \cap L : e[x] >= f[x] - loss,
         \A x \in S \ (L \cup {a}) : e[x] >= f[x],
         NEW g, Sums(g, f, S), NEW h, Sums(h, e, S)
  PROVE  /\ g[S] \in Int /\ h[S] \in Int /\ Cardinality(S \cap L) \in Nat
         /\ h[S] >= g[S] + (IF a \in S THEN gain ELSE 0) - loss * Cardinality(S \cap L)
<1> DEFINE n(T) == Cardinality(T \cap L)
           Gain(T) == (IF a \in T THEN gain ELSE 0) - loss * n(T)
           G == {T \in SUBSET S : g[T] \in Int /\ h[T] \in Int /\ h[T] >= g[T] + Gain(T)}
<1>1. \A T \in SUBSET S : IsFiniteSet(T \cap L) /\ n(T) \in Nat
  BY FS_Subset, FS_CardinalityType, \A T : T \cap L \subseteq L
<1>2. {} \in G
  <2>1. n({}) = 0
    BY FS_EmptySet, {} \cap L = {}
  <2>2. g[{}] = 0 /\ h[{}] = 0
    BY DEF Sums
  <2> QED BY <2>1, <2>2
<1>3. ASSUME NEW T \in SUBSET S, T # {}, T \ {First(T)} \in G PROVE T \in G
  <2> DEFINE x == First(T)
             R == T \ {x}
  <2>1. x \in T /\ x \in S /\ R \in SUBSET S
    BY <1>3, FirstIn
  <2>2. g[T] = f[x] + g[R] /\ h[T] = e[x] + h[R] /\ f[x] \in Int /\ e[x] \in Int
    BY <1>3, <2>1 DEF Sums
  <2>3. g[R] \in Int /\ h[R] \in Int /\ h[R] >= g[R] + Gain(R) /\ n(R) \in Nat /\ n(T) \in Nat
    BY <1>1, <1>3, <2>1
  <2>4. CASE x \in L
    <3>1. R \cap L = (T \cap L) \ {x} /\ x \in T \cap L
      BY <2>1, <2>4
    <3>2. n(R) = n(T) - 1
      <4>1. IsFiniteSet(T \cap L)
        BY <1>1
      <4>2. Cardinality((T \cap L) \ {x}) = Cardinality(T \cap L) - 1
        BY <3>1, <4>1, FS_RemoveElement, Zenon
      <4> QED BY <3>1, <4>2
    <3>3. (a \in R <=> a \in T) /\ e[x] >= f[x] - loss
      BY <2>1, <2>4
    <3> HIDE DEF x, R, n
    <3>4. loss * n(T) = loss * n(R) + loss /\ loss * n(R) \in Int
      BY <2>3, <3>2
    <3>5. Gain(T) = Gain(R) - loss /\ Gain(R) \in Int
      BY <3>3, <3>4
    <3> HIDE DEF Gain
    <3>6. h[T] >= g[T] + Gain(T)
      BY <2>2, <2>3, <3>3, <3>5
    <3> QED BY <2>2, <2>3, <3>6
  <2>5. CASE x \notin L
    <3>1. n(R) = n(T)
      BY <2>5, R \cap L = T \cap L
    <3>2. CASE x = a
      <4>1. a \in T /\ a \notin R /\ e[x] >= f[x] + gain
        BY <2>1, <3>2
      <4> HIDE DEF x, R, n
      <4>2. loss * n(R) \in Int
        BY <2>3
      <4>3. Gain(T) = Gain(R) + gain /\ Gain(R) \in Int
        BY <3>1, <4>1, <4>2
      <4> HIDE DEF Gain
      <4>4. h[T] >= g[T] + Gain(T)
        BY <2>2, <2>3, <4>1, <4>3
      <4> QED BY <2>2, <2>3, <4>4
    <3>3. CASE x # a
      <4>1. (a \in R <=> a \in T) /\ e[x] >= f[x]
        BY <2>1, <2>5, <3>3
      <4> HIDE DEF x, R, n
      <4>2. loss * n(R) \in Int
        BY <2>3
      <4>3. Gain(T) = Gain(R) /\ Gain(R) \in Int
        BY <3>1, <4>1, <4>2
      <4> HIDE DEF Gain
      <4>4. h[T] >= g[T] + Gain(T)
        BY <2>2, <2>3, <4>1, <4>3
      <4> QED BY <2>2, <2>3, <4>4
    <3> QED BY <3>2, <3>3
  <2> QED BY <2>4, <2>5
<1>4. SUBSET S \subseteq G
  <2> HIDE DEF G
  <2> QED BY <1>2, <1>3, SubsetSteps
<1> QED BY <1>1, <1>4

-----------------------------------------------------------------------------
(* Scores *)

\* The sums of the scorer: of impacts, of the categories' scores and of their weights.
Total(v, S) == Sum(LAMBDA r : v[r].impact, S)
Weighted(v, S) == Sum(LAMBDA c : CategoryScore(v, c) * Weight[c], S)
Weights(S) == Sum(LAMBDA c : Weight[c], S)

\* Each of them is such a sum.
LEMMA ImpactSum ==
  ASSUME NEW v, NEW S, IsFiniteSet(S), NEW f \in [S -> Int], f = [r \in S |-> v[r].impact]
  PROVE  \E g : Sums(g, f, S) /\ Total(v, S) = g[S]
<1> DEFINE G(g) == g = [s \in SUBSET S |->
                          IF s = {} THEN 0
                          ELSE v[CHOOSE x \in s : TRUE].impact + g[s \ {CHOOSE x \in s : TRUE}]]
<1>1. \A g : Sums(g, f, S) <=> G(g)
  BY FirstIn DEF Sums, First
<1>2. Total(v, S) = (CHOOSE g : G(g))[S]
  BY DEF Total, Sum, MapThenSumSet, MapThenFoldSet
<1>3. G(CHOOSE g : G(g))
  <2> HIDE DEF G
  <2> QED BY <1>1, SumsExist, Zenon
<1> QED BY <1>1, <1>2, <1>3

LEMMA WeightedSum ==
  ASSUME NEW v, NEW S, IsFiniteSet(S),
         NEW f \in [S -> Int], f = [c \in S |-> CategoryScore(v, c) * Weight[c]]
  PROVE  \E g : Sums(g, f, S) /\ Weighted(v, S) = g[S]
<1> DEFINE G(g) == g = [s \in SUBSET S |->
                          IF s = {} THEN 0
                          ELSE CategoryScore(v, CHOOSE x \in s : TRUE) * Weight[CHOOSE x \in s : TRUE]
                               + g[s \ {CHOOSE x \in s : TRUE}]]
<1>1. \A g : Sums(g, f, S) <=> G(g)
  BY FirstIn DEF Sums, First
<1>2. Weighted(v, S) = (CHOOSE g : G(g))[S]
  BY DEF Weighted, Sum, MapThenSumSet, MapThenFoldSet
<1>3. G(CHOOSE g : G(g))
  <2> HIDE DEF G
  <2> QED BY <1>1, SumsExist, Zenon
<1> QED BY <1>1, <1>2, <1>3

LEMMA WeightSum ==
  ASSUME NEW S, IsFiniteSet(S), NEW f \in [S -> Int], f = [c \in S |-> Weight[c]]
  PROVE  \E g : Sums(g, f, S) /\ Weights(S) = g[S]
<1> DEFINE G(g) == g = [s \in SUBSET S |->
                          IF s = {} THEN 0
                          ELSE Weight[CHOOSE x \in s : TRUE] + g[s \ {CHOOSE x \in s : TRUE}]]
<1>1. \A g : Sums(g, f, S) <=> G(g)
  BY FirstIn DEF Sums, First
<1>2. Weights(S) = (CHOOSE g : G(g))[S]
  BY DEF Weights, Sum, MapThenSumSet, MapThenFoldSet
<1>3. G(CHOOSE g : G(g))
  <2> HIDE DEF G
  <2> QED BY <1>1, SumsExist, Zenon
<1> QED BY <1>1, <1>2, <1>3

\* Rounding to a tenth does not change the order of two means over one weight.
LEMMA RoundedGrows ==
  ASSUME NEW a \in Int, NEW b \in Int, a <= b, NEW d \in Nat \ {0}
  PROVE  Rounded(a, d) \in Int /\ Rounded(b, d) \in Int /\ Rounded(a, d) <= Rounded(b, d)
<1> DEFINE n == 2 * d
           i == (20 * a + d) \div n
           j == (20 * b + d) \div n
<1>1. n \in Int /\ n > 0 /\ 20 * a + d \in Int /\ 20 * b + d \in Int /\ 20 * a + d <= 20 * b + d
  OBVIOUS
<1>2. \A x \in Int : x \div n \in Int /\ n * (x \div n) <= x /\ x < n * (x \div n) + n
  <2> HIDE DEF n
  <2> QED BY <1>1
<1>3. i \in Int /\ j \in Int /\ n * i <= 20 * a + d /\ 20 * b + d < n * j + n
  <2> HIDE DEF n
  <2> QED BY <1>1, <1>2
<1>4. n * i < n * (j + 1)
  <2>1. n * (j + 1) = n * j + n
    <3> HIDE DEF n, i, j
    <3> QED BY <1>1, <1>3
  <2>2. n * i \in Int /\ n * j \in Int
    <3> HIDE DEF n, i, j
    <3> QED BY <1>1, <1>3
  <2> HIDE DEF n, i, j
  <2> QED BY <1>1, <1>3, <2>1, <2>2
<1>5. i <= j
  <2> HIDE DEF n, i, j
  <2> SUFFICES ASSUME i >= j + 1 PROVE FALSE
    BY <1>3
  <2>1. n * i >= n * (j + 1)
    BY <1>1, <1>3
  <2> QED BY <1>1, <1>3, <1>4, <2>1
<1> QED BY <1>3, <1>5 DEF Rounded

\* There are finitely many rules.
LEMMA FinitelyMany ==
  ASSUME NEW S, NEW a, IsFiniteSet(a), NEW b, IsFiniteSet(b), NEW c, IsFiniteSet(c),
         NEW e, IsFiniteSet(e), S \subseteq a \cup (b \cup (c \cup e))
  PROVE  IsFiniteSet(S)
<1>1. IsFiniteSet(a \cup (b \cup (c \cup e)))
  BY FS_Union
<1> QED BY <1>1, FS_Subset

LEMMA CategoriesFinite == IsFiniteSet(Category)
<1>1. /\ IsFiniteSet({"on_page", "technical", "content", "links"})
      /\ IsFiniteSet({"images", "schema", "social", "security"})
      /\ IsFiniteSet({"accessibility", "performance", "performance", "performance"})
  BY FewFinite
<1>2. Category \subseteq {"on_page", "technical", "content", "links"}
        \cup ({"images", "schema", "social", "security"}
        \cup ({"accessibility", "performance", "performance",
               "performance"} \cup {"accessibility", "performance", "performance", "performance"}))
  BY DEF Category, Registered
<1> QED BY <1>1, <1>2, FinitelyMany

\* The rules of a category.
Judging(c) == {r \in Rule : CategoryOf[r] = c}

LEMMA JudgingRegistered == ASSUME NEW c \in Category PROVE Judging(c) \subseteq Registered[c]
<1> SUFFICES ASSUME NEW r \in Rule, CategoryOf[r] = c PROVE r \in Registered[c]
  BY DEF Judging
<1>1. \E k \in Category : r \in Registered[k]
  BY DEF Rule
<1>2. CategoryOf[r] = CHOOSE k \in Category : r \in Registered[k]
  BY DEF CategoryOf
<1> QED BY <1>1, <1>2

LEMMA JudgingFinite == ASSUME NEW c \in Category PROVE IsFiniteSet(Judging(c))
<1>1. IsFiniteSet(Registered[c])
  <2>1. CASE c = "on_page"
    <3>1. IsFiniteSet({"TitleTag", "MetaDescription", "H1Tag", "HeadingHierarchy"})
          /\ IsFiniteSet({"MetaKeywords", "CanonicalUrl", "RobotsMeta", "OpenGraph"})
          /\ IsFiniteSet({"TwitterCards"})
      BY FewFinite, FS_Singleton
    <3>2. Registered[c] \subseteq {"TitleTag", "MetaDescription", "H1Tag", "HeadingHierarchy"}
            \cup ({"MetaKeywords", "CanonicalUrl", "RobotsMeta",
                   "OpenGraph"} \cup ({"TwitterCards"} \cup {"TwitterCards"}))
      BY <2>1 DEF Registered
    <3> QED BY <3>1, <3>2, FinitelyMany
  <2>2. CASE c = "technical"
    <3>1. IsFiniteSet({"SSL_Certificate", "MobileViewport", "LanguageDeclaration", "Charset"})
          /\ IsFiniteSet({"Doctype", "SecurityHeaders", "RobotsTxt", "Sitemap"})
          /\ IsFiniteSet({"StructuredData", "Url", "Mobile", "HttpStatus"})
          /\ IsFiniteSet({"Hreflang"})
      BY FewFinite, FS_Singleton
    <3>2. Registered[c] \subseteq {"SSL_Certificate", "MobileViewport", "LanguageDeclaration", "Charset"}
            \cup ({"Doctype", "SecurityHeaders", "RobotsTxt", "Sitemap"}
            \cup ({"StructuredData", "Url", "Mobile", "HttpStatus"} \cup {"Hreflang"}))
      BY <2>2 DEF Registered
    <3> QED BY <3>1, <3>2, FinitelyMany
  <2>3. CASE c = "content"
    <3>1. IsFiniteSet({"WordCount", "ReadingTime", "ParagraphCount", "TextHtmlRatio"})
          /\ IsFiniteSet({"KeywordInContent", "DuplicateContent", "ContentFreshness", "DuplicateTitles"})
          /\ IsFiniteSet({"DuplicateDescriptions"}) /\ IsFiniteSet({"DuplicateH1s"})
      BY FewFinite, FS_Singleton
    <3>2. Registered[c] \subseteq {"WordCount", "ReadingTime", "ParagraphCount", "TextHtmlRatio"}
            \cup ({"KeywordInContent", "DuplicateContent", "ContentFreshness", "DuplicateTitles"}
            \cup ({"DuplicateDescriptions"} \cup {"DuplicateH1s"}))
      BY <2>3 DEF Registered
    <3> QED BY <3>1, <3>2, FinitelyMany
  <2>4. CASE c = "links"
    <3>1. IsFiniteSet({"InternalLinks", "ExternalLinks", "BrokenLinks", "AnchorText"})
          /\ IsFiniteSet({"NofollowLinks"})
      BY FewFinite, FS_Singleton
    <3>2. Registered[c] \subseteq {"InternalLinks", "ExternalLinks", "BrokenLinks", "AnchorText"}
            \cup ({"NofollowLinks"} \cup ({"NofollowLinks"} \cup {"NofollowLinks"}))
      BY <2>4 DEF Registered
    <3> QED BY <3>1, <3>2, FinitelyMany
  <2>5. CASE c = "images"
    <3>1. IsFiniteSet({"ImageAltText", "ImageSize", "LazyLoading", "ImageDimensions"})
          /\ IsFiniteSet({"ResponsiveImages"}) /\ IsFiniteSet({"ImageFormats"})
      BY FewFinite, FS_Singleton
    <3>2. Registered[c] \subseteq {"ImageAltText", "ImageSize", "LazyLoading", "ImageDimensions"}
            \cup ({"ResponsiveImages"} \cup ({"ImageFormats"} \cup {"ImageFormats"}))
      BY <2>5 DEF Registered
    <3> QED BY <3>1, <3>2, FinitelyMany
  <2>6. CASE c = "schema"
    <3>1. IsFiniteSet({"SchemaMarkup", "OrganizationSchema", "BreadcrumbSchema", "ArticleSchema"})
          /\ IsFiniteSet({"ProductSchema"}) /\ IsFiniteSet({"JsonLdFormat"})
      BY FewFinite, FS_Singleton
    <3>2. Registered[c] \subseteq {"SchemaMarkup", "OrganizationSchema", "BreadcrumbSchema",
                                   "ArticleSchema"}
            \cup ({"ProductSchema"} \cup ({"JsonLdFormat"} \cup {"JsonLdFormat"}))
      BY <2>6 DEF Registered
    <3> QED BY <3>1, <3>2, FinitelyMany
  <2>7. CASE c \in {"social", "security", "accessibility"}
    <3>1. IsFiniteSet({"SocialMediaLinks", "FacebookDomain", "SocialImage", "HSTS"})
          /\ IsFiniteSet({"XSSProtection"}) /\ IsFiniteSet({"FormLabels"})
      BY FewFinite, FS_Singleton
    <3>2. Registered[c] \subseteq {"SocialMediaLinks", "FacebookDomain", "SocialImage", "HSTS"}
            \cup ({"XSSProtection"} \cup ({"FormLabels"} \cup {"FormLabels"}))
      BY <2>7 DEF Registered
    <3> QED BY <3>1, <3>2, FinitelyMany
  <2>8. CASE c = "performance"
    <3>1. IsFiniteSet({"ResponseTime", "HTMLSize", "Minification", "ResourceCount"})
          /\ IsFiniteSet({"CacheHeaders", "Compression", "PageSize", "JavaScriptErrors"})
          /\ IsFiniteSet({"CoreWebVitals"})
      BY FewFinite, FS_Singleton
    <3>2. Registered[c] \subseteq {"ResponseTime", "HTMLSize", "Minification", "ResourceCount"}
            \cup ({"CacheHeaders", "Compression", "PageSize", "JavaScriptErrors"}
            \cup ({"CoreWebVitals"} \cup {"CoreWebVitals"}))
      BY <2>8 DEF Registered
    <3> QED BY <3>1, <3>2, FinitelyMany
  <2> QED BY <2>1, <2>2, <2>3, <2>4, <2>5, <2>6, <2>7, <2>8 DEF Category, Registered
<1> QED BY <1>1, JudgingRegistered, FS_Subset

-----------------------------------------------------------------------------
(* The score of a category *)

\* A verdict on every rule, each with an impact.
Complete(v) == \A r \in Rule : v[r] # Missing /\ v[r].impact \in Int

Clamped(n) == IF n < 0 THEN 0 ELSE IF n > 100 THEN 100 ELSE n

LEMMA ScoreOfTotal ==
  ASSUME NEW v, Complete(v), NEW c
  PROVE  CategoryScore(v, c) = 10 * Clamped(100 + Total(v, Judging(c)))
<1>1. {r \in Checked(v) : CategoryOf[r] = c} = Judging(c)
  BY DEF Checked, Judging, Complete
<1> QED BY <1>1 DEF CategoryScore, Total, Clamped

\* From the verdicts v to w, of the rules in S only those in L lose, each of them no more
\* than loss, and a gains.
Trades(v, w, S, a, gain, L, loss) ==
  /\ a \notin L /\ gain \in Nat /\ loss \in Nat
  /\ a \in S => w[a].impact >= v[a].impact + gain
  /\ \A x \in S \cap L : w[x].impact >= v[x].impact - loss
  /\ \A x \in S \ (L \cup {a}) : w[x].impact >= v[x].impact

LEMMA TotalTrade ==
  ASSUME NEW v, Complete(v), NEW w, Complete(w), NEW S \in SUBSET Rule, IsFiniteSet(S),
         NEW a, NEW gain, NEW L, IsFiniteSet(L), NEW loss, Trades(v, w, S, a, gain, L, loss)
  PROVE  /\ Total(v, S) \in Int /\ Total(w, S) \in Int /\ Cardinality(S \cap L) \in Nat
         /\ Total(w, S) >= Total(v, S) + (IF a \in S THEN gain ELSE 0) - loss * Cardinality(S \cap L)
<1> DEFINE f == [r \in S |-> v[r].impact]
           e == [r \in S |-> w[r].impact]
<1>1. f \in [S -> Int] /\ e \in [S -> Int]
  BY DEF Complete
<1>2. /\ a \in S => e[a] >= f[a] + gain
      /\ \A x \in S \cap L : e[x] >= f[x] - loss
      /\ \A x \in S \ (L \cup {a}) : e[x] >= f[x]
      /\ a \notin L /\ gain \in Nat /\ loss \in Nat
  BY DEF Trades
<1>3. PICK g : Sums(g, f, S) /\ Total(v, S) = g[S]
  <2>1. f = [r \in S |-> v[r].impact]
    OBVIOUS
  <2> HIDE DEF f
  <2> QED BY <1>1, <2>1, ImpactSum
<1>4. PICK h : Sums(h, e, S) /\ Total(w, S) = h[S]
  <2>1. e = [r \in S |-> w[r].impact]
    OBVIOUS
  <2> HIDE DEF e
  <2> QED BY <1>1, <2>1, ImpactSum
<1> HIDE DEF f, e
<1>5. /\ g[S] \in Int /\ h[S] \in Int /\ Cardinality(S \cap L) \in Nat
      /\ h[S] >= g[S] + (IF a \in S THEN gain ELSE 0) - loss * Cardinality(S \cap L)
  BY <1>1, <1>2, <1>3, <1>4, SumsTrade
<1> QED BY <1>3, <1>4, <1>5

\* Clamping keeps the order, and brings two totals no further apart.
LEMMA ClampedGrows ==
  ASSUME NEW i \in Int, NEW j \in Int, NEW n \in Nat, j >= i - n
  PROVE  /\ Clamped(i) \in 0 .. 100 /\ Clamped(j) \in 0 .. 100
         /\ Clamped(j) >= Clamped(i) - n
BY DEF Clamped

\* What one rule gains outweighs a point that each of a few others loses.
LEMMA CategoryTrade ==
  ASSUME NEW v, Complete(v), NEW w, Complete(w), NEW c \in Category,
         NEW a, NEW L, IsFiniteSet(L), a \notin L,
         L \cap Judging(c) # {} => a \in Judging(c),
         a \in Judging(c) => w[a].impact >= v[a].impact + Cardinality(L),
         \A x \in Judging(c) \cap L : w[x].impact >= v[x].impact - 1,
         \A x \in Judging(c) \ (L \cup {a}) : w[x].impact >= v[x].impact
  PROVE  /\ CategoryScore(v, c) \in Int /\ CategoryScore(w, c) \in Int
         /\ CategoryScore(v, c) <= CategoryScore(w, c)
<1> DEFINE S == Judging(c)
           gain == Cardinality(L)
           lost == Cardinality(S \cap L)
           i == Total(v, S)
           j == Total(w, S)
<1>1. S \in SUBSET Rule /\ IsFiniteSet(S)
  BY JudgingFinite DEF Judging
<1>2. gain \in Nat /\ lost \in Nat /\ lost <= gain
  BY FS_CardinalityType, FS_Subset, S \cap L \subseteq L
<1>3. i \in Int /\ j \in Int /\ j >= i + (IF a \in S THEN gain ELSE 0) - 1 * lost
  <2>1. Trades(v, w, S, a, gain, L, 1)
    BY <1>2 DEF Trades
  <2> QED BY <1>1, <2>1, TotalTrade
<1>4. a \notin S => lost = 0
  BY FS_EmptySet, a \notin S => S \cap L = {}
<1> HIDE DEF S, gain, lost, i, j
<1>5. j >= i
  BY <1>2, <1>3, <1>4
<1>6. Clamped(100 + i) \in 0 .. 100 /\ Clamped(100 + j) \in 0 .. 100
      /\ Clamped(100 + j) >= Clamped(100 + i) - 0
  <2>1. 100 + i \in Int /\ 100 + j \in Int /\ 100 + j >= (100 + i) - 0 /\ 0 \in Nat
    BY <1>3, <1>5
  <2> QED BY <2>1, ClampedGrows
<1>7. CategoryScore(v, c) = 10 * Clamped(100 + i) /\ CategoryScore(w, c) = 10 * Clamped(100 + j)
  BY ScoreOfTotal DEF i, j, S
<1> QED BY <1>6, <1>7

\* A rule that loses three points costs its category no more than three.
LEMMA CategoryLoss ==
  ASSUME NEW v, Complete(v), NEW w, Complete(w), NEW c \in Category, NEW a,
         w[a].impact >= v[a].impact - 3,
         \A x \in Judging(c) \ {a} : w[x].impact >= v[x].impact
  PROVE  /\ CategoryScore(v, c) \in Int /\ CategoryScore(w, c) \in Int
         /\ CategoryScore(v, c) <= CategoryScore(w, c) + 30
<1> DEFINE S == Judging(c)
           L == {a}
           lost == Cardinality(S \cap L)
           i == Total(v, S)
           j == Total(w, S)
<1>1. S \in SUBSET Rule /\ IsFiniteSet(S) /\ IsFiniteSet(L) /\ Cardinality(L) = 1
  BY JudgingFinite, FS_Singleton DEF Judging
<1>2. PICK b \in {"TitleTag", "Url"} : b # a
  OBVIOUS
<1>3. lost \in Nat /\ lost <= 1
  BY <1>1, FS_CardinalityType, FS_Subset, S \cap L \subseteq L
<1>4. i \in Int /\ j \in Int /\ j >= i + (IF b \in S THEN 0 ELSE 0) - 3 * lost
  <2>1. Trades(v, w, S, b, 0, L, 3)
    BY <1>1, <1>2 DEF Trades, Complete
  <2> HIDE DEF S, L
  <2>2. /\ Total(v, S) \in Int /\ Total(w, S) \in Int
        /\ Total(w, S) >= Total(v, S) + (IF b \in S THEN 0 ELSE 0) - 3 * Cardinality(S \cap L)
    BY <1>1, <2>1, TotalTrade
  <2> QED BY <2>2
<1> HIDE DEF S, L, lost, i, j
<1>5. j >= i - 3
  BY <1>3, <1>4
<1>6. Clamped(100 + i) \in 0 .. 100 /\ Clamped(100 + j) \in 0 .. 100
      /\ Clamped(100 + j) >= Clamped(100 + i) - 3
  <2>1. 100 + i \in Int /\ 100 + j \in Int /\ 100 + j >= (100 + i) - 3 /\ 3 \in Nat
    BY <1>4, <1>5
  <2> QED BY <2>1, ClampedGrows
<1>7. CategoryScore(v, c) = 10 * Clamped(100 + i) /\ CategoryScore(w, c) = 10 * Clamped(100 + j)
  BY ScoreOfTotal DEF i, j, S
<1> QED BY <1>6, <1>7

\* No impacts, no total.
LEMMA NoTotal ==
  ASSUME NEW v, Complete(v), NEW S \in SUBSET Rule, IsFiniteSet(S), \A x \in S : v[x].impact = 0
  PROVE  Total(v, S) = 0
<1> DEFINE f == [r \in S |-> v[r].impact]
<1>1. f \in [S -> Int] /\ \A x \in S : f[x] = 0
  OBVIOUS
<1>2. PICK g : Sums(g, f, S) /\ Total(v, S) = g[S]
  <2>1. f = [r \in S |-> v[r].impact]
    OBVIOUS
  <2> HIDE DEF f
  <2> QED BY <1>1, <2>1, ImpactSum
<1> HIDE DEF f
<1> DEFINE G == {T \in SUBSET S : g[T] = 0}
<1>3. {} \in G
  BY <1>2 DEF Sums
<1>4. ASSUME NEW T \in SUBSET S, T # {}, T \ {First(T)} \in G PROVE T \in G
  <2>1. First(T) \in S
    BY <1>4, FirstIn
  <2>2. g[T] = f[First(T)] + g[T \ {First(T)}]
    BY <1>2, <1>4 DEF Sums
  <2> QED BY <1>1, <1>4, <2>1, <2>2
<1>5. SUBSET S \subseteq G
  <2> HIDE DEF G
  <2> QED BY <1>3, <1>4, SubsetSteps
<1> QED BY <1>2, <1>5

-----------------------------------------------------------------------------
(* The score of a page *)

\* What one category gains, weighted, makes up for what another one loses.
LEMMA PageTrade ==
  ASSUME NEW v, Complete(v), NEW w, Complete(w),
         \A c \in Category : CategoryScore(v, c) \in Int /\ CategoryScore(w, c) \in Int,
         NEW a \in Category, NEW b \in Category, a # b, NEW m \in Nat,
         CategoryScore(w, a) * Weight[a] >= CategoryScore(v, a) * Weight[a] + m,
         CategoryScore(w, b) * Weight[b] >= CategoryScore(v, b) * Weight[b] - m,
         \A c \in Category \ {a, b} : CategoryScore(w, c) >= CategoryScore(v, c)
  PROVE  PageScore(v) <= PageScore(w)
<1> DEFINE S == Category
           f == [c \in S |-> CategoryScore(v, c) * Weight[c]]
           e == [c \in S |-> CategoryScore(w, c) * Weight[c]]
           t == [c \in S |-> Weight[c]]
           L == {b}
<1>1. S = Categories(v) /\ S = Categories(w)
  <2>1. Checked(v) = Rule /\ Checked(w) = Rule
    BY DEF Checked, Complete
  <2>2. \A r \in Rule : CategoryOf[r] \in Category
    <3> TAKE r \in Rule
    <3>1. \E c \in Category : r \in Registered[c]
      BY DEF Rule
    <3>2. CategoryOf[r] = CHOOSE c \in Category : r \in Registered[c]
      BY DEF CategoryOf
    <3> QED BY <3>1, <3>2
  <2>3. \A c \in Category : \E r \in Rule : CategoryOf[r] = c
    <3>1. /\ "TitleTag" \in Rule /\ "Url" \in Rule /\ "WordCount" \in Rule /\ "BrokenLinks" \in Rule
          /\ "ImageSize" \in Rule /\ "SchemaMarkup" \in Rule /\ "SocialImage" \in Rule
          /\ "HSTS" \in Rule /\ "FormLabels" \in Rule /\ "PageSize" \in Rule
      BY DEF Rule, Category, Registered
    <3>2. \A c \in Category : /\ "TitleTag" \in Registered[c] => c = "on_page"
                              /\ "Url" \in Registered[c] => c = "technical"
                              /\ "WordCount" \in Registered[c] => c = "content"
                              /\ "BrokenLinks" \in Registered[c] => c = "links"
                              /\ "ImageSize" \in Registered[c] => c = "images"
      BY DEF Category, Registered
    <3>3. \A c \in Category : /\ "SchemaMarkup" \in Registered[c] => c = "schema"
                              /\ "SocialImage" \in Registered[c] => c = "social"
                              /\ "HSTS" \in Registered[c] => c = "security"
                              /\ "FormLabels" \in Registered[c] => c = "accessibility"
                              /\ "PageSize" \in Registered[c] => c = "performance"
      BY DEF Category, Registered
    <3>4. \A r \in Rule : r \in Judging(CategoryOf[r])
      BY DEF Judging
    <3>5. \A r \in Rule : r \in Registered[CategoryOf[r]]
      BY <2>2, <3>4, JudgingRegistered
    <3>6. Category = {"on_page", "technical", "content", "links", "images", "schema", "social",
                      "security", "accessibility", "performance"}
      BY DEF Category, Registered
    <3>7. /\ CategoryOf["TitleTag"] = "on_page" /\ CategoryOf["Url"] = "technical"
          /\ CategoryOf["WordCount"] = "content" /\ CategoryOf["BrokenLinks"] = "links"
          /\ CategoryOf["ImageSize"] = "images"
      BY <2>2, <3>1, <3>2, <3>5
    <3>8. /\ CategoryOf["SchemaMarkup"] = "schema" /\ CategoryOf["SocialImage"] = "social"
          /\ CategoryOf["HSTS"] = "security" /\ CategoryOf["FormLabels"] = "accessibility"
          /\ CategoryOf["PageSize"] = "performance"
      BY <2>2, <3>1, <3>3, <3>5
    <3> QED BY <3>1, <3>6, <3>7, <3>8
  <2> QED BY <2>1, <2>2, <2>3 DEF Categories
<1>2. IsFiniteSet(S) /\ S # {} /\ IsFiniteSet(L) /\ S \cap L = L /\ Cardinality(L) = 1
  BY CategoriesFinite, FS_Singleton
<1>3. t \in [S -> Nat \ {0}] /\ t \in [S -> Int] /\ \A c \in S : Weight[c] \in Nat
  BY DEF Weight, Category, Registered
<1>4. \A c \in S : /\ CategoryScore(v, c) * Weight[c] \in Int /\ CategoryScore(w, c) * Weight[c] \in Int
                   /\ c \notin {a, b} => CategoryScore(v, c) * Weight[c] <= CategoryScore(w, c) * Weight[c]
  <2> TAKE c \in S
  <2>1. Weight[c] \in Nat /\ CategoryScore(v, c) \in Int /\ CategoryScore(w, c) \in Int
    BY <1>3
  <2>2. \A i \in Int, j \in Int, n \in Nat : i * n \in Int /\ (i <= j => i * n <= j * n)
    OBVIOUS
  <2>3. c \notin {a, b} => CategoryScore(v, c) <= CategoryScore(w, c)
    BY <2>1
  <2> QED BY <2>1, <2>2, <2>3
<1>5. /\ f \in [S -> Int] /\ e \in [S -> Int] /\ e[a] >= f[a] + m
      /\ \A c \in S \cap L : e[c] >= f[c] - m
      /\ \A c \in S \ (L \cup {a}) : e[c] >= f[c]
  BY <1>4
<1>6. /\ \E g : Sums(g, f, S) /\ Weighted(v, S) = g[S]
      /\ \E g : Sums(g, e, S) /\ Weighted(w, S) = g[S]
      /\ \E g : Sums(g, t, S) /\ Weights(S) = g[S]
  <2>1. /\ f = [c \in S |-> CategoryScore(v, c) * Weight[c]]
        /\ e = [c \in S |-> CategoryScore(w, c) * Weight[c]]
        /\ t = [c \in S |-> Weight[c]]
    OBVIOUS
  <2> HIDE DEF S, f, e, t
  <2>2. \E g : Sums(g, f, S) /\ Weighted(v, S) = g[S]
    BY <1>2, <1>5, <2>1, WeightedSum
  <2>3. \E g : Sums(g, e, S) /\ Weighted(w, S) = g[S]
    BY <1>2, <1>5, <2>1, WeightedSum
  <2>4. \E g : Sums(g, t, S) /\ Weights(S) = g[S]
    BY <1>2, <1>3, <2>1, WeightSum
  <2> QED BY <2>2, <2>3, <2>4, Zenon
<1>7. PICK g : Sums(g, f, S) /\ Weighted(v, S) = g[S]
  BY <1>6
<1>8. PICK h : Sums(h, e, S) /\ Weighted(w, S) = h[S]
  BY <1>6
<1>9. PICK k : Sums(k, t, S) /\ Weights(S) = k[S]
  BY <1>6
<1>10. g[S] \in Int /\ h[S] \in Int /\ h[S] >= g[S]
  <2>1. a \notin L /\ a \in S /\ Cardinality(S \cap L) = 1
    <3>1. S \cap L = L /\ Cardinality(L) = 1
      BY <1>2
    <3> HIDE DEF L
    <3>2. Cardinality(S \cap L) = 1
      BY <3>1
    <3> QED BY <3>2 DEF L
  <2> HIDE DEF S, f, e, L
  <2>2. g[S] \in Int /\ h[S] \in Int /\ Cardinality(S \cap L) \in Nat
        /\ h[S] >= g[S] + (IF a \in S THEN m ELSE 0) - m * Cardinality(S \cap L)
    BY <1>2, <1>5, <1>7, <1>8, <2>1, SumsTrade
  <2>3. m * 1 = m
    OBVIOUS
  <2> QED BY <2>1, <2>2, <2>3
<1>11. k[S] \in Nat \ {0}
  <2> HIDE DEF S, t
  <2> QED BY <1>2, <1>3, <1>9, SumsPositive
<1>12. 10 * k[S] \in Nat \ {0}
  BY <1>11
<1>13. Rounded(g[S], 10 * k[S]) <= Rounded(h[S], 10 * k[S])
  <2> HIDE DEF S
  <2> QED BY <1>10, <1>12, RoundedGrows
<1>14. PageScore(v) = Rounded(g[S], 10 * k[S]) /\ PageScore(w) = Rounded(h[S], 10 * k[S])
  BY <1>1, <1>7, <1>8, <1>9 DEF PageScore, Weighted, Weights
<1> QED BY <1>13, <1>14

LEMMA SomeVerdict == ASSUME NEW w, w \in [passed : BOOLEAN, impact : Int, error : BOOLEAN] PROVE w # Missing
BY AdviceAssumption

\* The score of the content is never clamped, so that more words gain what their rule gains.
LEMMA ContentGain ==
  ASSUME NEW v, Complete(v), NEW w, Complete(w),
         w["WordCount"].impact >= v["WordCount"].impact + 8,
         w["DuplicateContent"].impact >= v["DuplicateContent"].impact - 1,
         \A x \in Registered.content \ {"WordCount", "DuplicateContent"} : w[x].impact >= v[x].impact,
         \A x \in Registered.content : v[x].impact >= -15 /\ w[x].impact <= 0,
         \A x \in Registered.content \ {"WordCount", "ParagraphCount", "DuplicateContent",
                                        "ContentFreshness"} :
           v[x].impact >= 0
  PROVE  /\ CategoryScore(v, "content") \in Int /\ CategoryScore(w, "content") \in Int
         /\ CategoryScore(w, "content") >= CategoryScore(v, "content") + 70
<1> DEFINE S == Judging("content")
           L == {"DuplicateContent"}
           M == {"WordCount", "ParagraphCount", "DuplicateContent", "ContentFreshness"}
           none == [r \in Rule |-> Pass(0)]
           i == Total(v, S)
           j == Total(w, S)
<1>1. S \in SUBSET Rule /\ IsFiniteSet(S) /\ S \subseteq Registered.content /\ "content" \in Category
  BY JudgingFinite, JudgingRegistered DEF Judging, Category, Registered
<1>2. "WordCount" \in S
  <2>1. "WordCount" \in Registered["content"] /\ \A c \in Category : "WordCount" \in Registered[c] => c = "content"
    BY DEF Category, Registered
  <2>2. "WordCount" \in Rule
    BY <1>1, <2>1 DEF Rule
  <2>3. CategoryOf["WordCount"] = CHOOSE c \in Category : "WordCount" \in Registered[c]
    BY <2>2 DEF CategoryOf
  <2>4. CategoryOf["WordCount"] = "content"
    BY <1>1, <2>1, <2>3
  <2> QED BY <2>2, <2>4 DEF Judging
<1>3. IsFiniteSet(L) /\ Cardinality(L) = 1 /\ IsFiniteSet(M) /\ Cardinality(M) \in Nat /\ Cardinality(M) <= 4
  BY FewFinite, FS_Singleton
<1>4. Complete(none) /\ \A x \in S : none[x].impact = 0
  <2>1. Pass(0) \in [passed : BOOLEAN, impact : Int, error : BOOLEAN] /\ Pass(0).impact = 0
    BY DEF Pass
  <2> QED BY <1>1, <2>1, SomeVerdict DEF Complete
<1>5. Total(none, S) = 0
  <2> HIDE DEF S, none
  <2> QED BY <1>1, <1>4, NoTotal
<1>6. i \in Int /\ j \in Int /\ j >= i + 7
  <2>1. Trades(v, w, S, "WordCount", 8, L, 1)
    BY <1>1 DEF Trades
  <2>2. Cardinality(S \cap L) \in Nat /\ Cardinality(S \cap L) <= 1
    BY <1>3, FS_CardinalityType, FS_Subset, S \cap L \subseteq L
  <2> HIDE DEF S, L
  <2>3. i \in Int /\ j \in Int /\ j >= i + (IF "WordCount" \in S THEN 8 ELSE 0) - 1 * Cardinality(S \cap L)
    BY <1>1, <1>3, <2>1, TotalTrade
  <2> HIDE DEF i, j
  <2> QED BY <1>2, <2>2, <2>3
<1>7. i >= -60
  <2>1. Trades(none, v, S, "ReadingTime", 0, M, 15)
    BY <1>1, <1>4 DEF Trades, Registered
  <2>2. Cardinality(S \cap M) \in Nat /\ Cardinality(S \cap M) <= 4
    <3>1. S \cap M \subseteq M
      OBVIOUS
    <3> HIDE DEF S, M
    <3>2. Cardinality(S \cap M) \in Nat /\ Cardinality(S \cap M) <= Cardinality(M)
      BY <1>3, <3>1, FS_CardinalityType, FS_Subset
    <3> QED BY <1>3, <3>2
  <2> HIDE DEF S, M, none
  <2>3. i >= Total(none, S) + (IF "ReadingTime" \in S THEN 0 ELSE 0) - 15 * Cardinality(S \cap M)
    BY <1>1, <1>3, <1>4, <2>1, TotalTrade
  <2> HIDE DEF i
  <2> QED BY <1>5, <1>6, <2>2, <2>3
<1>8. j <= 0
  <2>1. Trades(w, none, S, "ReadingTime", 0, {}, 0)
    BY <1>1, <1>4 DEF Trades, Registered, Complete
  <2>2. IsFiniteSet({}) /\ Cardinality(S \cap {}) = 0
    BY FS_EmptySet, S \cap {} = {}
  <2> HIDE DEF S, none
  <2>3. Total(none, S) >= j + (IF "ReadingTime" \in S THEN 0 ELSE 0) - 0 * Cardinality(S \cap {})
    BY <1>1, <1>4, <2>1, <2>2, TotalTrade
  <2> HIDE DEF j
  <2> QED BY <1>5, <1>6, <2>2, <2>3
<1>9. CategoryScore(v, "content") = 10 * Clamped(100 + i) /\ CategoryScore(w, "content") = 10 * Clamped(100 + j)
  BY ScoreOfTotal
<1> HIDE DEF i, j
<1> QED BY <1>6, <1>7, <1>8, <1>9 DEF Clamped

Spared(v, w) == v.impact <= w.impact

\* q is p, or better, in all that no repair trades for something else.
Better(p, q) ==
  /\ q.meta_description = p.meta_description \/ q.meta_description \in 140 .. 160
  /\ q.robots_meta \subseteq p.robots_meta
  /\ p.open_graph \subseteq q.open_graph
  /\ p.https => q.https
  /\ q.viewport \in {p.viewport, "device"}
  /\ p.language => q.language
  /\ q.charset \in {p.charset, "utf-8"}
  /\ p.headers \subseteq q.headers
  /\ "strict-transport-security" \in p.headers /\ p.hstsYear => q.hstsYear
  /\ q.path \in {p.path, {}} /\ q.status_code \in {p.status_code, 301}
  /\ q.hreflang = p.hreflang \/ {"self", "x-default"} \subseteq q.hreflang
  /\ q.broken \in {p.broken, 0}
  /\ q.images.total = p.images.total
  /\ q.images.without_alt \in {p.images.without_alt, 0}
  /\ q.images.undimensioned \in {p.images.undimensioned, 0}
  /\ p.images.lazy => q.images.lazy
  /\ p.images.srcset => q.images.srcset
  /\ p.images.modern => q.images.modern
  /\ q.internal + q.external = p.internal + p.external
  /\ Spared(ResponseTime(p), ResponseTime(q))

LEMMA OnPageSpared ==
  ASSUME NEW p, Sound(p), NEW q, Sound(q), Better(p, q), NEW d, Sees(d, p), NEW e, Sees(e, q)
  PROVE  /\ Spared(MetaDescription(d), MetaDescription(e))
         /\ Spared(MetaKeywords(d), MetaKeywords(e))
         /\ Spared(CanonicalUrl(d), CanonicalUrl(e))
         /\ Spared(RobotsMeta(d), RobotsMeta(e))
         /\ Spared(OpenGraph(d), OpenGraph(e))
         /\ Spared(TwitterCards(d), TwitterCards(e))
<1>1. Spared(MetaDescription(d), MetaDescription(e))
  BY DEF Sees, Arrives, Better, Spared, Pass, Fail, PassUnless, If, MetaDescription
<1>2. Spared(MetaKeywords(d), MetaKeywords(e))
  BY DEF Sees, Arrives, Better, Spared, Pass, Fail, PassUnless, If, MetaKeywords
<1>3. Spared(CanonicalUrl(d), CanonicalUrl(e))
  BY DEF Sees, Arrives, Better, Spared, Pass, Fail, PassUnless, If, CanonicalUrl
<1>4. Spared(RobotsMeta(d), RobotsMeta(e))
  BY DEF Sees, Arrives, ArrivesAtAudit, ArrivesAtStream, Better, Spared, Pass, Fail, PassUnless,
     If, RobotsMeta
<1>5. Spared(OpenGraph(d), OpenGraph(e))
  <2> DEFINE m == OgTag \ d.open_graph
             n == OgTag \ e.open_graph
  <2>1. n \subseteq m
    BY DEF Sees, Arrives, Better
  <2>2. Cardinality(m) \in Nat /\ Cardinality(n) \in Nat /\ Cardinality(n) <= Cardinality(m)
    <3>1. IsFiniteSet(OgTag)
      BY FewFinite DEF OgTag
    <3>2. IsFiniteSet(m)
      BY <3>1, FS_Subset
    <3> HIDE DEF m, n
    <3> QED BY <2>1, <3>2, FS_Subset, FS_CardinalityType
  <2>3. OpenGraph(d) = PassUnless(m # {}, 2 * Cardinality(m)) /\ OpenGraph(e) = PassUnless(n # {}, 2 * Cardinality(n))
    BY DEF OpenGraph
  <2> HIDE DEF m, n
  <2> QED BY <2>1, <2>2, <2>3 DEF PassUnless, Pass, Fail, Spared
<1>6. Spared(TwitterCards(d), TwitterCards(e))
  BY DEF Sees, Arrives, Better, Spared, Pass, Fail, PassUnless, If, TwitterCards
<1> QED BY <1>1, <1>2, <1>3, <1>4, <1>5, <1>6

LEMMA TechnicalSpared ==
  ASSUME NEW p, Sound(p), NEW q, Sound(q), Better(p, q), NEW d, Sees(d, p), NEW e, Sees(e, q)
  PROVE  /\ Spared(SSL_Certificate(d), SSL_Certificate(e))
         /\ Spared(MobileViewport(d), MobileViewport(e))
         /\ Spared(LanguageDeclaration(d), LanguageDeclaration(e))
         /\ Spared(Charset(d), Charset(e))
         /\ Spared(Doctype(d), Doctype(e))
         /\ Spared(SecurityHeaders(d), SecurityHeaders(e))
         /\ Spared(RobotsTxt(d), RobotsTxt(e))
         /\ Spared(Sitemap(d), Sitemap(e))
         /\ Spared(Url(d), Url(e))
         /\ Spared(Mobile(d), Mobile(e))
         /\ Spared(HttpStatus(d), HttpStatus(e))
         /\ Spared(Hreflang(d), Hreflang(e))
<1>1. Spared(SSL_Certificate(d), SSL_Certificate(e))
  BY DEF Sees, Arrives, Better, Spared, Pass, Fail, PassUnless, If, SSL_Certificate
<1>2. Spared(MobileViewport(d), MobileViewport(e))
  BY DEF Sees, Arrives, Better, Spared, Pass, Fail, PassUnless, If, MobileViewport
<1>3. Spared(LanguageDeclaration(d), LanguageDeclaration(e))
  BY DEF Sees, Arrives, Better, Spared, Pass, Fail, PassUnless, If, LanguageDeclaration
<1>4. Spared(Charset(d), Charset(e))
  BY DEF Sees, Arrives, Better, Spared, Pass, Fail, PassUnless, If, Charset
<1>5. Spared(Doctype(d), Doctype(e))
  BY DEF Sees, Arrives, Better, Spared, Pass, Fail, PassUnless, If, Doctype
<1>6. Spared(SecurityHeaders(d), SecurityHeaders(e))
  <2> DEFINE R(h) == {"strict-transport-security", "content-security-policy"} \ h
             O(h) == {"x-frame-options", "x-content-type-options"} \ h
             n(h) == 2 * Cardinality(R(h)) + Cardinality(O(h))
  <2>1. d.headers \subseteq e.headers
    BY DEF Sees, ArrivesAtAudit, ArrivesAtStream, Better
  <2>2. /\ Cardinality(R(d.headers)) \in Nat /\ Cardinality(R(e.headers)) \in Nat
        /\ Cardinality(R(e.headers)) <= Cardinality(R(d.headers))
        /\ Cardinality(O(d.headers)) \in Nat /\ Cardinality(O(e.headers)) \in Nat
        /\ Cardinality(O(e.headers)) <= Cardinality(O(d.headers))
    <3>1. \A h : IsFiniteSet(R(h)) /\ IsFiniteSet(O(h))
      <4> TAKE h
      <4>1. /\ IsFiniteSet({"strict-transport-security", "content-security-policy",
                             "x-frame-options", "x-content-type-options"})
        BY FewFinite
      <4> QED BY <4>1, FS_Subset
    <3>2. R(e.headers) \subseteq R(d.headers) /\ O(e.headers) \subseteq O(d.headers)
      BY <2>1
    <3> HIDE DEF R, O
    <3> QED BY <3>1, <3>2, FS_Subset, FS_CardinalityType
  <2>3. /\ SecurityHeaders(d) = PassUnless(R(d.headers) \cup O(d.headers) # {}, n(d.headers))
        /\ SecurityHeaders(e) = PassUnless(R(e.headers) \cup O(e.headers) # {}, n(e.headers))
    BY DEF SecurityHeaders
  <2>4. R(e.headers) \cup O(e.headers) # {} => R(d.headers) \cup O(d.headers) # {}
    BY <2>1
  <2> HIDE DEF R, O
  <2> QED BY <2>2, <2>3, <2>4 DEF PassUnless, Pass, Fail, Spared
<1>7. Spared(RobotsTxt(d), RobotsTxt(e))
  BY DEF Sees, Arrives, Better, Spared, Pass, Fail, PassUnless, If, RobotsTxt
<1>8. Spared(Sitemap(d), Sitemap(e))
  BY DEF Sees, Arrives, Better, Spared, Pass, Fail, PassUnless, If, Sitemap
<1>9. Spared(Url(d), Url(e))
  <2>1. /\ d.path \in SUBSET {"missing", "underscore", "space", "long"} /\ e.path \in {d.path, {}}
        /\ (d.normalized_url <=> e.normalized_url)
    <3>1. p.path \in SUBSET {"missing", "underscore", "space", "long"}
      BY Counted
    <3> QED BY <3>1 DEF Sees, Arrives, ArrivesAtAudit, ArrivesAtStream, Better
  <2>2. Cardinality(d.path) \in Nat
    BY <2>1, FewCounted
  <2> QED BY <2>1, <2>2 DEF Url, PassUnless, Pass, Fail, Spared
<1>10. Spared(Mobile(d), Mobile(e))
  BY DEF Sees, Arrives, Better, Spared, Pass, Fail, PassUnless, If, Mobile
<1>11. Spared(HttpStatus(d), HttpStatus(e))
  BY DEF Sees, Arrives, Better, Spared, Pass, Fail, PassUnless, If, HttpStatus
<1>12. Spared(Hreflang(d), Hreflang(e))
  BY DEF Sees, Arrives, ArrivesAtAudit, ArrivesAtStream, Better, Spared, Pass, Fail, PassUnless,
     If, Hreflang
<1> QED BY <1>1, <1>2, <1>3, <1>4, <1>5, <1>6, <1>7, <1>8, <1>9, <1>10, <1>11, <1>12

LEMMA ContentSpared ==
  ASSUME NEW p, Sound(p), NEW q, Sound(q), Better(p, q), NEW d, Sees(d, p), NEW e, Sees(e, q)
  PROVE  /\ Spared(ReadingTime(d), ReadingTime(e))
         /\ Spared(ParagraphCount(d), ParagraphCount(e))
         /\ Spared(TextHtmlRatio(d), TextHtmlRatio(e))
         /\ Spared(KeywordInContent(d), KeywordInContent(e))
         /\ Spared(ContentFreshness(d), ContentFreshness(e))
         /\ Spared(DuplicateTitles(d), DuplicateTitles(e))
         /\ Spared(DuplicateDescriptions(d), DuplicateDescriptions(e))
         /\ Spared(DuplicateH1s(d), DuplicateH1s(e))
<1>1. Spared(ReadingTime(d), ReadingTime(e))
  BY DEF Sees, Arrives, Better, Spared, Pass, Fail, PassUnless, If, ReadingTime
<1>2. Spared(ParagraphCount(d), ParagraphCount(e))
  BY DEF Sees, Arrives, Better, Spared, Pass, Fail, PassUnless, If, ParagraphCount
<1>3. Spared(TextHtmlRatio(d), TextHtmlRatio(e))
  BY DEF Sees, Arrives, Better, Spared, Pass, Fail, PassUnless, If, TextHtmlRatio
<1>4. Spared(KeywordInContent(d), KeywordInContent(e))
  BY DEF Sees, Arrives, Better, Spared, Pass, Fail, PassUnless, If, KeywordInContent
<1>5. Spared(ContentFreshness(d), ContentFreshness(e))
  BY DEF Sees, Arrives, Better, Spared, Pass, Fail, PassUnless, If, ContentFreshness
<1>6. Spared(DuplicateTitles(d), DuplicateTitles(e))
  BY DEF Sees, Arrives, Better, Spared, Pass, Fail, PassUnless, If, DuplicateTitles
<1>7. Spared(DuplicateDescriptions(d), DuplicateDescriptions(e))
  BY DEF Sees, Arrives, Better, Spared, Pass, Fail, PassUnless, If, DuplicateDescriptions
<1>8. Spared(DuplicateH1s(d), DuplicateH1s(e))
  BY DEF Sees, Arrives, Better, Spared, Pass, Fail, PassUnless, If, DuplicateH1s
<1> QED BY <1>1, <1>2, <1>3, <1>4, <1>5, <1>6, <1>7, <1>8

LEMMA LinksSpared ==
  ASSUME NEW p, Sound(p), NEW q, Sound(q), Better(p, q), NEW d, Sees(d, p), NEW e, Sees(e, q)
  PROVE  /\ Spared(InternalLinks(d), InternalLinks(e))
         /\ Spared(ExternalLinks(d), ExternalLinks(e))
         /\ Spared(BrokenLinks(d), BrokenLinks(e))
         /\ Spared(AnchorText(d), AnchorText(e))
         /\ Spared(NofollowLinks(d), NofollowLinks(e))
<1>1. Spared(InternalLinks(d), InternalLinks(e))
  BY DEF Sees, Arrives, Better, Spared, Pass, Fail, PassUnless, If, InternalLinks
<1>2. Spared(ExternalLinks(d), ExternalLinks(e))
  BY DEF Sees, Arrives, Better, Spared, Pass, Fail, PassUnless, If, ExternalLinks
<1>3. Spared(BrokenLinks(d), BrokenLinks(e))
  <2>1. /\ d.broken \in Nat /\ e.broken \in {d.broken, 0}
        /\ (d.broken_link_data_available <=> e.broken_link_data_available)
    <3>1. p.broken \in Nat
      BY Counted
    <3> QED BY <3>1 DEF Sees, ArrivesAtAudit, ArrivesAtStream, Better
  <2> QED BY <2>1 DEF BrokenLinks, AtMost, PassUnless, Pass, Fail, Spared
<1>4. Spared(AnchorText(d), AnchorText(e))
  <2>1. d.generic = e.generic /\ d.generic \in Nat
    BY Counted DEF Sees, Arrives, Better
  <2> QED BY <2>1 DEF AnchorText, AtMost, PassUnless, Pass, Fail, Spared
<1>5. Spared(NofollowLinks(d), NofollowLinks(e))
  BY DEF Sees, Arrives, Better, Spared, Pass, Fail, PassUnless, If, NofollowLinks
<1> QED BY <1>1, <1>2, <1>3, <1>4, <1>5

LEMMA ImagesSpared ==
  ASSUME NEW p, Sound(p), NEW q, Sound(q), Better(p, q), NEW d, Sees(d, p), NEW e, Sees(e, q)
  PROVE  /\ Spared(ImageAltText(d), ImageAltText(e))
         /\ Spared(ImageSize(d), ImageSize(e))
         /\ Spared(LazyLoading(d), LazyLoading(e))
         /\ Spared(ImageDimensions(d), ImageDimensions(e))
         /\ Spared(ResponsiveImages(d), ResponsiveImages(e))
         /\ Spared(ImageFormats(d), ImageFormats(e))
<1>1. Spared(ImageAltText(d), ImageAltText(e))
  <2>1. /\ d.images.total \in Nat /\ d.images.without_alt \in Nat /\ e.images.total = d.images.total
        /\ e.images.without_alt \in {d.images.without_alt, 0}
    BY Counted DEF Sees, Arrives, Better
  <2> QED BY <2>1 DEF ImageAltText, AtMost, PassUnless, Pass, Fail, Spared
<1>2. Spared(ImageSize(d), ImageSize(e))
  BY DEF Sees, Arrives, Better, Spared, Pass, Fail, PassUnless, If, ImageSize
<1>3. Spared(LazyLoading(d), LazyLoading(e))
  BY DEF Sees, Arrives, Better, Spared, Pass, Fail, PassUnless, If, LazyLoading
<1>4. Spared(ImageDimensions(d), ImageDimensions(e))
  BY DEF Sees, Arrives, Better, Spared, Pass, Fail, PassUnless, If, ImageDimensions
<1>5. Spared(ResponsiveImages(d), ResponsiveImages(e))
  BY DEF Sees, Arrives, Better, Spared, Pass, Fail, PassUnless, If, ResponsiveImages
<1>6. Spared(ImageFormats(d), ImageFormats(e))
  BY DEF Sees, Arrives, Better, Spared, Pass, Fail, PassUnless, If, ImageFormats
<1> QED BY <1>1, <1>2, <1>3, <1>4, <1>5, <1>6

LEMMA SocialSpared ==
  ASSUME NEW p, Sound(p), NEW q, Sound(q), Better(p, q), NEW d, Sees(d, p), NEW e, Sees(e, q)
  PROVE  /\ Spared(SocialMediaLinks(d), SocialMediaLinks(e))
         /\ Spared(FacebookDomain(d), FacebookDomain(e))
         /\ Spared(SocialImage(d), SocialImage(e))
<1>1. Spared(SocialMediaLinks(d), SocialMediaLinks(e))
  BY DEF Sees, Arrives, Better, Spared, Pass, Fail, PassUnless, If, SocialMediaLinks
<1>2. Spared(FacebookDomain(d), FacebookDomain(e))
  BY DEF Sees, Arrives, Better, Spared, Pass, Fail, PassUnless, If, FacebookDomain
<1>3. Spared(SocialImage(d), SocialImage(e))
  BY DEF Sees, Arrives, Better, Spared, Pass, Fail, PassUnless, If, SocialImage
<1> QED BY <1>1, <1>2, <1>3

LEMMA SecuritySpared ==
  ASSUME NEW p, Sound(p), NEW q, Sound(q), Better(p, q), NEW d, Sees(d, p), NEW e, Sees(e, q)
  PROVE  /\ Spared(HSTS(d), HSTS(e))
         /\ Spared(XSSProtection(d), XSSProtection(e))
<1>1. Spared(HSTS(d), HSTS(e))
  BY DEF Sees, Arrives, ArrivesAtAudit, ArrivesAtStream, Better, Spared, Pass, Fail, PassUnless,
     If, HSTS
<1>2. Spared(XSSProtection(d), XSSProtection(e))
  BY DEF Sees, Arrives, ArrivesAtAudit, ArrivesAtStream, Better, Spared, Pass, Fail, PassUnless,
     If, XSSProtection
<1> QED BY <1>1, <1>2

LEMMA AccessibilitySpared ==
  ASSUME NEW p, Sound(p), NEW q, Sound(q), Better(p, q), NEW d, Sees(d, p), NEW e, Sees(e, q)
  PROVE  /\ Spared(FormLabels(d), FormLabels(e))
<1>1. Spared(FormLabels(d), FormLabels(e))
  BY DEF Sees, Arrives, Better, Spared, Pass, Fail, PassUnless, If, FormLabels
<1> QED BY <1>1

LEMMA PerformanceSpared ==
  ASSUME NEW p, Sound(p), NEW q, Sound(q), Better(p, q), NEW d, Sees(d, p), NEW e, Sees(e, q)
  PROVE  /\ Spared(ResponseTime(d), ResponseTime(e))
         /\ Spared(HTMLSize(d), HTMLSize(e))
         /\ Spared(Minification(d), Minification(e))
         /\ Spared(ResourceCount(d), ResourceCount(e))
         /\ Spared(CacheHeaders(d), CacheHeaders(e))
         /\ Spared(Compression(d), Compression(e))
         /\ Spared(PageSize(d), PageSize(e))
         /\ Spared(JavaScriptErrors(d), JavaScriptErrors(e))
         /\ Spared(CoreWebVitals(d), CoreWebVitals(e))
<1>1. Spared(ResponseTime(d), ResponseTime(e))
  BY DEF Sees, Arrives, Better, Spared, Pass, Fail, PassUnless, If, ResponseTime
<1>2. Spared(HTMLSize(d), HTMLSize(e))
  BY DEF Sees, Arrives, Better, Spared, Pass, Fail, PassUnless, If, HTMLSize
<1>3. Spared(Minification(d), Minification(e))
  BY DEF Sees, Arrives, Better, Spared, Pass, Fail, PassUnless, If, Minification
<1>4. Spared(ResourceCount(d), ResourceCount(e))
  BY DEF Sees, Arrives, Better, Spared, Pass, Fail, PassUnless, If, ResourceCount
<1>5. Spared(CacheHeaders(d), CacheHeaders(e))
  BY DEF Sees, Arrives, ArrivesAtAudit, ArrivesAtStream, Better, Spared, Pass, Fail, PassUnless,
     If, CacheHeaders
<1>6. Spared(Compression(d), Compression(e))
  BY DEF Sees, Arrives, ArrivesAtAudit, ArrivesAtStream, Better, Spared, Pass, Fail, PassUnless,
     If, Compression
<1>7. Spared(PageSize(d), PageSize(e))
  BY DEF Sees, Arrives, Better, Spared, Pass, Fail, PassUnless, If, PageSize
<1>8. Spared(JavaScriptErrors(d), JavaScriptErrors(e))
  BY DEF Sees, Arrives, Better, Spared, Pass, Fail, PassUnless, If, JavaScriptErrors
<1>9. Spared(CoreWebVitals(d), CoreWebVitals(e))
  BY DEF Sees, Arrives, Better, Spared, Pass, Fail, PassUnless, If, CoreWebVitals
<1> QED BY <1>1, <1>2, <1>3, <1>4, <1>5, <1>6, <1>7, <1>8, <1>9

-----------------------------------------------------------------------------
(* Rules on what one repair may trade for another *)

\* Rules on texts that a repair leaves alone.
LEMMA TitleKept ==
  ASSUME NEW p, NEW q, NEW d, Sees(d, p), NEW e, Sees(e, q), q.title = p.title,
         q.word_count = p.word_count
  PROVE  TitleTag(d) = TitleTag(e)
<1>1. d.title = e.title /\ TitleIssues(d) = TitleIssues(e)
  BY DEF Sees, Arrives, TitleIssues
<1> QED BY <1>1 DEF TitleTag

LEMMA HeadingsKept ==
  ASSUME NEW p, NEW q, NEW d, Sees(d, p), NEW e, Sees(e, q), q.headings = p.headings,
         q.h1.count = p.h1.count, q.h1.long <=> p.h1.long
  PROVE  HeadingHierarchy(d) = HeadingHierarchy(e)
<1>1. d.h1.count = e.h1.count /\ (d.h1.long <=> e.h1.long)
  BY DEF Sees, Arrives
<1>2. /\ d.headings.h2 = e.headings.h2 /\ d.headings.h3 = e.headings.h3
      /\ d.headings.deeper = e.headings.deeper /\ d.headings.repeated = e.headings.repeated
      /\ d.headings.long = e.headings.long /\ d.headings.sequential /\ e.headings.sequential
      /\ ~d.headings.empty /\ ~e.headings.empty
  BY DEF Sees, Arrives
<1> QED BY <1>1, <1>2 DEF HeadingHierarchy, PassUnless, Pass, Fail, If

LEMMA WordsKept ==
  ASSUME NEW p, NEW q, NEW d, Sees(d, p), NEW e, Sees(e, q), q.word_count = p.word_count
  PROVE  WordCount(d) = WordCount(e) /\ DuplicateContent(d) = DuplicateContent(e)
<1>1. d.word_count = e.word_count /\ d.shop = e.shop
  BY DEF Sees, Arrives
<1>2. d.content_hash <=> e.content_hash
  BY DEF Sees, ArrivesAtAudit, ArrivesAtStream
<1>3. /\ d.canonical_url = {} /\ e.canonical_url = {}
      /\ d.duplicate_group_size = 0 /\ e.duplicate_group_size = 0
  BY DEF Sees, Arrives
<1>4. DuplicateContent(d) = DuplicateContent(e)
  BY <1>2, <1>3 DEF DuplicateContent, PassUnless, Pass, Fail, If
<1> QED BY <1>1, <1>4 DEF WordCount

\* Rules on structured data that a repair leaves alone.
LEMMA BlocksKept ==
  ASSUME NEW p, NEW q, NEW d, Sees(d, p), NEW e, Sees(e, q), q.schema_markup = p.schema_markup
  PROVE  /\ StructuredData(d) = StructuredData(e) /\ SchemaMarkup(d) = SchemaMarkup(e)
         /\ OrganizationSchema(d) = OrganizationSchema(e)
         /\ BreadcrumbSchema(d) = BreadcrumbSchema(e) /\ ArticleSchema(d) = ArticleSchema(e)
         /\ ProductSchema(d) = ProductSchema(e) /\ JsonLdFormat(d) = JsonLdFormat(e)
<1>1. d.schema_markup = e.schema_markup
  BY DEF Sees, Arrives
<1>2. d.formats = e.formats
  <2>1. CASE adapter = "audit"
    <3>1. /\ d.formats = {p.schema_markup[i].format : i \in DOMAIN p.schema_markup}
          /\ e.formats = {q.schema_markup[i].format : i \in DOMAIN q.schema_markup}
      BY <2>1 DEF Sees, ArrivesAtAudit
    <3> QED BY <3>1
  <2>2. CASE adapter # "audit"
    <3>1. d.formats = {} /\ e.formats = {}
      BY <2>2 DEF Sees, ArrivesAtStream
    <3> QED BY <3>1
  <2> QED BY <2>1, <2>2
<1>3. \A wanted : Looks(d, wanted) = Looks(e, wanted)
  BY <1>1 DEF Looks
<1>4. /\ OrganizationSchema(d) = OrganizationSchema(e)
      /\ BreadcrumbSchema(d) = BreadcrumbSchema(e) /\ ArticleSchema(d) = ArticleSchema(e)
      /\ ProductSchema(d) = ProductSchema(e)
  BY <1>3 DEF OrganizationSchema, BreadcrumbSchema, ArticleSchema, ProductSchema
<1>5. StructuredData(d) = StructuredData(e) /\ SchemaMarkup(d) = SchemaMarkup(e)
  BY <1>1 DEF StructuredData, SchemaMarkup, JoinRaises
<1>6. JsonLdFormat(d) = JsonLdFormat(e)
  BY <1>1, <1>2 DEF JsonLdFormat
<1> QED BY <1>4, <1>5, <1>6

\* A title as it is recommended has no issues.
LEMMA SoundTitles ==
  ASSUME NEW d, ~d.keyword.given, NEW n \in Nat, d.title = SoundTitle(n)
  PROVE  TitleTag(d) = Pass(0)
<1>1. /\ d.title.length \in 30 .. 60 /\ d.title.generic = FALSE /\ d.title.onTopic = TRUE
      /\ d.title.wide = FALSE
  BY DEF SoundTitle, Sized
<1>2. LengthStatus(d.title.length) \in {"short", "recommended"}
  BY <1>1 DEF LengthStatus
<1>3. TitleIssues(d) = {}
  BY <1>1, <1>2 DEF TitleIssues
<1> QED BY <1>1, <1>3 DEF TitleTag, TitleVerdict, PassUnless

\* The gravest issue decides.
LEMMA TitlePenalty ==
  ASSUME NEW d
  PROVE  /\ d.title.length = 0 => TitleTag(d).impact = -8
         /\ d.title.length # 0 /\ d.title.generic => TitleTag(d).impact = -4
         /\ d.title.length # 0 /\ ~d.title.generic => TitleTag(d).impact \in {-3, -2, -1, 0}
         /\ ~TitleTag(d).passed => TitleTag(d).impact \in {-8, -4, -3, -2, -1}
<1>1. "generic" \in TitleIssues(d) <=> d.title.generic
  BY DEF TitleIssues
<1> QED BY <1>1 DEF TitleTag, TitleVerdict, PassUnless, Pass, Fail

\* An H1 that ceases to repeat the title costs a point.
LEMMA H1Penalty ==
  ASSUME NEW d
  PROVE  /\ d.h1.count = 0 => H1Tag(d).impact = -10
         /\ d.h1.count > 1 => H1Tag(d).impact = -5
         /\ d.h1.count # 0 /\ ~(d.h1.count > 1) =>
              /\ d.h1.long => H1Tag(d).impact \in {-3, -2}
              /\ ~d.h1.long => H1Tag(d).impact \in {-1, 0}
              /\ ~d.h1.long /\ d.h1.echoesTitle => H1Tag(d).impact = 0
BY DEF H1Tag, PassUnless, Pass, Fail, If

\* Headings as they are recommended pass; what others cost.
LEMMA SoundHeadings ==
  ASSUME NEW d, d.h1.count \in 1 .. 3, ~d.h1.long, d.headings.h2 \in 1 .. 10, d.headings.h3 \in 0 .. 5,
         d.headings.deeper = 0, d.headings.sequential, ~d.headings.empty, ~d.headings.repeated,
         ~d.headings.long
  PROVE  HeadingHierarchy(d) = Pass(0)
<1>1. d.h1.count + d.headings.h2 + d.headings.h3 + d.headings.deeper <= 20
  OBVIOUS
<1> QED BY <1>1 DEF HeadingHierarchy, PassUnless, Pass, Fail, If

LEMMA HeadingPenalty ==
  ASSUME NEW d
  PROVE  ~HeadingHierarchy(d).passed => HeadingHierarchy(d).impact \in Int /\ HeadingHierarchy(d).impact <= -1
BY DEF HeadingHierarchy, PassUnless, Pass, Fail, If

\* One H1 instead of none or several, or a shorter one, and the hierarchy is no worse.
LEMMA OneH1 ==
  ASSUME NEW d, NEW e, d.h1.count \in Nat, d.headings.h2 \in Nat, d.headings.h3 \in Nat, d.headings.deeper \in Nat,
         e.headings.h2 = d.headings.h2, e.headings.h3 = d.headings.h3,
         e.headings.deeper = d.headings.deeper, d.headings.sequential, e.headings.sequential,
         ~d.headings.empty, ~e.headings.empty, e.headings.repeated <=> d.headings.repeated,
         e.headings.long <=> d.headings.long, e.h1.count = 1, e.h1.long => d.h1.long
  PROVE  Spared(HeadingHierarchy(d), HeadingHierarchy(e))
BY DEF HeadingHierarchy, PassUnless, Pass, Fail, If, Spared

\* The blocks t are the blocks s, some of them now in JSON-LD, and maybe more.
Extends(s, t) ==
  /\ s \in Seq(Block) /\ t \in Seq(Block) /\ s # <<>> /\ DOMAIN s \subseteq DOMAIN t
  /\ \A i \in DOMAIN s : t[i].type = s[i].type /\ t[i].format \in {s[i].format, "json-ld"}

\* Who looks for JSON-LD finds as much.
LEMMA LooksFurther ==
  ASSUME NEW d, NEW e, Extends(d.schema_markup, e.schema_markup), NEW types, NEW F, "json-ld" \in F
  PROVE  Spared(Looks(d, [type : types, format : F]), Looks(e, [type : types, format : F]))
<1> DEFINE s == d.schema_markup
           t == e.schema_markup
           wanted == [type : types, format : F]
           Clear(u, i) == \A j \in 1 .. i - 1 : u[j] \notin wanted /\ u[j].type # "list"
           Blocked(u) == \E i \in DOMAIN u : Clear(u, i) /\ u[i].type = "list"
           Lacks(u) == \A i \in DOMAIN u : u[i] \notin wanted
           Told(u) == IF u = <<>> THEN Pass(0) ELSE IF Blocked(u) THEN Raised ELSE PassUnless(Lacks(u), 1)
<1>1. Looks(d, wanted) = Told(s) /\ Looks(e, wanted) = Told(t)
  BY DEF Looks
<1>2. s # <<>> /\ DOMAIN s = 1 .. Len(s) /\ Len(s) \in Nat /\ DOMAIN s \subseteq DOMAIN t
  BY DEF Extends
<1>3. \A i \in DOMAIN s : t[i].type = s[i].type /\ (s[i] \in wanted => t[i] \in wanted)
  <2> TAKE i \in DOMAIN s
  <2>1. s[i] \in Block /\ t[i] \in Block /\ t[i].type = s[i].type /\ t[i].format \in {s[i].format, "json-ld"}
    BY <1>2 DEF Extends
  <2>2. t[i] = [type |-> t[i].type, format |-> t[i].format]
    BY <2>1 DEF Block
  <2>3. s[i] \in wanted => t[i] \in wanted
    <3> SUFFICES ASSUME s[i] \in wanted PROVE t[i] \in wanted
      OBVIOUS
    <3>1. s[i].type \in types /\ s[i].format \in F
      OBVIOUS
    <3>2. t[i].type \in types /\ t[i].format \in F
      BY <2>1, <3>1
    <3> QED BY <2>2, <3>2
  <2> QED BY <2>1, <2>3
<1> HIDE DEF s, t, wanted
<1>4. Lacks(t) => Lacks(s)
  BY <1>2, <1>3
<1>5. Lacks(t) /\ Blocked(s) => Blocked(t)
  <2> SUFFICES ASSUME Lacks(t), NEW i \in DOMAIN s, Clear(s, i), s[i].type = "list" PROVE Blocked(t)
    OBVIOUS
  <2>1. i \in DOMAIN t /\ t[i].type = "list"
    BY <1>2, <1>3
  <2>2. Clear(t, i)
    <3> TAKE j \in 1 .. i - 1
    <3>1. j \in DOMAIN s
      BY <1>2
    <3> QED BY <1>2, <1>3, <3>1
  <2> QED BY <2>1, <2>2
<1> HIDE DEF Clear, Lacks, Blocked
<1>6. Spared(Told(s), Told(t))
  BY <1>2, <1>4, <1>5 DEF Pass, Raised, PassUnless, Fail, Spared
<1> HIDE DEF Told
<1> QED BY <1>1, <1>6 DEF wanted

\* A look costs a point at most.
LEMMA LookPenalty ==
  ASSUME NEW d, NEW wanted
  PROVE  Looks(d, wanted).impact \in {-1, 0} /\ (d.schema_markup = <<>> => Looks(d, wanted).impact = 0)
BY DEF Looks, Pass, Raised, PassUnless, Fail

InJsonLd(t) == \E i \in DOMAIN t : t[i].format = "json-ld"

LEMMA BlocksExtended ==
  ASSUME NEW d, NEW e, Extends(d.schema_markup, e.schema_markup), InJsonLd(e.schema_markup)
  PROVE  /\ Spared(StructuredData(d), StructuredData(e)) /\ Spared(SchemaMarkup(d), SchemaMarkup(e))
         /\ Spared(OrganizationSchema(d), OrganizationSchema(e))
         /\ Spared(BreadcrumbSchema(d), BreadcrumbSchema(e))
         /\ Spared(ArticleSchema(d), ArticleSchema(e)) /\ Spared(ProductSchema(d), ProductSchema(e))
         /\ Spared(JsonLdFormat(d), JsonLdFormat(e))
<1>1. "json-ld" \in {"json-ld"} /\ "json-ld" \in Format
  BY DEF Format
<1>2. /\ Spared(OrganizationSchema(d), OrganizationSchema(e))
      /\ Spared(ArticleSchema(d), ArticleSchema(e)) /\ Spared(ProductSchema(d), ProductSchema(e))
  BY <1>1, LooksFurther, Zenon DEF OrganizationSchema, ArticleSchema, ProductSchema, Named
<1>3. Spared(BreadcrumbSchema(d), BreadcrumbSchema(e))
  BY <1>1, LooksFurther, Zenon DEF BreadcrumbSchema
<1>4. d.schema_markup # <<>> /\ e.schema_markup # <<>>
  BY DEF Extends, InJsonLd
<1>5. Spared(StructuredData(d), StructuredData(e)) /\ Spared(SchemaMarkup(d), SchemaMarkup(e))
  BY <1>4 DEF StructuredData, SchemaMarkup, Pass, Raised, Spared
<1>6. Spared(JsonLdFormat(d), JsonLdFormat(e))
  BY DEF JsonLdFormat, InJsonLd, Pass, PassUnless, Fail, Spared
<1> QED BY <1>2, <1>3, <1>5, <1>6

\* The first block: two rules gain five points, and those that look for a type may lose one.
LEMMA FirstBlock ==
  ASSUME NEW d, NEW e, d.schema_markup = <<>>, e.schema_markup # <<>>, InJsonLd(e.schema_markup)
  PROVE  /\ Spared(StructuredData(d), StructuredData(e))
         /\ SchemaMarkup(d).impact = -5 /\ SchemaMarkup(e).impact = 0
         /\ \A x \in {OrganizationSchema(d), BreadcrumbSchema(d), ArticleSchema(d), ProductSchema(d)} :
              x.impact = 0
         /\ \A x \in {OrganizationSchema(e), BreadcrumbSchema(e), ArticleSchema(e), ProductSchema(e)} :
              x.impact \in {-1, 0}
         /\ Spared(JsonLdFormat(d), JsonLdFormat(e))
<1>1. /\ \A x \in {OrganizationSchema(d), BreadcrumbSchema(d), ArticleSchema(d), ProductSchema(d)} :
              x.impact = 0
      /\ \A x \in {OrganizationSchema(e), BreadcrumbSchema(e), ArticleSchema(e), ProductSchema(e)} :
              x.impact \in {-1, 0}
  BY LookPenalty DEF OrganizationSchema, BreadcrumbSchema, ArticleSchema, ProductSchema
<1>2. Spared(StructuredData(d), StructuredData(e)) /\ SchemaMarkup(d).impact = -5 /\ SchemaMarkup(e).impact = 0
  BY DEF StructuredData, SchemaMarkup, Pass, Raised, Fail, Spared
<1>3. Spared(JsonLdFormat(d), JsonLdFormat(e))
  BY DEF JsonLdFormat, InJsonLd, Pass, PassUnless, Fail, Spared
<1> QED BY <1>1, <1>2, <1>3

\* Every page has a verdict of every rule.
LEMMA VerdictsComplete ==
  ASSUME NEW p, Sound(p), NEW d, Sees(d, p)
  PROVE  Complete(Verdicts(d))
<1>1. Counts(d)
  <2>1. /\ p.broken \in Nat /\ p.internal \in Nat /\ p.external \in Nat /\ p.images.without_alt \in Nat
        /\ p.path \in SUBSET {"missing", "underscore", "space", "long"}
    BY Counted
  <2>2. d.broken \in Nat
    BY <2>1 DEF Sees, ArrivesAtAudit, ArrivesAtStream
  <2>3. /\ d.generic = p.internal + p.external /\ d.js_errors = 0 /\ d.path = p.path
        /\ d.images.without_alt = p.images.without_alt
    BY DEF Sees, Arrives
  <2> QED BY <2>1, <2>2, <2>3 DEF Counts
<1> SUFFICES ASSUME NEW r \in Rule PROVE Verdicts(d)[r] # Missing /\ Verdicts(d)[r].impact \in Int
  BY DEF Complete
<1>2. Verdicts(d)[r] \in [passed : BOOLEAN, impact : Int, error : BOOLEAN]
  BY <1>1, VerdictsSigned DEF Signed
<1> QED BY <1>2, SomeVerdict

\* The rules that a repair may trade, and their categories.
LEMMA Judges ==
  /\ {"TitleTag", "H1Tag", "HeadingHierarchy"} \subseteq Judging("on_page")
  /\ {"WordCount", "DuplicateContent"} \subseteq Judging("content")
  /\ {"SchemaMarkup", "OrganizationSchema", "BreadcrumbSchema", "ArticleSchema", "ProductSchema"}
       \subseteq Judging("schema")
<1>1. ASSUME NEW k \in Category, NEW r \in Registered[k], \A c \in Category : r \in Registered[c] => c = k
      PROVE  r \in Judging(k)
  <2>1. r \in Rule
    BY <1>1 DEF Rule
  <2>2. CategoryOf[r] = CHOOSE c \in Category : r \in Registered[c]
    BY <2>1 DEF CategoryOf
  <2> QED BY <1>1, <2>1, <2>2 DEF Judging
<1>2. \A r \in {"TitleTag", "H1Tag", "HeadingHierarchy"} :
        "on_page" \in Category /\ r \in Registered["on_page"] /\ \A c \in Category : r \in Registered[c] => c = "on_page"
  BY DEF Category, Registered
<1>3. \A r \in {"WordCount", "DuplicateContent"} :
        "content" \in Category /\ r \in Registered["content"] /\ \A c \in Category : r \in Registered[c] => c = "content"
  BY DEF Category, Registered
<1>4. \A r \in {"SchemaMarkup", "OrganizationSchema", "BreadcrumbSchema", "ArticleSchema",
                "ProductSchema"} :
        "schema" \in Category /\ r \in Registered["schema"] /\ \A c \in Category : r \in Registered[c] => c = "schema"
  BY DEF Category, Registered
<1> QED BY <1>1, <1>2, <1>3, <1>4

\* A rule that gains as many points as others of its category lose costs the page nothing.
LEMMA TradeCosts ==
  ASSUME NEW v, Complete(v), NEW w, Complete(w), NEW k \in Category, NEW a \in Judging(k),
         NEW L \in SUBSET Judging(k), IsFiniteSet(L), a \notin L,
         w[a].impact >= v[a].impact + Cardinality(L),
         \A x \in L : w[x].impact >= v[x].impact - 1,
         \A x \in Rule \ (L \cup {a}) : Spared(v[x], w[x])
  PROVE  PageScore(v) <= PageScore(w)
<1>1. ASSUME NEW c \in Category
      PROVE  /\ CategoryScore(v, c) \in Int /\ CategoryScore(w, c) \in Int
             /\ CategoryScore(v, c) <= CategoryScore(w, c)
  <2>1. L \cap Judging(c) # {} => a \in Judging(c)
    BY DEF Judging
  <2>2. \A x \in Judging(c) \ (L \cup {a}) : w[x].impact >= v[x].impact
    <3> TAKE x \in Judging(c) \ (L \cup {a})
    <3>1. x \in Rule /\ v[x].impact <= w[x].impact
      BY DEF Judging, Spared
    <3> QED BY <3>1 DEF Complete
  <2>3. \A x \in Judging(c) \cap L : w[x].impact >= v[x].impact - 1
    OBVIOUS
  <2> QED BY <2>1, <2>2, <2>3, CategoryTrade
<1>2. "on_page" \in Category /\ "content" \in Category
  BY DEF Category, Registered
<1>3. Weight["content"] = 20 /\ Weight["on_page"] = 20
  BY DEF Weight
<1>4. /\ CategoryScore(w, "content") * Weight["content"] >= CategoryScore(v, "content") * Weight["content"] + 0
      /\ CategoryScore(w, "on_page") * Weight["on_page"] >= CategoryScore(v, "on_page") * Weight["on_page"] - 0
  BY <1>1, <1>2, <1>3
<1>5. \A c \in Category \ {"content", "on_page"} : CategoryScore(w, c) >= CategoryScore(v, c)
  BY <1>1
<1>6. \A c \in Category : CategoryScore(v, c) \in Int /\ CategoryScore(w, c) \in Int
  BY <1>1
<1> QED BY <1>2, <1>4, <1>5, <1>6, PageTrade, 0 \in Nat, "content" # "on_page"

LEMMA NothingLost ==
  ASSUME NEW v, Complete(v), NEW w, Complete(w), \A x \in Rule : Spared(v[x], w[x])
  PROVE  PageScore(v) <= PageScore(w)
<1>1. "TitleTag" \in Judging("on_page") /\ "on_page" \in Category
  BY Judges DEF Category, Registered
<1>2. IsFiniteSet({}) /\ Cardinality({}) = 0
  BY FS_EmptySet
<1>3. w["TitleTag"].impact >= v["TitleTag"].impact + Cardinality({})
  BY <1>1, <1>2 DEF Complete, Spared, Judging
<1> QED BY <1>1, <1>2, <1>3, TradeCosts

\* Rules that lose by some repair what others gain by it.
TradedTexts == {"TitleTag", "H1Tag", "HeadingHierarchy", "WordCount", "DuplicateContent"}
TradedBlocks == {"StructuredData", "SchemaMarkup", "OrganizationSchema", "BreadcrumbSchema",
                 "ArticleSchema", "ProductSchema", "JsonLdFormat"}
Traded == TradedTexts \cup TradedBlocks

\* p repaired, with what the rules see of it before and after.
Repaired(p, q, d, e) == Sound(p) /\ Sound(q) /\ Better(p, q) /\ Sees(d, p) /\ Sees(e, q)

LEMMA OthersSpared ==
  ASSUME NEW p, NEW q, NEW d, NEW e, Repaired(p, q, d, e), NEW r \in Rule \ Traded
  PROVE  Spared(Verdicts(d)[r], Verdicts(e)[r])
<1> USE DEF Repaired
<1> SUFFICES ASSUME NEW c \in Category, r \in Registered[c]
             PROVE  Spared(Verdicts(d)[r], Verdicts(e)[r])
  BY DEF Rule
<1> USE DEF TradedTexts, TradedBlocks
<1>1. CASE c = "on_page"
  <2>1. r \in {"MetaDescription", "MetaKeywords", "CanonicalUrl", "RobotsMeta", "OpenGraph",
            "TwitterCards"}
    BY <1>1 DEF Registered, Traded
  <2> QED BY <2>1, OnPageSpared DEF Verdicts
<1>2. CASE c = "technical"
  <2>1. r \in {"SSL_Certificate", "MobileViewport", "LanguageDeclaration", "Charset", "Doctype",
            "SecurityHeaders", "RobotsTxt", "Sitemap", "Url", "Mobile", "HttpStatus",
            "Hreflang"}
    BY <1>2 DEF Registered, Traded
  <2> QED BY <2>1, TechnicalSpared DEF Verdicts
<1>3. CASE c = "content"
  <2>1. r \in {"ReadingTime", "ParagraphCount", "TextHtmlRatio", "KeywordInContent",
            "ContentFreshness", "DuplicateTitles", "DuplicateDescriptions", "DuplicateH1s"}
    BY <1>3 DEF Registered, Traded
  <2> QED BY <2>1, ContentSpared DEF Verdicts
<1>4. CASE c = "links"
  <2>1. r \in {"InternalLinks", "ExternalLinks", "BrokenLinks", "AnchorText", "NofollowLinks"}
    BY <1>4 DEF Registered, Traded
  <2> QED BY <2>1, LinksSpared DEF Verdicts
<1>5. CASE c = "images"
  <2>1. r \in {"ImageAltText", "ImageSize", "LazyLoading", "ImageDimensions", "ResponsiveImages",
            "ImageFormats"}
    BY <1>5 DEF Registered, Traded
  <2> QED BY <2>1, ImagesSpared DEF Verdicts
<1>6. CASE c = "schema"
  BY <1>6 DEF Registered, Traded
<1>7. CASE c = "social"
  <2>1. r \in {"SocialMediaLinks", "FacebookDomain", "SocialImage"}
    BY <1>7 DEF Registered, Traded
  <2> QED BY <2>1, SocialSpared DEF Verdicts
<1>8. CASE c = "security"
  <2>1. r \in {"HSTS", "XSSProtection"}
    BY <1>8 DEF Registered, Traded
  <2> QED BY <2>1, SecuritySpared DEF Verdicts
<1>9. CASE c = "accessibility"
  <2>1. r \in {"FormLabels"}
    BY <1>9 DEF Registered, Traded
  <2> QED BY <2>1, AccessibilitySpared DEF Verdicts
<1>10. CASE c = "performance"
  <2>1. r \in {"ResponseTime", "HTMLSize", "Minification", "ResourceCount", "CacheHeaders",
            "Compression", "PageSize", "JavaScriptErrors", "CoreWebVitals"}
    BY <1>10 DEF Registered, Traded
  <2> QED BY <2>1, PerformanceSpared DEF Verdicts
<1> QED BY <1>1, <1>2, <1>3, <1>4, <1>5, <1>6, <1>7, <1>8, <1>9, <1>10 DEF Category, Registered

SameTexts(p, q) ==
  q.title = p.title /\ q.h1 = p.h1 /\ q.headings = p.headings /\ q.word_count = p.word_count

LEMMA SameTextsSpared ==
  ASSUME NEW p, NEW q, NEW d, NEW e, Repaired(p, q, d, e), SameTexts(p, q), NEW r \in TradedTexts
  PROVE  Spared(Verdicts(d)[r], Verdicts(e)[r])
<1>1. Verdicts(d)[r] = Verdicts(e)[r]
  <2>1. H1Tag(d) = H1Tag(e)
    BY DEF Repaired, Sees, Arrives, SameTexts, H1Tag
  <2> QED BY <2>1, TitleKept, HeadingsKept, WordsKept DEF Verdicts, TradedTexts, Repaired, SameTexts
<1>2. r \in Rule
  BY Judges DEF TradedTexts, Judging
<1>3. Verdicts(d)[r].impact \in Int
  BY <1>2, VerdictsComplete DEF Repaired, Complete
<1> HIDE DEF Verdicts
<1> QED BY <1>1, <1>3 DEF Spared

\* What becomes of the structured data, short of a first block.
KeptBlocks(p, q) ==
  \/ q.schema_markup = p.schema_markup
  \/ Extends(p.schema_markup, q.schema_markup) /\ InJsonLd(q.schema_markup)

LEMMA KeptBlocksSpared ==
  ASSUME NEW p, NEW q, NEW d, NEW e, Repaired(p, q, d, e), KeptBlocks(p, q),
         NEW r \in Rule \cap TradedBlocks
  PROVE  Spared(Verdicts(d)[r], Verdicts(e)[r])
<1>1. CASE q.schema_markup = p.schema_markup
  <2>1. Verdicts(d)[r] = Verdicts(e)[r]
    BY <1>1, BlocksKept DEF Verdicts, TradedBlocks, Repaired
  <2>2. Verdicts(d)[r].impact \in Int
    BY VerdictsComplete DEF Repaired, Complete
  <2> QED BY <2>1, <2>2 DEF Spared
<1>2. CASE Extends(p.schema_markup, q.schema_markup) /\ InJsonLd(q.schema_markup)
  <2>1. d.schema_markup = p.schema_markup /\ e.schema_markup = q.schema_markup
    BY DEF Repaired, Sees, Arrives
  <2> QED BY <1>2, <2>1, BlocksExtended DEF Verdicts, TradedBlocks
<1> QED BY <1>1, <1>2 DEF KeptBlocks

-----------------------------------------------------------------------------
(* What the repairs cost *)

Costless(d, e) == PageScore(Verdicts(d)) <= PageScore(Verdicts(e))

LEMMA KeepingCosts ==
  ASSUME NEW p, NEW q, NEW d, NEW e, Repaired(p, q, d, e), SameTexts(p, q), KeptBlocks(p, q)
  PROVE  Costless(d, e)
<1>1. \A r \in Rule : Spared(Verdicts(d)[r], Verdicts(e)[r])
  BY OthersSpared, SameTextsSpared, KeptBlocksSpared DEF Traded
<1>2. Complete(Verdicts(d)) /\ Complete(Verdicts(e))
  BY VerdictsComplete DEF Repaired
<1> QED BY <1>1, <1>2, NothingLost DEF Costless

LEMMA BlockCosts ==
  ASSUME NEW p, NEW q, NEW d, NEW e, Repaired(p, q, d, e), SameTexts(p, q),
         p.schema_markup = <<>>, q.schema_markup # <<>>, InJsonLd(q.schema_markup)
  PROVE  Costless(d, e)
<1> DEFINE v == Verdicts(d)
           w == Verdicts(e)
           L == {"OrganizationSchema", "BreadcrumbSchema", "ArticleSchema", "ProductSchema"}
<1>1. Complete(v) /\ Complete(w)
  BY VerdictsComplete DEF Repaired
<1>2. d.schema_markup = <<>> /\ e.schema_markup # <<>> /\ InJsonLd(e.schema_markup)
  BY DEF Repaired, Sees, Arrives
<1>3. /\ Spared(v["StructuredData"], w["StructuredData"])
      /\ v["SchemaMarkup"].impact = -5 /\ w["SchemaMarkup"].impact = 0
      /\ \A x \in L : v[x].impact = 0 /\ w[x].impact \in {-1, 0}
      /\ Spared(v["JsonLdFormat"], w["JsonLdFormat"])
  BY <1>2, FirstBlock DEF Verdicts
<1>4. \A r \in Rule \ TradedBlocks : Spared(v[r], w[r])
  BY OthersSpared, SameTextsSpared DEF Traded
<1>5. L \subseteq Judging("schema") /\ "SchemaMarkup" \in Judging("schema") /\ "schema" \in Category
  BY Judges DEF Category, Registered
<1>6. IsFiniteSet(L) /\ Cardinality(L) \in Nat /\ Cardinality(L) <= 4 /\ "SchemaMarkup" \notin L
  BY FewFinite
<1>7. \A x \in Rule \ (L \cup {"SchemaMarkup"}) : Spared(v[x], w[x])
  <2> HIDE DEF v, w
  <2> QED BY <1>3, <1>4 DEF TradedBlocks
<1> HIDE DEF v, w, L
<1>8. w["SchemaMarkup"].impact >= v["SchemaMarkup"].impact + Cardinality(L)
  BY <1>3, <1>6
<1>9. \A x \in L : w[x].impact >= v[x].impact - 1
  BY <1>3
<1> QED BY <1>1, <1>5, <1>6, <1>7, <1>8, <1>9, TradeCosts DEF Costless, v, w

\* Of the texts only the title and the H1 are looked at by the rules that are left.
LEMMA OtherTextsSpared ==
  ASSUME NEW p, NEW q, NEW d, NEW e, Repaired(p, q, d, e), KeptBlocks(p, q), q.word_count = p.word_count,
         NEW r \in Rule \ {"TitleTag", "H1Tag", "HeadingHierarchy"}
  PROVE  Spared(Verdicts(d)[r], Verdicts(e)[r])
<1>1. Complete(Verdicts(d))
  BY VerdictsComplete DEF Repaired
<1>2. CASE r \in {"WordCount", "DuplicateContent"}
  <2>1. Verdicts(d)[r] = Verdicts(e)[r]
    BY <1>2, WordsKept DEF Verdicts, Repaired
  <2>2. Verdicts(d)[r].impact \in Int
    BY <1>1 DEF Complete
  <2> QED BY <2>1, <2>2 DEF Spared
<1>3. CASE r \in TradedBlocks
  BY <1>3, KeptBlocksSpared
<1>4. CASE r \notin Traded
  BY <1>4, OthersSpared
<1> QED BY <1>2, <1>3, <1>4 DEF Traded, TradedTexts

\* Of the rules on titles and headings, a gains a point and the one on the H1 may lose it.
LEMMA HeadlineCosts ==
  ASSUME NEW p, NEW q, NEW d, NEW e, Repaired(p, q, d, e), KeptBlocks(p, q), q.word_count = p.word_count,
         NEW a \in {"TitleTag", "HeadingHierarchy"},
         Verdicts(e)[a].impact >= Verdicts(d)[a].impact + 1,
         H1Tag(e).impact >= H1Tag(d).impact - 1,
         \A r \in {"TitleTag", "HeadingHierarchy"} \ {a} : Spared(Verdicts(d)[r], Verdicts(e)[r])
  PROVE  Costless(d, e)
<1> DEFINE v == Verdicts(d)
           w == Verdicts(e)
           L == {"H1Tag"}
<1>1. Complete(v) /\ Complete(w)
  BY VerdictsComplete DEF Repaired
<1>2. v["H1Tag"] = H1Tag(d) /\ w["H1Tag"] = H1Tag(e)
  BY DEF Verdicts
<1>3. \A r \in Rule \ {"TitleTag", "H1Tag", "HeadingHierarchy"} : Spared(v[r], w[r])
  BY OtherTextsSpared
<1>4. \A x \in Rule \ (L \cup {a}) : Spared(v[x], w[x])
  <2> HIDE DEF v, w
  <2> QED BY <1>3 DEF v, w
<1>5. IsFiniteSet(L) /\ Cardinality(L) = 1 /\ a \notin L
  BY FS_Singleton
<1>6. L \in SUBSET Judging("on_page") /\ a \in Judging("on_page") /\ "on_page" \in Category
  BY Judges DEF Category, Registered
<1>7. \A x \in L : w[x].impact >= v[x].impact - 1
  BY <1>2
<1>8. w[a].impact >= v[a].impact + Cardinality(L)
  BY <1>5
<1> HIDE DEF v, w, L
<1> QED BY <1>1, <1>4, <1>5, <1>6, <1>7, <1>8, TradeCosts DEF Costless, v, w

\* A title as it is recommended, which the H1 repeats or does not.
LEMMA TitleCosts ==
  ASSUME NEW p, NEW q, NEW d, NEW e, Repaired(p, q, d, e), KeptBlocks(p, q), q.word_count = p.word_count,
         ~TitleTag(d).passed, NEW n \in Nat, q.title = SoundTitle(n),
         q.h1.count = p.h1.count, q.h1.long <=> p.h1.long, q.headings = p.headings
  PROVE  Costless(d, e)
<1>1. TitleTag(d).impact \in Int /\ TitleTag(d).impact <= -1
  BY TitlePenalty
<1>2. TitleTag(e) = Pass(0)
  <2>1. ~e.keyword.given /\ e.title = SoundTitle(n)
    BY DEF Repaired, Sees, Arrives
  <2> QED BY <2>1, SoundTitles
<1>3. e.h1.count = d.h1.count /\ (e.h1.long <=> d.h1.long) /\ d.h1.count \in Nat
  BY Counted DEF Repaired, Sees, Arrives
<1>4. H1Tag(e).impact >= H1Tag(d).impact - 1
  BY <1>3, H1Penalty
<1>5. HeadingHierarchy(d) = HeadingHierarchy(e)
  BY HeadingsKept DEF Repaired
<1>6. Complete(Verdicts(d)) /\ "HeadingHierarchy" \in Rule
  BY VerdictsComplete, Judges DEF Repaired, Judging
<1>7. Verdicts(d)["HeadingHierarchy"].impact \in Int
  BY <1>6 DEF Complete
<1>8. /\ Verdicts(d)["HeadingHierarchy"] = Verdicts(e)["HeadingHierarchy"]
      /\ Verdicts(d)["TitleTag"] = TitleTag(d) /\ Verdicts(e)["TitleTag"] = Pass(0)
  BY <1>2, <1>5 DEF Verdicts
<1>9. Verdicts(e)["TitleTag"].impact >= Verdicts(d)["TitleTag"].impact + 1
  BY <1>1, <1>8 DEF Pass
<1>10. Spared(Verdicts(d)["HeadingHierarchy"], Verdicts(e)["HeadingHierarchy"])
  BY <1>7, <1>8 DEF Spared
<1> QED BY <1>4, <1>9, <1>10, HeadlineCosts

\* Headings as they are recommended.
LEMMA HeadingCosts ==
  ASSUME NEW p, NEW q, NEW d, NEW e, Repaired(p, q, d, e), KeptBlocks(p, q), q.word_count = p.word_count,
         ~HeadingHierarchy(d).passed, q.title = p.title, q.h1.count \in 1 .. 3, ~q.h1.long,
         p.h1.count \in {0, 1} => q.h1.count = 1, p.h1.count > 1 => q.h1.count > 1,
         q.headings.h2 \in 1 .. 10, q.headings.h3 \in 0 .. 5, q.headings.deeper = 0,
         ~q.headings.repeated, ~q.headings.long
  PROVE  Costless(d, e)
<1>1. d.h1 = p.h1 /\ e.h1 = q.h1 /\ p.h1.count \in Nat /\ d.title = p.title /\ e.title = p.title
  BY Counted DEF Repaired, Sees, Arrives
<1>2. HeadingHierarchy(d).impact \in Int /\ HeadingHierarchy(d).impact <= -1
  BY HeadingPenalty
<1>3. HeadingHierarchy(e) = Pass(0)
  <2>1. /\ e.headings.h2 \in 1 .. 10 /\ e.headings.h3 \in 0 .. 5 /\ e.headings.deeper = 0
        /\ ~e.headings.repeated /\ ~e.headings.long /\ e.headings.sequential /\ ~e.headings.empty
    BY DEF Repaired, Sees, Arrives
  <2> QED BY <1>1, <2>1, SoundHeadings
<1>4. H1Tag(e).impact >= H1Tag(d).impact - 1
  <2>1. CASE p.h1.count = 0
    BY <1>1, <2>1, H1Penalty
  <2>2. CASE p.h1.count = 1
    BY <1>1, <2>2, H1Penalty
  <2>3. CASE p.h1.count > 1
    BY <1>1, <2>3, H1Penalty
  <2> QED BY <1>1, <2>1, <2>2, <2>3
<1>5. Complete(Verdicts(d)) /\ "TitleTag" \in Rule
  BY VerdictsComplete, Judges DEF Repaired, Judging
<1>6. TitleTag(d) = TitleTag(e)
  BY TitleKept DEF Repaired
<1>7. Verdicts(d)["TitleTag"].impact \in Int
  BY <1>5 DEF Complete
<1>8. /\ Verdicts(d)["TitleTag"] = Verdicts(e)["TitleTag"]
      /\ Verdicts(d)["HeadingHierarchy"] = HeadingHierarchy(d) /\ Verdicts(e)["HeadingHierarchy"] = Pass(0)
  BY <1>3, <1>6 DEF Verdicts
<1>9. Verdicts(e)["HeadingHierarchy"].impact >= Verdicts(d)["HeadingHierarchy"].impact + 1
  BY <1>2, <1>8 DEF Pass
<1>10. Spared(Verdicts(d)["TitleTag"], Verdicts(e)["TitleTag"])
  BY <1>7, <1>8 DEF Spared
<1> QED BY <1>4, <1>9, <1>10, HeadlineCosts

\* One H1 that is not too long and repeats the title, or one where there were none or several.
LEMMA H1Costs ==
  ASSUME NEW p, NEW q, NEW d, NEW e, Repaired(p, q, d, e), KeptBlocks(p, q), q.word_count = p.word_count,
         q.title = p.title, q.headings = p.headings, q.h1.count = 1, q.h1.long => p.h1.long,
         p.h1.count = 1 => ~q.h1.long /\ q.h1.echoesTitle
  PROVE  Costless(d, e)
<1>1. d.h1 = p.h1 /\ e.h1 = q.h1 /\ p.h1.count \in Nat /\ d.title = p.title /\ e.title = p.title
  BY Counted DEF Repaired, Sees, Arrives
<1>2. Spared(H1Tag(d), H1Tag(e))
  <2>1. CASE p.h1.count = 0
    BY <1>1, <2>1, H1Penalty DEF Spared
  <2>2. CASE p.h1.count = 1
    BY <1>1, <2>2, H1Penalty DEF Spared
  <2>3. CASE p.h1.count > 1
    BY <1>1, <2>3, H1Penalty DEF Spared
  <2> QED BY <1>1, <2>1, <2>2, <2>3
<1>3. Spared(HeadingHierarchy(d), HeadingHierarchy(e))
  <2>1. /\ e.headings.h2 = d.headings.h2 /\ e.headings.h3 = d.headings.h3
        /\ e.headings.deeper = d.headings.deeper /\ e.headings.repeated = d.headings.repeated
        /\ e.headings.long = d.headings.long /\ e.headings.sequential /\ d.headings.sequential
        /\ ~e.headings.empty /\ ~d.headings.empty
    BY DEF Repaired, Sees, Arrives
  <2>2. d.headings.h2 \in Nat /\ d.headings.h3 \in Nat /\ d.headings.deeper \in Nat
    BY Counted DEF Repaired, Sees, Arrives
  <2> QED BY <1>1, <2>1, <2>2, OneH1
<1>4. Complete(Verdicts(d)) /\ Complete(Verdicts(e)) /\ "TitleTag" \in Rule
  BY VerdictsComplete, Judges DEF Repaired, Judging
<1>5. TitleTag(d) = TitleTag(e)
  BY TitleKept DEF Repaired
<1>6. Verdicts(d)["TitleTag"].impact \in Int
  BY <1>4 DEF Complete
<1>7. \A r \in {"TitleTag", "H1Tag", "HeadingHierarchy"} : Spared(Verdicts(d)[r], Verdicts(e)[r])
  <2>1. /\ Verdicts(d)["TitleTag"] = Verdicts(e)["TitleTag"]
        /\ Verdicts(d)["HeadingHierarchy"] = HeadingHierarchy(d)
        /\ Verdicts(e)["HeadingHierarchy"] = HeadingHierarchy(e)
        /\ Verdicts(d)["H1Tag"] = H1Tag(d) /\ Verdicts(e)["H1Tag"] = H1Tag(e)
    BY <1>5 DEF Verdicts
  <2> QED BY <1>2, <1>3, <1>6, <2>1 DEF Spared
<1>8. \A r \in Rule : Spared(Verdicts(d)[r], Verdicts(e)[r])
  BY <1>7, OtherTextsSpared
<1> QED BY <1>4, <1>8, NothingLost DEF Costless

\* Of the rules on the content the four that find nothing never gain by a repair, and the
\* rest passes.
LEMMA ContentBounds ==
  ASSUME NEW p, NEW d, Sees(d, p)
  PROVE  /\ WordCount(d).impact \in {-15, -8, 0, 2} /\ ParagraphCount(d).impact = -5
         /\ DuplicateContent(d).impact \in {-3, -2} /\ ContentFreshness(d).impact = -1
         /\ ReadingTime(d).impact = 0 /\ TextHtmlRatio(d).impact = 0 /\ KeywordInContent(d).impact = 0
         /\ DuplicateTitles(d).impact = 0 /\ DuplicateDescriptions(d).impact = 0
         /\ DuplicateH1s(d).impact = 0
<1>1. WordCount(d).impact \in {-15, -8, 0, 2}
  BY DEF WordCount, Pass, Fail, If
<1>2. ParagraphCount(d).impact = -5 /\ ContentFreshness(d).impact = -1
  BY DEF ParagraphCount, ContentFreshness, PassUnless, Pass, Fail, Sees, Arrives
<1>3. DuplicateContent(d).impact \in {-3, -2}
  BY DEF DuplicateContent, PassUnless, Pass, Fail, If, Sees, Arrives
<1>4. ReadingTime(d).impact = 0 /\ TextHtmlRatio(d).impact = 0 /\ KeywordInContent(d).impact = 0
  BY DEF ReadingTime, TextHtmlRatio, KeywordInContent, PassUnless, Pass, Fail, If, Sees, Arrives
<1>5. /\ DuplicateTitles(d).impact = 0 /\ DuplicateDescriptions(d).impact = 0
      /\ DuplicateH1s(d).impact = 0
  BY DEF DuplicateTitles, DuplicateDescriptions, DuplicateH1s, PassUnless, Pass, Sees, Arrives
<1> QED BY <1>1, <1>2, <1>3, <1>4, <1>5

\* Enough words for a thin page, which its title may then no longer fit.
LEMMA WordCosts ==
  ASSUME NEW p, NEW q, NEW d, NEW e, Repaired(p, q, d, e), q.schema_markup = p.schema_markup,
         ~WordCount(d).passed, q.word_count = 150, q.h1 = p.h1, q.headings = p.headings,
         q.title.length = p.title.length, q.title.generic <=> p.title.generic
  PROVE  Costless(d, e)
<1> DEFINE v == Verdicts(d)
           w == Verdicts(e)
<1>1. Complete(v) /\ Complete(w)
  BY VerdictsComplete DEF Repaired
<1>2. WordCount(d).impact \in {-15, -8} /\ WordCount(e).impact = 0
  <2>1. e.word_count = 150 /\ ~e.shop
    BY DEF Repaired, Sees, Arrives
  <2>2. WordCount(e).impact = 0
    BY <2>1 DEF WordCount, Pass, Fail, If
  <2> QED BY <2>2 DEF WordCount, Pass, Fail
<1>3. TitleTag(e).impact >= TitleTag(d).impact - 3
  <2>1. /\ d.title.length = e.title.length /\ (d.title.generic <=> e.title.generic)
    BY DEF Repaired, Sees, Arrives
  <2> QED BY <2>1, TitlePenalty
<1>4. H1Tag(d) = H1Tag(e) /\ HeadingHierarchy(d) = HeadingHierarchy(e)
  <2>1. d.h1 = e.h1 /\ d.title.length = e.title.length
    BY DEF Repaired, Sees, Arrives
  <2>2. H1Tag(d) = H1Tag(e)
    BY <2>1 DEF H1Tag
  <2> QED BY <2>2, HeadingsKept DEF Repaired
<1>5. /\ v["TitleTag"] = TitleTag(d) /\ w["TitleTag"] = TitleTag(e)
      /\ v["H1Tag"] = w["H1Tag"] /\ v["HeadingHierarchy"] = w["HeadingHierarchy"]
  BY <1>4 DEF Verdicts
<1>6. \A x \in Rule \ {"TitleTag", "WordCount", "DuplicateContent"} : Spared(v[x], w[x])
  <2> TAKE x \in Rule \ {"TitleTag", "WordCount", "DuplicateContent"}
  <2>1. CASE x \in {"H1Tag", "HeadingHierarchy"}
    <3>1. v[x] = w[x] /\ v[x].impact \in Int
      BY <1>1, <1>5, <2>1 DEF Complete
    <3> QED BY <3>1 DEF Spared
  <2>2. CASE x \in TradedBlocks
    BY <2>2, KeptBlocksSpared DEF KeptBlocks
  <2>3. CASE x \notin Traded
    BY <2>3, OthersSpared
  <2> QED BY <2>1, <2>2, <2>3 DEF Traded, TradedTexts
<1>7. \A x \in Registered.content : v[x].impact >= -15 /\ w[x].impact <= 0
  <2>1. ASSUME NEW x \in Registered.content PROVE v[x].impact >= -15 /\ w[x].impact <= 0
    <3>1. x \in {"WordCount", "ReadingTime", "ParagraphCount", "TextHtmlRatio", "KeywordInContent",
                 "DuplicateContent", "ContentFreshness", "DuplicateTitles", "DuplicateDescriptions",
                 "DuplicateH1s"}
      BY DEF Registered
    <3>2. v[x].impact \in {-15, -8, 0, 2, -5, -3, -2, -1}
      BY <3>1, ContentBounds DEF Repaired, Verdicts
    <3>3. w[x].impact \in {0, -5, -3, -2, -1}
      BY <3>1, <1>2, ContentBounds DEF Repaired, Verdicts
    <3> HIDE DEF v, w
    <3> QED BY <3>2, <3>3
  <2> QED BY <2>1
<1>8. \A x \in Registered.content \ {"WordCount", "ParagraphCount", "DuplicateContent",
                                     "ContentFreshness"} :
        v[x].impact >= 0
  <2>1. ASSUME NEW x \in Registered.content \ {"WordCount", "ParagraphCount",
                                               "DuplicateContent", "ContentFreshness"}
        PROVE  v[x].impact = 0
    <3>1. x \in {"ReadingTime", "TextHtmlRatio", "KeywordInContent", "DuplicateTitles",
                 "DuplicateDescriptions", "DuplicateH1s"}
      BY DEF Registered
    <3> QED BY <3>1, ContentBounds DEF Repaired, Verdicts
  <2> QED BY <2>1
<1>9. /\ w["WordCount"].impact >= v["WordCount"].impact + 8
      /\ w["DuplicateContent"].impact >= v["DuplicateContent"].impact - 1
  <2>1. /\ v["WordCount"] = WordCount(d) /\ w["WordCount"] = WordCount(e)
        /\ v["DuplicateContent"] = DuplicateContent(d) /\ w["DuplicateContent"] = DuplicateContent(e)
    BY DEF Verdicts
  <2>2. DuplicateContent(d).impact \in {-3, -2} /\ DuplicateContent(e).impact \in {-3, -2}
    BY ContentBounds DEF Repaired
  <2> QED BY <1>2, <2>1, <2>2
<1> HIDE DEF v, w
<1>10. {"on_page", "content"} \subseteq Category
  BY DEF Category, Registered
<1>11. \A x \in Registered.content \ {"WordCount", "DuplicateContent"} : w[x].impact >= v[x].impact
  <2> TAKE x \in Registered.content \ {"WordCount", "DuplicateContent"}
  <2>1. x \in Rule /\ x # "TitleTag"
    <3>1. x \in Registered["content"] /\ "TitleTag" \notin Registered["content"]
      BY DEF Registered
    <3> QED BY <1>10, <3>1 DEF Rule
  <2>2. Spared(v[x], w[x])
    BY <1>6, <2>1
  <2> QED BY <1>1, <2>1, <2>2 DEF Complete, Spared
<1>12. /\ CategoryScore(v, "content") \in Int /\ CategoryScore(w, "content") \in Int
       /\ CategoryScore(w, "content") >= CategoryScore(v, "content") + 70
  BY <1>1, <1>7, <1>8, <1>9, <1>11, ContentGain
<1>13. \A c \in Category : \A x \in Judging(c) : c # "content" => x \notin {"WordCount", "DuplicateContent"}
  BY Judges DEF Judging
<1>14. \A c \in Category : \A x \in Judging(c) : c # "on_page" => x # "TitleTag"
  BY Judges DEF Judging
<1>15. \A x \in Rule : Spared(v[x], w[x]) => w[x].impact >= v[x].impact
  BY <1>1 DEF Complete, Spared
<1>16. /\ CategoryScore(v, "on_page") \in Int /\ CategoryScore(w, "on_page") \in Int
       /\ CategoryScore(v, "on_page") <= CategoryScore(w, "on_page") + 30
  <2>1. \A x \in Judging("on_page") \ {"TitleTag"} : w[x].impact >= v[x].impact
    BY <1>6, <1>10, <1>13, <1>15 DEF Judging
  <2>2. w["TitleTag"].impact >= v["TitleTag"].impact - 3
    BY <1>3, <1>5
  <2> QED BY <1>1, <1>10, <2>1, <2>2, CategoryLoss
<1>17. ASSUME NEW c \in Category \ {"content", "on_page"}
       PROVE  /\ CategoryScore(v, c) \in Int /\ CategoryScore(w, c) \in Int
              /\ CategoryScore(v, c) <= CategoryScore(w, c)
  <2>1. \A x \in Judging(c) : w[x].impact >= v[x].impact
    BY <1>6, <1>13, <1>14, <1>15 DEF Judging
  <2>2. IsFiniteSet({})
    BY FS_EmptySet
  <2>3. "TitleTag" \notin Judging(c)
    BY <1>14
  <2> DEFINE L == {}
  <2>4. /\ L \cap Judging(c) # {} => "TitleTag" \in Judging(c)
        /\ \A x \in Judging(c) \cap L : w[x].impact >= v[x].impact - 1
        /\ \A x \in Judging(c) \ (L \cup {"TitleTag"}) : w[x].impact >= v[x].impact
        /\ "TitleTag" \notin L /\ IsFiniteSet(L)
    BY <2>1, <2>2
  <2> HIDE DEF L
  <2> QED BY <1>1, <2>3, <2>4, CategoryTrade
<1>18. \A c \in Category : CategoryScore(v, c) \in Int /\ CategoryScore(w, c) \in Int
  BY <1>12, <1>16, <1>17
<1>19. Weight["content"] = 20 /\ Weight["on_page"] = 20
  BY DEF Weight
<1>20. /\ CategoryScore(w, "content") * Weight["content"] >= CategoryScore(v, "content") * Weight["content"] + 600
       /\ CategoryScore(w, "on_page") * Weight["on_page"] >= CategoryScore(v, "on_page") * Weight["on_page"] - 600
  BY <1>12, <1>16, <1>19
<1>21. \A c \in Category \ {"content", "on_page"} : CategoryScore(w, c) >= CategoryScore(v, c)
  BY <1>17
<1>22. PageScore(v) <= PageScore(w)
  BY <1>1, <1>10, <1>18, <1>20, <1>21, PageTrade, 600 \in Nat, "content" # "on_page"
<1> QED BY <1>22 DEF Costless, v, w

\* q is p but for what the fields in F hold.
Same(p, q, F) == \A f \in Field \ F : q[f] = p[f]

\* What Better asks of the field f.
BetterIn(p, q, f) ==
  /\ f = "meta_description" => q.meta_description \in 140 .. 160
  /\ f = "robots_meta" => q.robots_meta \subseteq p.robots_meta
  /\ f = "open_graph" => p.open_graph \subseteq q.open_graph
  /\ f = "https" => q.https
  /\ f = "viewport" => q.viewport = "device"
  /\ f = "language" => q.language
  /\ f = "charset" => q.charset = "utf-8"
  /\ f = "headers" => p.headers \subseteq q.headers
  /\ f = "hstsYear" => ("strict-transport-security" \in p.headers => q.hstsYear)
  /\ f = "path" => q.path = {}
  /\ f = "status_code" => q.status_code = 301
  /\ f = "hreflang" => {"self", "x-default"} \subseteq q.hreflang
  /\ f = "broken" => q.broken = 0
  /\ f = "images" => /\ q.images.total = p.images.total
                     /\ q.images.without_alt \in {p.images.without_alt, 0}
                     /\ q.images.undimensioned \in {p.images.undimensioned, 0}
                     /\ p.images.lazy => q.images.lazy
                     /\ p.images.srcset => q.images.srcset
                     /\ p.images.modern => q.images.modern
  /\ f = "response_time" => Spared(ResponseTime(p), ResponseTime(q))

LEMMA BetterThere ==
  ASSUME NEW p, NEW q, q.internal + q.external = p.internal + p.external,
         NEW F, Same(p, q, F), \A f \in F : BetterIn(p, q, f)
  PROVE  Better(p, q)
<1>1. \A f \in Field : q[f] = p[f] \/ BetterIn(p, q, f)
  BY DEF Same
<1>2. {"meta_description", "robots_meta", "open_graph", "https", "viewport", "language", "charset",
       "headers", "hstsYear", "path", "status_code", "hreflang", "broken", "images",
       "response_time"} \subseteq Field
  BY FieldNames
<1>3. /\ q.meta_description = p.meta_description \/ q.meta_description \in 140 .. 160
      /\ q.robots_meta \subseteq p.robots_meta
      /\ p.open_graph \subseteq q.open_graph
      /\ p.https => q.https
      /\ q.viewport \in {p.viewport, "device"}
  BY <1>1, <1>2 DEF BetterIn
<1>4. /\ p.language => q.language
      /\ q.charset \in {p.charset, "utf-8"}
      /\ p.headers \subseteq q.headers
      /\ "strict-transport-security" \in p.headers /\ p.hstsYear => q.hstsYear
      /\ q.path \in {p.path, {}} /\ q.status_code \in {p.status_code, 301}
  BY <1>1, <1>2 DEF BetterIn
<1>5. /\ q.hreflang = p.hreflang \/ {"self", "x-default"} \subseteq q.hreflang
      /\ q.broken \in {p.broken, 0}
  BY <1>1, <1>2 DEF BetterIn
<1>6. /\ q.images.total = p.images.total
      /\ q.images.without_alt \in {p.images.without_alt, 0}
      /\ q.images.undimensioned \in {p.images.undimensioned, 0}
      /\ p.images.lazy => q.images.lazy
      /\ p.images.srcset => q.images.srcset
      /\ p.images.modern => q.images.modern
  BY <1>1, <1>2 DEF BetterIn
<1>7. Spared(ResponseTime(p), ResponseTime(q))
  <2>1. CASE q["response_time"] = p["response_time"]
    <3>1. ResponseTime(q) = ResponseTime(p)
      BY <2>1 DEF ResponseTime
    <3>2. ResponseTime(p).impact \in Int
      BY DEF ResponseTime, Pass, Fail
    <3> QED BY <3>1, <3>2 DEF Spared
  <2>2. CASE BetterIn(p, q, "response_time")
    BY <2>2 DEF BetterIn
  <2> QED BY <1>1, <1>2, <2>1, <2>2
<1> QED BY <1>3, <1>4, <1>5, <1>6, <1>7 DEF Better

Text == {"title", "h1", "headings", "word_count"}

\* q is what a recommendation makes of p, with what the rules see of them.
Advised(p, q, d, e) ==
  /\ Sound(p) /\ Sound(q) /\ Sees(d, p) /\ Sees(e, q)
  /\ q.internal + q.external = p.internal + p.external

LEMMA AdvisedRepaired ==
  ASSUME NEW p, NEW q, NEW d, NEW e, Advised(p, q, d, e), NEW F, Same(p, q, F),
         \A f \in F : BetterIn(p, q, f)
  PROVE  /\ Repaired(p, q, d, e)
         /\ F \cap Text = {} => SameTexts(p, q)
         /\ "schema_markup" \notin F => q.schema_markup = p.schema_markup
<1>1. Better(p, q)
  BY BetterThere DEF Advised
<1>2. Text \cup {"schema_markup"} \subseteq Field
  BY FieldNames DEF Text
<1> QED BY <1>1, <1>2 DEF Advised, Repaired, Same, SameTexts, Text

\* Most recommendations change nothing that is traded.
LEMMA PlainCosts ==
  ASSUME NEW p, NEW q, NEW d, NEW e, Advised(p, q, d, e), NEW F, Same(p, q, F),
         \A f \in F : BetterIn(p, q, f), F \cap (Text \cup {"schema_markup"}) = {}
  PROVE  Costless(d, e)
<1>1. Repaired(p, q, d, e) /\ SameTexts(p, q) /\ q.schema_markup = p.schema_markup
  BY AdvisedRepaired
<1> QED BY <1>1, KeepingCosts DEF KeptBlocks

LEMMA OneFieldCosts ==
  ASSUME NEW p, NEW q, NEW d, NEW e, Advised(p, q, d, e), NEW f \in Field \ (Text \cup {"schema_markup"}),
         NEW v, q = [p EXCEPT ![f] = v], q[f] = v => BetterIn(p, q, f)
  PROVE  Costless(d, e)
<1>1. q[f] = v /\ Same(p, q, {f})
  BY DEF Advised, Sound, Known, Same
<1> QED BY <1>1, PlainCosts

LEMMA TwoFieldsCost ==
  ASSUME NEW p, NEW q, NEW d, NEW e, Advised(p, q, d, e), NEW f \in Field \ (Text \cup {"schema_markup"}),
         NEW v, NEW g \in Field \ (Text \cup {"schema_markup", f}), NEW w,
         q = [[p EXCEPT ![f] = v] EXCEPT ![g] = w],
         q[f] = v /\ q[g] = w => BetterIn(p, q, f) /\ BetterIn(p, q, g)
  PROVE  Costless(d, e)
<1>1. q[f] = v /\ q[g] = w /\ Same(p, q, {f, g})
  BY DEF Advised, Sound, Known, Same
<1> QED BY <1>1, PlainCosts

TextAdvice == TradedTexts \ {"DuplicateContent"}

LEMMA PlainAdvice ==
  ASSUME NEW p, NEW q, NEW d, NEW e, Advised(p, q, d, e), NEW r \in Rule \ (TextAdvice \cup TradedBlocks),
         q \in Advice(r, p), ~Verdicts(d)[r].passed
  PROVE  Costless(d, e)
<1>1. /\ DOMAIN p = Field /\ p.meta_description \in Nat /\ p.response_time \in Nat
      /\ p.social_links \in Nat /\ p.external \in Nat
      /\ p.images \in [total : Nat, without_alt : Nat, large : Nat, undimensioned : Nat,
                       lazy : BOOLEAN, srcset : BOOLEAN, modern : BOOLEAN]
      /\ {"meta_description", "robots_meta", "open_graph", "social_links", "https", "viewport",
          "language", "charset", "doctype", "headers", "sitemap", "path", "status_code", "hreflang",
          "paragraph_count", "dates", "external", "broken", "generic", "images", "canonical_url",
          "duplicate_group_size", "twitter_cards", "internal", "contextual", "hstsYear",
          "response_time"} \subseteq Field \ (Text \cup {"schema_markup"})
  <2>1. p.meta_description \in Nat /\ p.response_time \in Nat /\ p.external \in Nat
    BY Counted DEF Advised
  <2>2. p["images"] \in Kind["images"] /\ p["social_links"] \in Kind["social_links"] /\ DOMAIN p = Field
    BY FieldNames DEF Advised, Sound, Known
  <2>3. {"meta_description", "robots_meta", "open_graph", "social_links", "https", "viewport",
         "language", "charset", "doctype", "headers", "sitemap", "path", "status_code", "hreflang",
         "paragraph_count", "dates", "external", "broken", "generic", "images", "canonical_url",
         "duplicate_group_size", "twitter_cards", "internal", "contextual", "hstsYear",
         "response_time"} \subseteq Field \ (Text \cup {"schema_markup"})
    BY FieldNames DEF Text
  <2> QED BY <2>1, <2>2, <2>3 DEF Kind
<1>2. CASE r = "MetaDescription"
  <2>1. q = [p EXCEPT !["meta_description"] = Sized(p.meta_description, 140, 160)]
    BY <1>1, <1>2 DEF Advice
  <2>2. q["meta_description"] = Sized(p.meta_description, 140, 160) => BetterIn(p, q, "meta_description")
    BY <1>1 DEF BetterIn, Sized
  <2> QED BY <1>1, <2>1, <2>2, OneFieldCosts
<1>3. CASE r = "RobotsMeta"
  <2>1. q = [p EXCEPT !["robots_meta"] =
                 p.robots_meta \ {IF "noindex" \in p.robots_meta THEN "noindex" ELSE "nofollow"}]
    BY <1>1, <1>3 DEF Advice
  <2>2. q["robots_meta"] =
             p.robots_meta \ {IF "noindex" \in p.robots_meta THEN "noindex" ELSE "nofollow"}
          => BetterIn(p, q, "robots_meta")
    BY DEF BetterIn
  <2> QED BY <1>1, <2>1, <2>2, OneFieldCosts
<1>4. CASE r = "OpenGraph"
  <2>1. q = [p EXCEPT !["open_graph"] = p.open_graph \cup OgTag]
    BY <1>1, <1>4 DEF Advice
  <2>2. q["open_graph"] = p.open_graph \cup OgTag => BetterIn(p, q, "open_graph")
    BY DEF BetterIn
  <2> QED BY <1>1, <2>1, <2>2, OneFieldCosts
<1>5. CASE r = "FacebookDomain"
  <2>1. PICK tag \in {"fb:app_id", "fb:admins"} : q = [p EXCEPT !["open_graph"] = p.open_graph \cup {tag}]
    BY <1>1, <1>5 DEF Advice
  <2>2. q["open_graph"] = p.open_graph \cup {tag} => BetterIn(p, q, "open_graph")
    BY DEF BetterIn
  <2> QED BY <1>1, <2>1, <2>2, OneFieldCosts
<1>6. CASE r = "SocialMediaLinks"
  <2>1. PICK n \in Nat : q = [p EXCEPT !["social_links"] = n]
    BY <1>1, <1>6 DEF Advice
  <2>2. q["social_links"] = n => BetterIn(p, q, "social_links")
    BY DEF BetterIn
  <2> QED BY <1>1, <2>1, <2>2, OneFieldCosts
<1>7. CASE r = "SSL_Certificate"
  <2>1. q = [p EXCEPT !["https"] = TRUE]
    BY <1>1, <1>7 DEF Advice
  <2>2. q["https"] = TRUE => BetterIn(p, q, "https")
    BY DEF BetterIn
  <2> QED BY <1>1, <2>1, <2>2, OneFieldCosts
<1>8. CASE r \in {"MobileViewport", "Mobile"}
  <2>1. q = [p EXCEPT !["viewport"] = "device"]
    BY <1>1, <1>8 DEF Advice
  <2>2. q["viewport"] = "device" => BetterIn(p, q, "viewport")
    BY DEF BetterIn
  <2> QED BY <1>1, <2>1, <2>2, OneFieldCosts
<1>9. CASE r = "LanguageDeclaration"
  <2>1. q = [p EXCEPT !["language"] = TRUE]
    BY <1>1, <1>9 DEF Advice
  <2>2. q["language"] = TRUE => BetterIn(p, q, "language")
    BY DEF BetterIn
  <2> QED BY <1>1, <2>1, <2>2, OneFieldCosts
<1>10. CASE r = "Charset"
  <2>1. q = [p EXCEPT !["charset"] = "utf-8"]
    BY <1>1, <1>10 DEF Advice
  <2>2. q["charset"] = "utf-8" => BetterIn(p, q, "charset")
    BY DEF BetterIn
  <2> QED BY <1>1, <2>1, <2>2, OneFieldCosts
<1>11. CASE r = "Doctype"
  <2>1. q = [p EXCEPT !["doctype"] = "<!DOCTYPE html>"]
    BY <1>1, <1>11 DEF Advice
  <2>2. q["doctype"] = "<!DOCTYPE html>" => BetterIn(p, q, "doctype")
    BY DEF BetterIn
  <2> QED BY <1>1, <2>1, <2>2, OneFieldCosts
<1>12. CASE r = "SecurityHeaders"
  <2>1. q = [p EXCEPT !["headers"] = p.headers \cup {"strict-transport-security", "content-security-policy",
                                                 "x-frame-options", "x-content-type-options"}]
    BY <1>1, <1>12 DEF Advice
  <2>2. q["headers"] = p.headers \cup {"strict-transport-security", "content-security-policy",
                                           "x-frame-options", "x-content-type-options"} => BetterIn(p, q, "headers")
    BY DEF BetterIn
  <2> QED BY <1>1, <2>1, <2>2, OneFieldCosts
<1>13. CASE r = "XSSProtection"
  <2>1. q = [p EXCEPT !["headers"] = p.headers \cup {"x-xss-protection", "content-security-policy"}]
    BY <1>1, <1>13 DEF Advice
  <2>2. q["headers"] = p.headers \cup {"x-xss-protection", "content-security-policy"} => BetterIn(p, q, "headers")
    BY DEF BetterIn
  <2> QED BY <1>1, <2>1, <2>2, OneFieldCosts
<1>14. CASE r = "CacheHeaders"
  <2>1. q = [p EXCEPT !["headers"] = p.headers \cup {"cache-control", "expires"}]
    BY <1>1, <1>14 DEF Advice
  <2>2. q["headers"] = p.headers \cup {"cache-control", "expires"} => BetterIn(p, q, "headers")
    BY DEF BetterIn
  <2> QED BY <1>1, <2>1, <2>2, OneFieldCosts
<1>15. CASE r = "Compression"
  <2>1. q = [p EXCEPT !["headers"] = p.headers \cup {"content-encoding"}]
    BY <1>1, <1>15 DEF Advice
  <2>2. q["headers"] = p.headers \cup {"content-encoding"} => BetterIn(p, q, "headers")
    BY DEF BetterIn
  <2> QED BY <1>1, <2>1, <2>2, OneFieldCosts
<1>16. CASE r = "Sitemap"
  <2>1. q = [p EXCEPT !["sitemap"] = "urls"]
    BY <1>1, <1>16 DEF Advice
  <2>2. q["sitemap"] = "urls" => BetterIn(p, q, "sitemap")
    BY DEF BetterIn
  <2> QED BY <1>1, <2>1, <2>2, OneFieldCosts
<1>17. CASE r = "Url"
  <2>1. q = [p EXCEPT !["path"] = {}]
    BY <1>1, <1>17 DEF Advice
  <2>2. q["path"] = {} => BetterIn(p, q, "path")
    BY DEF BetterIn
  <2> QED BY <1>1, <2>1, <2>2, OneFieldCosts
<1>18. CASE r = "HttpStatus"
  <2>1. PICK n \in {301} : q = [p EXCEPT !["status_code"] = n]
    BY <1>1, <1>18 DEF Advice
  <2>2. q["status_code"] = n => BetterIn(p, q, "status_code")
    BY <2>1 DEF BetterIn
  <2> QED BY <1>1, <2>1, <2>2, OneFieldCosts
<1>19. CASE r = "Hreflang"
  <2>1. q = [p EXCEPT !["hreflang"] = p.hreflang \cup {"self", "x-default"}]
    BY <1>1, <1>19 DEF Advice
  <2>2. q["hreflang"] = p.hreflang \cup {"self", "x-default"} => BetterIn(p, q, "hreflang")
    BY DEF BetterIn
  <2> QED BY <1>1, <2>1, <2>2, OneFieldCosts
<1>20. CASE r = "ParagraphCount"
  <2>1. q = [p EXCEPT !["paragraph_count"] = (p.word_count + 149) \div 150]
    BY <1>1, <1>20 DEF Advice
  <2>2. q["paragraph_count"] = (p.word_count + 149) \div 150 => BetterIn(p, q, "paragraph_count")
    BY DEF BetterIn
  <2> QED BY <1>1, <2>1, <2>2, OneFieldCosts
<1>21. CASE r = "ContentFreshness"
  <2>1. q = [p EXCEPT !["dates"] = TRUE]
    BY <1>1, <1>21 DEF Advice
  <2>2. q["dates"] = TRUE => BetterIn(p, q, "dates")
    BY DEF BetterIn
  <2> QED BY <1>1, <2>1, <2>2, OneFieldCosts
<1>22. CASE r = "ExternalLinks"
  <2>1. PICK n \in Nat : q = [p EXCEPT !["external"] = n]
    BY <1>1, <1>22 DEF Advice
  <2>2. q["external"] = n => BetterIn(p, q, "external")
    BY DEF BetterIn
  <2> QED BY <1>1, <2>1, <2>2, OneFieldCosts
<1>23. CASE r = "BrokenLinks"
  <2>1. q = [p EXCEPT !["broken"] = 0]
    BY <1>1, <1>23 DEF Advice
  <2>2. q["broken"] = 0 => BetterIn(p, q, "broken")
    BY DEF BetterIn
  <2> QED BY <1>1, <2>1, <2>2, OneFieldCosts
<1>24. CASE r = "AnchorText"
  <2>1. q = [p EXCEPT !["generic"] = 0]
    BY <1>1, <1>24 DEF Advice
  <2>2. q["generic"] = 0 => BetterIn(p, q, "generic")
    BY DEF BetterIn
  <2> QED BY <1>1, <2>1, <2>2, OneFieldCosts
<1>25. CASE r = "ImageAltText"
  <2>1. q = [p EXCEPT !["images"] = [p.images EXCEPT !.without_alt = 0]]
    BY <1>1, <1>25 DEF Advice
  <2>2. q["images"] = [p.images EXCEPT !.without_alt = 0] => BetterIn(p, q, "images")
    BY <1>1 DEF BetterIn
  <2> QED BY <1>1, <2>1, <2>2, OneFieldCosts
<1>26. CASE r = "LazyLoading"
  <2>1. q = [p EXCEPT !["images"] = [p.images EXCEPT !.lazy = TRUE]]
    BY <1>1, <1>26 DEF Advice
  <2>2. q["images"] = [p.images EXCEPT !.lazy = TRUE] => BetterIn(p, q, "images")
    BY <1>1 DEF BetterIn
  <2> QED BY <1>1, <2>1, <2>2, OneFieldCosts
<1>27. CASE r = "ImageDimensions"
  <2>1. q = [p EXCEPT !["images"] = [p.images EXCEPT !.undimensioned = 0]]
    BY <1>1, <1>27 DEF Advice
  <2>2. q["images"] = [p.images EXCEPT !.undimensioned = 0] => BetterIn(p, q, "images")
    BY <1>1 DEF BetterIn
  <2> QED BY <1>1, <2>1, <2>2, OneFieldCosts
<1>28. CASE r = "ResponsiveImages"
  <2>1. q = [p EXCEPT !["images"] = [p.images EXCEPT !.srcset = TRUE]]
    BY <1>1, <1>28 DEF Advice
  <2>2. q["images"] = [p.images EXCEPT !.srcset = TRUE] => BetterIn(p, q, "images")
    BY <1>1 DEF BetterIn
  <2> QED BY <1>1, <2>1, <2>2, OneFieldCosts
<1>29. CASE r = "ImageFormats"
  <2>1. q = [p EXCEPT !["images"] = [p.images EXCEPT !.modern = TRUE]]
    BY <1>1, <1>29 DEF Advice
  <2>2. q["images"] = [p.images EXCEPT !.modern = TRUE] => BetterIn(p, q, "images")
    BY <1>1 DEF BetterIn
  <2> QED BY <1>1, <2>1, <2>2, OneFieldCosts
<1>30. CASE r \in {"CanonicalUrl", "DuplicateContent"}
  <2>1. q = [[p EXCEPT !["canonical_url"] = {"declared"}]
            EXCEPT !["duplicate_group_size"] = AtMost(p.duplicate_group_size, 1)]
    BY <1>1, <1>30 DEF Advice
  <2>2. q["canonical_url"] = {"declared"} /\ q["duplicate_group_size"] = AtMost(p.duplicate_group_size, 1)
          => BetterIn(p, q, "canonical_url") /\ BetterIn(p, q, "duplicate_group_size")
    BY DEF BetterIn
  <2> QED BY <1>1, <2>1, <2>2, TwoFieldsCost
<1>31. CASE r = "SocialImage"
  <2>1. q = [[p EXCEPT !["open_graph"] = p.open_graph \cup {"og:image"}]
            EXCEPT !["twitter_cards"] = p.twitter_cards \cup {"twitter:image"}]
    BY <1>1, <1>31 DEF Advice
  <2>2. q["open_graph"] = p.open_graph \cup {"og:image"} /\ q["twitter_cards"] = p.twitter_cards \cup {"twitter:image"}
          => BetterIn(p, q, "open_graph") /\ BetterIn(p, q, "twitter_cards")
    BY DEF BetterIn
  <2> QED BY <1>1, <2>1, <2>2, TwoFieldsCost
<1>32. CASE r = "InternalLinks"
  <2>1. PICK n \in {4, 5} : q = [[p EXCEPT !["internal"] = p.internal + n]
            EXCEPT !["contextual"] = p.contextual + n]
    BY <1>1, <1>32 DEF Advice
  <2>2. q["internal"] = p.internal + n /\ q["contextual"] = p.contextual + n
          => BetterIn(p, q, "internal") /\ BetterIn(p, q, "contextual")
    BY DEF BetterIn
  <2> QED BY <1>1, <2>1, <2>2, TwoFieldsCost
<1>33. CASE r = "HSTS"
  <2>1. CASE "strict-transport-security" \in p.headers
    <3>1. q = [p EXCEPT !["hstsYear"] = TRUE]
      BY <1>33, <2>1 DEF Advice
    <3>2. q["hstsYear"] = TRUE => BetterIn(p, q, "hstsYear")
      BY DEF BetterIn
    <3> QED BY <1>1, <3>1, <3>2, OneFieldCosts
  <2>2. CASE "strict-transport-security" \notin p.headers
    <3>1. PICK year \in BOOLEAN : q = [[p EXCEPT !["headers"] = p.headers \cup {"strict-transport-security"}]
              EXCEPT !["hstsYear"] = year]
      BY <1>1, <1>33, <2>2 DEF Advice
    <3>2. q["headers"] = p.headers \cup {"strict-transport-security"} /\ q["hstsYear"] = year
            => BetterIn(p, q, "headers") /\ BetterIn(p, q, "hstsYear")
      BY <2>2 DEF BetterIn
    <3> QED BY <1>1, <3>1, <3>2, TwoFieldsCost
  <2> QED BY <2>1, <2>2
<1>34. CASE r = "ResponseTime"
  <2>1. PICK ms : q = [p EXCEPT !["response_time"] = ms] /\ ms \in {200, 800}
                  /\ (ms = 800 => p.response_time > 1000)
    BY <1>34 DEF Advice
  <2>2. ~ResponseTime(p).passed
    <3>1. ~ResponseTime(d).passed /\ d.response_time = p.response_time
      BY <1>34 DEF Advised, Sees, Arrives, Verdicts
    <3> QED BY <3>1 DEF ResponseTime
  <2>3. q["response_time"] = ms => BetterIn(p, q, "response_time")
    <3> SUFFICES ASSUME q.response_time = ms PROVE Spared(ResponseTime(p), ResponseTime(q))
      BY DEF BetterIn
    <3> QED BY <1>1, <2>1, <2>2 DEF ResponseTime, Pass, Fail, Spared
  <2>4. BetterIn(p, q, "response_time")
    <3>1. q.response_time = ms
      BY <1>1, <2>1
    <3> QED BY <2>3, <3>1
  <2> QED BY <1>1, <2>1, <2>4, OneFieldCosts
<1>35. CASE r \notin {"MetaDescription", "RobotsMeta", "OpenGraph", "FacebookDomain",
                   "SocialMediaLinks", "SSL_Certificate", "MobileViewport", "Mobile",
                   "LanguageDeclaration", "Charset", "Doctype", "SecurityHeaders",
                   "XSSProtection", "CacheHeaders", "Compression", "Sitemap", "Url",
                   "HttpStatus", "Hreflang", "ParagraphCount", "ContentFreshness",
                   "ExternalLinks", "BrokenLinks", "AnchorText", "ImageAltText",
                   "LazyLoading", "ImageDimensions", "ResponsiveImages", "ImageFormats",
                   "CanonicalUrl", "DuplicateContent", "SocialImage", "InternalLinks",
                   "HSTS", "ResponseTime"}
  <2>1. q = p
    BY <1>35 DEF Advice, TextAdvice, TradedTexts, TradedBlocks
  <2>2. Same(p, q, {})
    BY <2>1 DEF Same
  <2> QED BY <2>2, PlainCosts
<1> QED BY <1>2, <1>3, <1>4, <1>5, <1>6, <1>7, <1>8, <1>9, <1>10, <1>11, <1>12, <1>13, <1>14,
           <1>15, <1>16, <1>17, <1>18, <1>19, <1>20, <1>21, <1>22, <1>23, <1>24, <1>25, <1>26,
           <1>27, <1>28, <1>29, <1>30, <1>31, <1>32, <1>33, <1>34, <1>35

LEMMA TextAdviceCosts ==
  ASSUME NEW p, NEW q, NEW d, NEW e, Advised(p, q, d, e), NEW r \in TextAdvice,
         q \in Advice(r, p), ~Verdicts(d)[r].passed
  PROVE  Costless(d, e)
<1>1. /\ DOMAIN p = Field /\ {"title", "h1", "headings", "word_count"} \subseteq Field
      /\ "schema_markup" \notin {"title", "h1", "headings", "word_count"}
  BY FieldNames DEF Advised, Sound, Known
<1>2. /\ p.title \in [length : Nat, generic : BOOLEAN, onTopic : BOOLEAN, wide : BOOLEAN]
      /\ p.h1 \in [count : Nat, long : BOOLEAN, echoesTitle : BOOLEAN]
      /\ p.headings \in [h2 : Nat, h3 : Nat, deeper : Nat, sequential : BOOLEAN, empty : BOOLEAN,
                         repeated : BOOLEAN, long : BOOLEAN]
      /\ p.word_count \in Nat
  <2>1. \A f \in {"title", "h1", "headings", "word_count"} : p[f] \in Kind[f]
    BY <1>1 DEF Advised, Sound, Known
  <2> QED BY <2>1 DEF Kind
<1>3. \A f \in {"title", "h1", "headings", "word_count"} : BetterIn(p, q, f)
  BY DEF BetterIn
<1>4. ASSUME NEW f \in {"title", "h1", "headings", "word_count"},
             NEW g \in {"title", "h1", "headings", "word_count"}, Same(p, q, {f, g})
      PROVE  /\ Repaired(p, q, d, e) /\ q.schema_markup = p.schema_markup
             /\ KeptBlocks(p, q)
  BY <1>1, <1>3, <1>4, AdvisedRepaired DEF KeptBlocks
<1>5. ASSUME NEW f \in {"title", "h1", "headings", "word_count"}, NEW v,
             NEW g \in {"title", "h1", "headings", "word_count"} \ {f}, NEW w,
             q = [[p EXCEPT ![f] = v] EXCEPT ![g] = w]
      PROVE  q[f] = v /\ q[g] = w /\ Same(p, q, {f, g})
  BY <1>1, <1>5 DEF Same
<1>6. CASE r = "TitleTag"
  <2> DEFINE n == p.title.length
  <2>1. PICK echo \in BOOLEAN : q = [[p EXCEPT !["title"] = SoundTitle(n)]
                                       EXCEPT !["h1"] = [p.h1 EXCEPT !.echoesTitle = echo]]
    BY <1>1, <1>6 DEF Advice
  <2> DEFINE title == SoundTitle(n)
             h1 == [p.h1 EXCEPT !.echoesTitle = echo]
  <2>2. h1.count = p.h1.count /\ h1.long = p.h1.long
    BY <1>2
  <2>3. n \in Nat
    BY <1>2
  <2>4. q = [[p EXCEPT !["title"] = title] EXCEPT !["h1"] = h1]
    BY <2>1
  <2> HIDE DEF title, h1, n
  <2>5. q.title = title /\ q.h1 = h1 /\ Same(p, q, {"title", "h1"})
    BY <1>5, <2>4
  <2>6. q.headings = p.headings /\ q.word_count = p.word_count
    BY <1>1, <2>5 DEF Same
  <2>7. ~TitleTag(d).passed
    BY <1>6 DEF Verdicts
  <2>8. q.title = SoundTitle(n)
    BY <2>5 DEF title
  <2>9. Repaired(p, q, d, e) /\ KeptBlocks(p, q)
    BY <1>4, <2>5
  <2> QED BY <2>2, <2>3, <2>5, <2>6, <2>7, <2>8, <2>9, TitleCosts
<1>7. CASE r = "H1Tag"
  <2>1. PICK h1 : /\ q = [p EXCEPT !["h1"] = h1] /\ h1.count = 1 /\ (h1.long => p.h1.long)
                  /\ (p.h1.count = 1 => ~h1.long /\ h1.echoesTitle)
    <3>1. CASE p.h1.count = 1
      <4>1. q = [p EXCEPT !["h1"] = [p.h1 EXCEPT !.long = FALSE, !.echoesTitle = TRUE]]
        BY <1>1, <1>7, <3>1 DEF Advice
      <4>2. [p.h1 EXCEPT !.long = FALSE, !.echoesTitle = TRUE].count = 1
            /\ ~[p.h1 EXCEPT !.long = FALSE, !.echoesTitle = TRUE].long
            /\ [p.h1 EXCEPT !.long = FALSE, !.echoesTitle = TRUE].echoesTitle
        BY <1>2, <3>1
      <4> QED BY <4>1, <4>2
    <3>2. CASE p.h1.count # 1
      <4>1. PICK echo \in BOOLEAN : q = [p EXCEPT !["h1"] = [p.h1 EXCEPT !.count = 1, !.echoesTitle = echo]]
        BY <1>1, <1>7, <3>2 DEF Advice
      <4>2. [p.h1 EXCEPT !.count = 1, !.echoesTitle = echo].count = 1
            /\ [p.h1 EXCEPT !.count = 1, !.echoesTitle = echo].long = p.h1.long
        BY <1>2
      <4> QED BY <3>2, <4>1, <4>2
    <3> QED BY <3>1, <3>2
  <2>2. q.h1 = h1 /\ Same(p, q, {"h1"})
    BY <1>1, <2>1 DEF Same
  <2>3. q.title = p.title /\ q.headings = p.headings /\ q.word_count = p.word_count
    BY <1>1, <2>2 DEF Same
  <2>4. Repaired(p, q, d, e) /\ KeptBlocks(p, q)
    BY <1>4, <2>2
  <2> QED BY <2>1, <2>2, <2>3, <2>4, H1Costs
<1>8. CASE r = "HeadingHierarchy"
  <2> DEFINE i == Sized(p.h1.count, 1, 3)
             h2 == Sized(p.headings.h2, 1, 10)
             h3 == Sized(p.headings.h3, 0, 5)
  <2>1. i \in 1 .. 3 /\ (p.h1.count \in {0, 1} => i = 1) /\ (p.h1.count > 1 => i > 1)
    BY <1>2 DEF Sized
  <2>2. h2 \in 1 .. 10 /\ h3 \in 0 .. 5
    BY <1>2 DEF Sized
  <2>3. PICK echo \in BOOLEAN :
          q = [[p EXCEPT !["h1"] = [count |-> i, long |-> FALSE, echoesTitle |-> echo]]
                  EXCEPT !["headings"] = [h2 |-> h2, h3 |-> h3, deeper |-> 0, sequential |-> TRUE,
                                          empty |-> FALSE, repeated |-> FALSE, long |-> FALSE]]
    BY <1>1, <1>8 DEF Advice
  <2> HIDE DEF i, h2, h3
  <2>4. /\ q.h1 = [count |-> i, long |-> FALSE, echoesTitle |-> echo]
        /\ q.headings = [h2 |-> h2, h3 |-> h3, deeper |-> 0, sequential |-> TRUE,
                         empty |-> FALSE, repeated |-> FALSE, long |-> FALSE]
        /\ Same(p, q, {"h1", "headings"})
    BY <1>5, <2>3
  <2>5. q.title = p.title /\ q.word_count = p.word_count
    BY <1>1, <2>4 DEF Same
  <2>6. /\ q.h1.count = i /\ ~q.h1.long /\ q.headings.h2 = h2 /\ q.headings.h3 = h3
        /\ q.headings.deeper = 0 /\ ~q.headings.repeated /\ ~q.headings.long
    BY <2>4
  <2>7. ~HeadingHierarchy(d).passed
    BY <1>8 DEF Verdicts
  <2>8. Repaired(p, q, d, e) /\ KeptBlocks(p, q)
    BY <1>4, <2>4
  <2> QED BY <2>1, <2>2, <2>5, <2>6, <2>7, <2>8, HeadingCosts
<1>9. CASE r = "WordCount"
  <2>1. ~WordCount(d).passed /\ d.word_count = p.word_count /\ d.shop = FALSE
    BY <1>9 DEF Verdicts, Advised, Sees, Arrives
  <2>2. p.word_count < 150
    BY <1>2, <2>1 DEF WordCount, Pass
  <2> DEFINE n == Sized(p.word_count, 150, 1500)
  <2>3. n = 150
    BY <1>2, <2>2 DEF Sized
  <2>4. PICK onTopic \in BOOLEAN : q = [[p EXCEPT !["word_count"] = n]
                                          EXCEPT !["title"] = [p.title EXCEPT !.onTopic = onTopic]]
    <3>1. Advice(r, p) = {[p EXCEPT !.word_count = n, !.title.onTopic = topical] : topical \in BOOLEAN}
      BY <1>9 DEF Advice
    <3> HIDE DEF n
    <3>2. PICK topical \in BOOLEAN : q = [p EXCEPT !.word_count = n, !.title.onTopic = topical]
      BY <3>1
    <3>3. q = [[p EXCEPT !["word_count"] = n] EXCEPT !["title"] = [p.title EXCEPT !.onTopic = topical]]
      BY <1>1, <3>2
    <3> QED BY <3>3
  <2> HIDE DEF n
  <2> DEFINE title == [p.title EXCEPT !.onTopic = onTopic]
  <2>5. title.length = p.title.length /\ (title.generic <=> p.title.generic)
    BY <1>2
  <2>6. q = [[p EXCEPT !["word_count"] = n] EXCEPT !["title"] = title]
    BY <2>4
  <2> HIDE DEF title
  <2>7. q.word_count = n /\ q.title = title /\ Same(p, q, {"word_count", "title"})
    BY <1>5, <2>6
  <2>8. q.h1 = p.h1 /\ q.headings = p.headings
    BY <1>1, <2>7 DEF Same
  <2>9. Repaired(p, q, d, e) /\ q.schema_markup = p.schema_markup
    BY <1>4, <2>7
  <2> QED BY <2>1, <2>3, <2>5, <2>7, <2>8, <2>9, WordCosts
<1> QED BY <1>6, <1>7, <1>8, <1>9 DEF TextAdvice, TradedTexts

LEMMA BlockAdviceCosts ==
  ASSUME NEW p, NEW q, NEW d, NEW e, Advised(p, q, d, e), NEW r \in TradedBlocks,
         q \in Advice(r, p), ~Verdicts(d)[r].passed, ~Verdicts(d)[r].error
  PROVE  Costless(d, e)
<1> DEFINE s == p.schema_markup
           t == q.schema_markup
<1>1. DOMAIN p = Field /\ "schema_markup" \in Field /\ s \in Seq(Block)
  <2>1. DOMAIN p = Field /\ "schema_markup" \in Field /\ p["schema_markup"] \in Kind["schema_markup"]
    BY FieldNames DEF Advised, Sound, Known
  <2> QED BY <2>1 DEF Kind
<1>2. t \in Seq(Block)
  <2>1. q["schema_markup"] \in Kind["schema_markup"]
    BY <1>1 DEF Advised, Sound, Known
  <2> QED BY <2>1 DEF Kind
<1>3. PICK blocks : q = [p EXCEPT !["schema_markup"] = blocks]
  BY <1>1 DEF Advice, TradedBlocks
<1>4. t = blocks /\ Same(p, q, {"schema_markup"})
  BY <1>1, <1>3 DEF Same
<1>5. Repaired(p, q, d, e) /\ SameTexts(p, q)
  <2>1. BetterIn(p, q, "schema_markup")
    BY DEF BetterIn
  <2>2. {"schema_markup"} \cap Text = {}
    BY DEF Text
  <2> QED BY <1>4, <2>1, <2>2, AdvisedRepaired
<1>6. d.schema_markup = s
  BY DEF Advised, Sees, Arrives
<1>7. CASE r # "JsonLdFormat"
  <2>1. PICK type \in {"Organization", "other", "BreadcrumbList", "Article", "Product"} :
          q = [p EXCEPT !.schema_markup = Added(p, type)]
    BY <1>7 DEF Advice, TradedBlocks
  <2>2. t = Append(s, [type |-> type, format |-> "json-ld"])
    BY <1>1, <2>1 DEF Added
  <2>3. Len(t) = Len(s) + 1 /\ t[Len(s) + 1].format = "json-ld" /\ \A i \in DOMAIN s : t[i] = s[i]
    BY <1>1, <2>2
  <2>4. t # <<>> /\ DOMAIN s \subseteq DOMAIN t /\ InJsonLd(t)
    <3>1. DOMAIN s = 1 .. Len(s) /\ DOMAIN t = 1 .. Len(t) /\ Len(s) \in Nat
      BY <1>1, <1>2
    <3> QED BY <1>1, <1>2, <2>3, <3>1 DEF InJsonLd
  <2>5. CASE s = <<>>
    BY <1>5, <2>4, <2>5, BlockCosts
  <2>6. CASE s # <<>>
    <3>1. Extends(s, t)
      BY <1>1, <1>2, <2>3, <2>4, <2>6 DEF Extends
    <3> QED BY <1>5, <2>4, <3>1, KeepingCosts DEF KeptBlocks
  <2> QED BY <2>5, <2>6
<1>8. CASE r = "JsonLdFormat"
  <2>1. t = [i \in DOMAIN s |-> [s[i] EXCEPT !.format = "json-ld"]]
    BY <1>1, <1>8 DEF Advice
  <2>2. DOMAIN t = DOMAIN s /\ \A i \in DOMAIN s : t[i].type = s[i].type /\ t[i].format = "json-ld"
    <3>1. \A i \in DOMAIN s : s[i] \in Block
      BY <1>1
    <3> QED BY <2>1, <3>1 DEF Block
  <2>3. s # <<>>
    <3>1. ~JsonLdFormat(d).passed
      BY <1>8 DEF Verdicts
    <3> QED BY <1>6, <3>1 DEF JsonLdFormat, PassUnless, Pass
  <2>4. Extends(s, t)
    BY <1>1, <1>2, <2>2, <2>3 DEF Extends
  <2>5. InJsonLd(t)
    <3>1. 1 \in DOMAIN s
      BY <1>1, <2>3
    <3> QED BY <2>2, <3>1 DEF InJsonLd
  <2> QED BY <1>5, <2>4, <2>5, KeepingCosts DEF KeptBlocks
<1> QED BY <1>7, <1>8

\* No page's score is lowered by a recommendation that its author follows, but where added
\* links are counted as links with generic texts.
THEOREM AdviceIsSafe == PASpec => AdviceNeverCosts
<1>1. PageInv /\ PageInv' /\ [PANext]_pageVars
        => (page'.internal + page'.external = page.internal + page.external => score' >= score)
           \/ UNCHANGED pageVars
  <2> SUFFICES ASSUME PageInv, PageInv', NEW r \in Rule, Follow(r),
                      page'.internal + page'.external = page.internal + page.external
               PROVE  score' >= score
    BY DEF PANext
  <2> DEFINE d == Seen(page)
             e == Seen(page')
  <2>1. page' \in Advice(r, page) /\ ~verdicts[r].passed /\ ~verdicts[r].error
    BY DEF Follow, Repair, Failing
  <2>2. Sound(page) /\ Sound(page')
    BY <2>1, AdviceIsSound DEF PageInv
  <2>3. Sees(d, page) /\ Sees(e, page')
    BY <2>2, SeenArrives DEF Sound
  <2>4. verdicts = Verdicts(d) /\ score = PageScore(Verdicts(d))
    BY DEF PageInv
  <2>5. score' = PageScore(Verdicts(e))
    BY DEF Follow, Audit
  <2> HIDE DEF d, e
  <2>6. Advised(page, page', d, e)
    BY <2>2, <2>3 DEF Advised
  <2>7. Costless(d, e)
    BY <2>1, <2>4, <2>6, PlainAdvice, TextAdviceCosts, BlockAdviceCosts
  <2>8. PageScore(Verdicts(d)) <= PageScore(Verdicts(e))
    BY <2>7 DEF Costless
  <2> QED BY <2>4, <2>5, <2>8
<1> QED BY <1>1, PageInvariant, PTL DEF PASpec, AdviceNeverCosts
=============================================================================
