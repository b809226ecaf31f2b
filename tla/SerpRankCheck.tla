---------------------------- MODULE SerpRankCheck ----------------------------
(***************************************************************************)
(* One SERP rank check: the row of rank_checks and everything that writes  *)
(* it.  The request inserts it; the task run_serp_check asks the provider, *)
(* stores the answer, parses it and sends build_preview; the sweeper       *)
(* recovers checks that stay "running"; build_preview ends the check.      *)
(*                                                                         *)
(* Each of these has a session that loads the row once and commits after   *)
(* every change, so that no row lock is held across another wait; what a   *)
(* commit writes is in OrmSession.  Time is not measured: any running row  *)
(* may grow older than the sweeper's cutoff, and only an UPDATE makes it   *)
(* young again.                                                            *)
(***************************************************************************)
EXTENDS Naturals, OrmSession

CONSTANTS
  Preview,     \* deliveries of build_preview
  MaxRetries,  \* max_retries of run_serp_check
  MaxFaults    \* bound on failures of database, broker, hosts, and time limits

ASSUME SerpAssumption == MaxRetries \in Nat /\ MaxFaults \in Nat

VARIABLES
  row,      \* the committed row of rank_checks
  aged,     \* whether row.updated_at is older than SERP_STUCK_JOB_TIMEOUT_SECONDS
  api,      \* the progress of POST /rank-checks
  task,     \* the delivery of run_serp_check and its object of the row
  sweep,    \* sweep_stuck_checks and its object of the row
  preview,  \* each delivery of build_preview and its object of the row
  faults    \* failures so far

vars == <<row, aged, api, task, sweep, preview, faults>>

InFlight == {"queued", "running"}

Row == [status  : {"absent", "queued", "running", "ranked", "done", "failed"},
        include : BOOLEAN,                         \* include_preview
        raw     : {"none", "good", "bad"},         \* raw_response; bad: unparseable
        result  : BOOLEAN,
        preview : {"none", "pending", "done", "failed"},
        error   : {"none", "provider", "parse", "stuck"}]

NoRow == [status |-> "absent", include |-> FALSE, raw |-> "none", result |-> FALSE,
          preview |-> "none", error |-> "none"]

\* The coroutine of run_check_async is under way.
Working == {"claiming", "calling", "parsing", "enqueuing"}

TypeOK ==
  /\ row \in Row /\ aged \in BOOLEAN
  /\ api \in {"idle", "created", "sent", "failed"}
  /\ task \in [pc      : {"unsent", "sent", "marking", "skipped", "ended"} \cup Working,
               watched : BOOLEAN,        \* the task's thread waits for the coroutine
               retries : 0 .. MaxRetries,
               obj     : Row]
  /\ sweep \in [pc : {"idle", "found", "enqueuing"}, obj : Row]
  /\ preview \in [Preview -> [pc : {"unsent", "sent", "rendering", "ended"}, obj : Row]]
  /\ faults \in 0 .. MaxFaults

Init ==
  /\ row = NoRow /\ aged = FALSE /\ api = "idle" /\ faults = 0
  /\ task = [pc |-> "unsent", watched |-> TRUE, retries |-> 0, obj |-> NoRow]
  /\ sweep = [pc |-> "idle", obj |-> NoRow]
  /\ preview = [v \in Preview |-> [pc |-> "unsent", obj |-> NoRow]]

\* A failure of the environment, as often as MaxFaults allows.
Fault == faults < MaxFaults /\ faults' = faults + 1

\* session.commit() of a session whose object was old and is now new.
Commit(old, new) ==
  /\ row' = Merged(old, new, row)
  /\ aged' = (aged /\ new = old)

-----------------------------------------------------------------------------
(* POST /rank-checks *)

\* prepare_check commits the row.
Create ==
  /\ api = "idle" /\ api' = "created"
  /\ \E include \in BOOLEAN :
       row' = [NoRow EXCEPT !.status = "queued", !.include = include]
  /\ UNCHANGED <<aged, task, sweep, preview, faults>>

Send ==
  /\ api = "created" /\ api' = "sent"
  /\ task' = [task EXCEPT !.pc = "sent"]
  /\ UNCHANGED <<row, aged, sweep, preview, faults>>

\* send_task raises: the request fails and the row stays.
SendFails ==
  /\ Fault
  /\ api = "created" /\ api' = "failed"
  /\ UNCHANGED <<row, aged, task, sweep, preview>>

-----------------------------------------------------------------------------
(* run_serp_check *)

\* What run_check_async does with the row it loaded: heal a ranked check whose
\* preview was never sent, resume from a stored answer, or ask the provider.
NeverEnqueued(r) == r.status = "ranked" /\ r.include /\ r.preview = "none"

Resumable(r) == r.status = "running" /\ r.raw # "none"

Askable_Always(r) == r.status # "absent" /\ ~Resumable(r)

Askable_NoResume(r) == r.status \in InFlight

Askable(r) == r.status \in InFlight /\ ~Resumable(r)

FirstStep(r) ==
  CASE Askable(r)       -> "claiming"
    [] NeverEnqueued(r) -> "enqueuing"
    [] Resumable(r)     -> "parsing"
    [] OTHER            -> "skipped"

Start ==
  /\ task.pc = "sent"
  /\ task' = [task EXCEPT !.pc = FirstStep(row), !.obj = row]
  /\ UNCHANGED <<row, aged, api, sweep, preview, faults>>

TaskCommits(new, to) ==
  /\ Commit(task.obj, new)
  /\ task' = [task EXCEPT !.pc = to, !.obj = new]

\* status = running; then the call of the provider.
Claim ==
  /\ task.pc = "claiming"
  /\ TaskCommits([task.obj EXCEPT !.status = "running"], "calling")
  /\ UNCHANGED <<api, sweep, preview, faults>>

\* The provider answered; the response is stored before it is parsed.
Answer(r) ==
  /\ task.pc = "calling"
  /\ TaskCommits([task.obj EXCEPT !.raw = r], "parsing")
  /\ UNCHANGED <<api, sweep, preview, faults>>

\* The coroutine raised.  If the task's thread still waits for it, it goes on to
\* mark_failed_if_pending.
AfterRaise == IF task.watched THEN "marking" ELSE "ended"

\* A 4xx or an unexpected error.
Rejected ==
  /\ task.pc = "calling"
  /\ TaskCommits([task.obj EXCEPT !.status = "failed", !.error = "provider"], AfterRaise)
  /\ UNCHANGED <<api, sweep, preview, faults>>

\* A timeout or a 5xx: the task is sent again, unless this was the last attempt.
MayRetry == task.watched /\ task.retries < MaxRetries

Retry ==
  /\ task.pc = "calling" /\ MayRetry
  /\ task' = [task EXCEPT !.pc = "sent", !.retries = task.retries + 1]
  /\ UNCHANGED <<row, aged, api, sweep, preview, faults>>

GiveUp ==
  /\ task.pc = "calling" /\ ~MayRetry
  /\ task' = [task EXCEPT !.pc = AfterRaise]
  /\ UNCHANGED <<row, aged, api, sweep, preview, faults>>

\* mark_failed_if_pending: one UPDATE whose WHERE looks at the current row.
MarkFailed_Always ==
  row' = [row EXCEPT !.status = "failed", !.error = "provider"] /\ aged' = FALSE

MarkFailed ==
  IF row.status \in InFlight
  THEN row' = [row EXCEPT !.status = "failed", !.error = "provider"] /\ aged' = FALSE
  ELSE UNCHANGED <<row, aged>>

Mark ==
  /\ task.pc = "marking"
  /\ MarkFailed
  /\ task' = [task EXCEPT !.pc = "ended"]
  /\ UNCHANGED <<api, sweep, preview, faults>>

-----------------------------------------------------------------------------
(* _finalize_from_raw, called by the task and by the sweeper *)

Finalized(r) ==
  IF r.raw = "bad" THEN [r EXCEPT !.status = "failed", !.error = "parse"]
  ELSE IF r.include
       THEN [r EXCEPT !.result = TRUE, !.status = "ranked", !.preview = "pending"]
       ELSE [r EXCEPT !.result = TRUE, !.status = "done"]

WantsPreview(r) == r.raw # "bad" /\ r.include

\* _enqueue_preview swallows the error of a send that fails.
EnqueuePreview ==
  \/ /\ \E v \in Preview : /\ preview[v].pc = "unsent"
                           /\ preview' = [preview EXCEPT ![v].pc = "sent"]
     /\ UNCHANGED faults
  \/ Fault /\ UNCHANGED preview

Parse ==
  /\ task.pc = "parsing"
  /\ TaskCommits(Finalized(task.obj),
                 IF WantsPreview(task.obj) THEN "enqueuing" ELSE "ended")
  /\ UNCHANGED <<api, sweep, preview, faults>>

Enqueue ==
  /\ task.pc = "enqueuing"
  /\ task' = [task EXCEPT !.pc = "ended"]
  /\ EnqueuePreview
  /\ UNCHANGED <<row, aged, api, sweep>>

-----------------------------------------------------------------------------
(* sweep_stuck_checks *)

\* Time passes.
Age ==
  /\ row.status = "running" /\ ~aged
  /\ aged' = TRUE
  /\ UNCHANGED <<row, api, task, sweep, preview, faults>>

\* find_stuck_running: every stuck row is loaded, then they are handled in turn.
Stuck_Answered == row.status = "running" /\ aged /\ row.raw # "none"

Stuck == row.status = "running" /\ aged

SweepFind ==
  /\ sweep.pc = "idle" /\ Stuck
  /\ sweep' = [pc |-> "found", obj |-> row]
  /\ UNCHANGED <<row, aged, api, task, preview, faults>>

SweepCommits(new, to) ==
  /\ Commit(sweep.obj, new)
  /\ sweep' = [pc |-> to, obj |-> new]

SweepResume ==
  /\ sweep.pc = "found" /\ sweep.obj.raw # "none"
  /\ SweepCommits(Finalized(sweep.obj),
                  IF WantsPreview(sweep.obj) THEN "enqueuing" ELSE "idle")
  /\ UNCHANGED <<api, task, preview, faults>>

SweepFail ==
  /\ sweep.pc = "found" /\ sweep.obj.raw = "none"
  /\ SweepCommits([sweep.obj EXCEPT !.status = "failed", !.error = "stuck"], "idle")
  /\ UNCHANGED <<api, task, preview, faults>>

SweepEnqueue ==
  /\ sweep.pc = "enqueuing"
  /\ sweep' = [sweep EXCEPT !.pc = "idle"]
  /\ EnqueuePreview
  /\ UNCHANGED <<row, aged, api, task>>

-----------------------------------------------------------------------------
(* build_preview *)

PreviewStart(v) ==
  /\ preview[v].pc = "sent"
  /\ preview' = [preview EXCEPT ![v] =
                   [pc |-> IF row.preview = "pending" THEN "rendering" ELSE "ended",
                    obj |-> row]]
  /\ UNCHANGED <<row, aged, api, task, sweep, faults>>

\* A check that is not ranked or has no result gets no preview.
Renderable(r) == r.status = "ranked" /\ r.result

PreviewEnds(v) ==
  /\ preview[v].pc = "rendering"
  /\ \E outcome \in {"done", "failed"} :
       LET old == preview[v].obj
           new == [old EXCEPT !.preview = outcome, !.status = "done"]
       IN  /\ outcome = "done" => Renderable(old)
           /\ Commit(old, new)
           /\ preview' = [preview EXCEPT ![v] = [pc |-> "ended", obj |-> new]]
  /\ UNCHANGED <<api, task, sweep, faults>>

-----------------------------------------------------------------------------
(* Failures *)

\* A database error that the task does not retry.
DatabaseFails ==
  /\ Fault
  /\ task.pc \in {"sent", "claiming", "calling", "parsing"}
  /\ task' = [task EXCEPT !.pc = AfterRaise]
  /\ UNCHANGED <<row, aged, api, sweep, preview>>

\* The soft time limit interrupts the thread that waits, which marks the check;
\* the coroutine goes on in the process's event loop.
TimeLimit ==
  /\ Fault
  /\ task.watched /\ task.pc \in Working
  /\ MarkFailed
  /\ task' = [task EXCEPT !.watched = FALSE]
  /\ UNCHANGED <<api, sweep, preview>>

\* The process dies (the hard time limit kills it): its parent acknowledges the
\* message.  Or the host dies, and the broker delivers an unacknowledged message
\* again.
Die ==
  /\ Fault
  /\ task.pc \in {"sent", "marking"} \cup Working
  /\ task' = [task EXCEPT !.pc = "ended"]
  /\ UNCHANGED <<row, aged, api, sweep, preview>>

Crash ==
  /\ Fault
  /\ task.watched /\ task.pc \in {"marking"} \cup Working
  /\ task' = [task EXCEPT !.pc = "sent"]
  /\ UNCHANGED <<row, aged, api, sweep, preview>>

\* The sweeper's commit fails, or its process dies.
SweepBreaks ==
  /\ Fault
  /\ sweep.pc # "idle" /\ sweep' = [sweep EXCEPT !.pc = "idle"]
  /\ UNCHANGED <<row, aged, api, task, preview>>

\* build_preview ends without its commit, or is delivered again (max_retries = 0).
PreviewBreaks(v) ==
  /\ Fault
  /\ preview[v].pc = "rendering"
  /\ \E to \in {"ended", "sent"} : preview' = [preview EXCEPT ![v].pc = to]
  /\ UNCHANGED <<row, aged, api, task, sweep>>

-----------------------------------------------------------------------------
ApiStep == Create \/ Send \/ SendFails
Provider == (\E r \in {"good", "bad"} : Answer(r)) \/ Rejected \/ Retry \/ GiveUp
TaskStep == Start \/ Claim \/ Mark \/ Parse \/ Enqueue
SweepStep == SweepFind \/ SweepResume \/ SweepFail \/ SweepEnqueue
PreviewStep(v) == PreviewStart(v) \/ PreviewEnds(v)
Failure ==
  \/ DatabaseFails \/ TimeLimit \/ Die \/ Crash \/ SweepBreaks
  \/ \E v \in Preview : PreviewBreaks(v)

Next ==
  \/ ApiStep \/ Provider \/ TaskStep \/ Age \/ SweepStep \/ Failure
  \/ \E v \in Preview : PreviewStep(v)

\* Messages are delivered and coroutines run, beat starts the sweeper again and
\* again, and time passes.  That the provider answers is not assumed.
Fairness ==
  /\ WF_vars(Send) /\ WF_vars(TaskStep) /\ WF_vars(Age) /\ WF_vars(SweepStep)
  /\ \A v \in Preview : WF_vars(PreviewStep(v))

Spec == Init /\ [][Next]_vars /\ Fairness

-----------------------------------------------------------------------------
(* Properties *)

\* A result comes from a stored answer that can be parsed, whichever of the task
\* and the sweeper wrote it, and a check that never got a result never got into
\* the preview stage.
ResultHasAnswer ==
  /\ row.result => row.raw = "good"
  /\ row.preview # "none" => row.result

\* The provider is not asked again once its answer is stored, however often the
\* task is retried or delivered again.
NoCallOnceAnswered ==
  [][task.pc = "claiming" /\ task'.pc = "calling" => row.raw = "none"]_vars

\* A check that has its result is failed afterwards only by a sweeper that had
\* loaded it before the answer was stored: not by an error, a time limit, a
\* retry or the preview.
ResultFailedOnlyBySweeper ==
  [][row.result /\ row.status # "failed" /\ row'.status = "failed"
       => sweep.pc = "found" /\ sweep.obj.raw = "none"]_vars

\* A failed check is overturned only by a session that had loaded it before it
\* failed: a delivery that starts after the failure does nothing.
OverturnedOnlyByLateSession ==
  [][row.status = "failed" /\ row'.status # "failed"
       => \/ task.pc \in Working /\ task.obj.status \in InFlight
          \/ sweep.pc = "found" /\ sweep.obj.status = "running"
          \/ \E v \in Preview :
               preview[v].pc = "rendering" /\ preview[v].obj.preview = "pending"]_vars

\* A check does not stay in flight, and so block identical requests, unless its
\* message is gone before the check was claimed.
OnlyLostMessageStrands ==
  row.status \in InFlight ~>
    \/ row.status \notin InFlight
    \/ row.status = "queued" /\ (api = "failed" \/ task.pc = "ended")
=============================================================================
