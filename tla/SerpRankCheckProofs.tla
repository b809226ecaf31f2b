------------------------- MODULE SerpRankCheckProofs -------------------------
(***************************************************************************)
(* What holds of SerpRankCheck for any number of retries, failures and     *)
(* deliveries of the preview: its types, that a result comes from a stored *)
(* answer, that the provider is not asked for what it has answered, and    *)
(* which sessions may fail a ranked check or overturn a failed one.        *)
(***************************************************************************)
EXTENDS SerpRankCheck, TLAPS

-----------------------------------------------------------------------------
(* Writes of the ORM *)

\* A commit writes the columns that the session changed and keeps the others.
LEMMA CommitFacts ==
  ASSUME row \in Row, aged \in BOOLEAN, NEW old \in Row, NEW new \in Row,
         Commit(old, new)
  PROVE  /\ row' \in Row /\ aged' \in BOOLEAN
         /\ row'.status = IF new.status # old.status THEN new.status ELSE row.status
         /\ row'.raw = IF new.raw # old.raw THEN new.raw ELSE row.raw
         /\ row'.result = IF new.result # old.result THEN new.result ELSE row.result
         /\ row'.preview = IF new.preview # old.preview THEN new.preview ELSE row.preview
<1>1. DOMAIN row = {"status", "include", "raw", "result", "preview", "error"}
  BY DEF Row
<1>2. row' = [status  |-> IF new.status # old.status THEN new.status ELSE row.status,
              include |-> IF new.include # old.include THEN new.include ELSE row.include,
              raw     |-> IF new.raw # old.raw THEN new.raw ELSE row.raw,
              result  |-> IF new.result # old.result THEN new.result ELSE row.result,
              preview |-> IF new.preview # old.preview THEN new.preview ELSE row.preview,
              error   |-> IF new.error # old.error THEN new.error ELSE row.error]
  BY <1>1 DEF Commit, Merged
<1>3. aged' \in BOOLEAN
  BY DEF Commit
<1> QED
  BY <1>2, <1>3 DEF Row

\* The objects that the sessions write.
LEMMA ClaimedFacts ==
  ASSUME NEW r \in Row
  PROVE  LET n == [r EXCEPT !.status = "running"]
         IN  /\ n \in Row /\ n.status = "running" /\ n.raw = r.raw
             /\ n.result = r.result /\ n.preview = r.preview
  BY DEF Row

LEMMA AnsweredFacts ==
  ASSUME NEW r \in Row, NEW a \in {"good", "bad"}
  PROVE  LET n == [r EXCEPT !.raw = a]
         IN  /\ n \in Row /\ n.status = r.status /\ n.raw = a
             /\ n.result = r.result /\ n.preview = r.preview
  BY DEF Row

LEMMA FailedFacts ==
  ASSUME NEW r \in Row, NEW e \in {"provider", "stuck"}
  PROVE  LET n == [r EXCEPT !.status = "failed", !.error = e]
         IN  /\ n \in Row /\ n.status = "failed" /\ n.raw = r.raw
             /\ n.result = r.result /\ n.preview = r.preview
  BY DEF Row

LEMMA FinalizedFacts ==
  ASSUME NEW r \in Row
  PROVE  LET n == Finalized(r)
         IN  /\ n \in Row /\ n.raw = r.raw
             /\ r.raw = "bad" =>
                  n.status = "failed" /\ n.result = r.result /\ n.preview = r.preview
             /\ r.raw # "bad" =>
                  /\ n.result /\ n.status \in {"ranked", "done"}
                  /\ n.preview \in {r.preview, "pending"}
<1>1. CASE r.raw = "bad"
  BY <1>1 DEF Finalized, Row
<1>2. CASE r.raw # "bad" /\ r.include
  BY <1>2 DEF Finalized, Row
<1>3. CASE r.raw # "bad" /\ ~r.include
  BY <1>3 DEF Finalized, Row
<1> QED
  BY <1>1, <1>2, <1>3

LEMMA PreviewedFacts ==
  ASSUME NEW r \in Row, NEW o \in {"done", "failed"}
  PROVE  LET n == [r EXCEPT !.preview = o, !.status = "done"]
         IN  /\ n \in Row /\ n.status = "done" /\ n.raw = r.raw
             /\ n.result = r.result /\ n.preview = o
  BY DEF Row

\* The only row that is not written by a session's commit or by MarkFailed.
LEMMA NoRowFacts ==
  /\ NoRow \in Row /\ NoRow.status = "absent" /\ NoRow.raw = "none" /\ ~NoRow.result
  /\ NoRow.preview = "none"
  BY DEF NoRow, Row

LEMMA MarkFailedFacts ==
  ASSUME row \in Row, aged \in BOOLEAN, MarkFailed
  PROVE  /\ row' \in Row /\ aged' \in BOOLEAN
         /\ row'.raw = row.raw /\ row'.result = row.result /\ row'.preview = row.preview
         /\ row'.status = IF row.status \in InFlight THEN "failed" ELSE row.status
<1>1. CASE row.status \in InFlight
  BY <1>1, FailedFacts DEF MarkFailed
<1>2. CASE row.status \notin InFlight
  BY <1>2 DEF MarkFailed
<1> QED
  BY <1>1, <1>2

\* The gate of run_check_async.
LEMMA FirstStepFacts ==
  ASSUME NEW r \in Row
  PROVE  /\ FirstStep(r) \in {"claiming", "enqueuing", "parsing", "skipped"}
         /\ FirstStep(r) = "claiming" => Askable(r)
         /\ FirstStep(r) = "parsing" => Resumable(r)
<1>1. CASE Askable(r)
  <2>1. ~NeverEnqueued(r) /\ ~Resumable(r)
    BY <1>1 DEF Askable, NeverEnqueued, Resumable, InFlight
  <2> QED
    BY <1>1, <2>1 DEF FirstStep
<1>2. CASE NeverEnqueued(r)
  <2>1. ~Askable(r) /\ ~Resumable(r)
    BY <1>2 DEF Askable, NeverEnqueued, Resumable, InFlight
  <2> QED
    BY <1>2, <2>1 DEF FirstStep
<1>3. CASE Resumable(r)
  <2>1. ~Askable(r) /\ ~NeverEnqueued(r)
    BY <1>3 DEF Askable, NeverEnqueued, Resumable, InFlight
  <2> QED
    BY <1>3, <2>1 DEF FirstStep
<1>4. CASE ~Askable(r) /\ ~NeverEnqueued(r) /\ ~Resumable(r)
  BY <1>4 DEF FirstStep
<1> QED
  BY <1>1, <1>2, <1>3, <1>4

-----------------------------------------------------------------------------
(* Type correctness *)

LEMMA FaultType ==
  ASSUME TypeOK, Fault
  PROVE  faults' \in 0 .. MaxFaults
  BY SerpAssumption DEF TypeOK, Fault

LEMMA EnqueueType ==
  ASSUME TypeOK, EnqueuePreview
  PROVE  /\ faults' \in 0 .. MaxFaults
         /\ preview' \in [Preview -> [pc : {"unsent", "sent", "rendering", "ended"},
                                      obj : Row]]
         /\ \A v \in Preview : /\ preview'[v].obj = preview[v].obj
                               /\ preview'[v].pc \in {preview[v].pc, "sent"}
<1>1. CASE Fault /\ UNCHANGED preview
  BY <1>1, FaultType DEF TypeOK
<1>2. ASSUME NEW v \in Preview, preview' = [preview EXCEPT ![v].pc = "sent"],
             UNCHANGED faults
      PROVE  /\ faults' \in 0 .. MaxFaults
             /\ preview' \in [Preview -> [pc : {"unsent", "sent", "rendering", "ended"},
                                          obj : Row]]
             /\ \A w \in Preview : /\ preview'[w].obj = preview[w].obj
                                   /\ preview'[w].pc \in {preview[w].pc, "sent"}
  BY <1>2 DEF TypeOK
<1> QED
  BY <1>1, <1>2 DEF EnqueuePreview

\* The task's record after a step that changes its place, and perhaps its object.
TaskType == [pc      : {"unsent", "sent", "marking", "skipped", "ended"} \cup Working,
             watched : BOOLEAN,
             retries : 0 .. MaxRetries,
             obj     : Row]

LEMMA TaskGoes ==
  ASSUME TypeOK,
         NEW to \in {"unsent", "sent", "marking", "skipped", "ended"} \cup Working
  PROVE  [task EXCEPT !.pc = to] \in TaskType
  BY DEF TypeOK, TaskType

LEMMA TaskMoves ==
  ASSUME TypeOK,
         NEW to \in {"unsent", "sent", "marking", "skipped", "ended"} \cup Working,
         NEW o \in Row
  PROVE  [task EXCEPT !.pc = to, !.obj = o] \in TaskType
  BY DEF TypeOK, TaskType

LEMMA TypeStep ==
  ASSUME TypeOK, [Next]_vars
  PROVE  TypeOK'
<1> USE DEF TaskType
<1>1. CASE Create
  <2>1. row' \in Row
    BY <1>1, NoRowFacts DEF Create, Row
  <2> QED
    BY <1>1, <2>1 DEF TypeOK, Create
<1>2. CASE Send \/ SendFails
  <2>1. task' \in TaskType /\ faults' \in 0 .. MaxFaults
    BY <1>2, TaskGoes, FaultType DEF Send, SendFails, TypeOK
  <2> QED
    BY <1>2, <2>1 DEF TypeOK, Send, SendFails
<1>3. CASE Start
  <2>1. task' \in TaskType
    BY <1>3, FirstStepFacts, TaskMoves DEF Start, TypeOK, Working
  <2> QED
    BY <1>3, <2>1 DEF TypeOK, Start
<1>4. ASSUME NEW new \in Row, NEW to \in {"marking", "ended"} \cup Working,
             TaskCommits(new, to), UNCHANGED <<api, sweep, preview, faults>>
      PROVE  TypeOK'
  <2>1. row' \in Row /\ aged' \in BOOLEAN
    BY <1>4, CommitFacts DEF TaskCommits, TypeOK
  <2>2. task' \in TaskType
    BY <1>4, TaskMoves DEF TaskCommits
  <2> QED
    BY <1>4, <2>1, <2>2 DEF TypeOK
<1>5. CASE Claim \/ (\E r \in {"good", "bad"} : Answer(r)) \/ Rejected \/ Parse
  <2>1. task.obj \in Row
    BY DEF TypeOK
  <2>2. CASE Claim
    BY <1>4, <2>1, <2>2, ClaimedFacts DEF Claim, Working
  <2>3. CASE \E r \in {"good", "bad"} : Answer(r)
    BY <1>4, <2>1, <2>3, AnsweredFacts DEF Answer, Working
  <2>4. CASE Rejected
    BY <1>4, <2>1, <2>4, FailedFacts DEF Rejected, AfterRaise
  <2>5. CASE Parse
    BY <1>4, <2>1, <2>5, FinalizedFacts DEF Parse, Working
  <2> QED
    BY <1>5, <2>2, <2>3, <2>4, <2>5
<1>6. CASE Retry
  <2>1. task.retries + 1 \in 0 .. MaxRetries
    BY <1>6, SerpAssumption DEF Retry, MayRetry, TypeOK
  <2>2. task' \in TaskType
    BY <1>6, <2>1 DEF Retry, TypeOK
  <2> QED
    BY <1>6, <2>2 DEF Retry, TypeOK
<1>7. CASE GiveUp \/ DatabaseFails \/ Die \/ Crash
  <2>1. \E to \in {"marking", "ended", "sent"} : task' = [task EXCEPT !.pc = to]
    BY <1>7 DEF GiveUp, DatabaseFails, Die, Crash, AfterRaise
  <2>3. task' \in TaskType
    BY <2>1, TaskGoes
  <2>2. faults' \in 0 .. MaxFaults
    BY <1>7, FaultType DEF GiveUp, DatabaseFails, Die, Crash, TypeOK
  <2> QED
    BY <1>7, <2>3, <2>2 DEF TypeOK, GiveUp, DatabaseFails, Die, Crash
<1>8. CASE Mark \/ TimeLimit
  <2>1. row' \in Row /\ aged' \in BOOLEAN
    BY <1>8, MarkFailedFacts DEF Mark, TimeLimit, TypeOK
  <2>2. task' \in TaskType
    <3>1. CASE Mark
      BY <3>1, TaskGoes DEF Mark
    <3>2. CASE TimeLimit
      BY <3>2 DEF TimeLimit, TypeOK
    <3> QED
      BY <1>8, <3>1, <3>2
  <2>3. faults' \in 0 .. MaxFaults
    BY <1>8, FaultType DEF Mark, TimeLimit, TypeOK
  <2> QED
    BY <1>8, <2>1, <2>2, <2>3 DEF TypeOK, Mark, TimeLimit
<1>9. CASE Enqueue
  <2>1. task' \in TaskType
    BY <1>9, TaskGoes DEF Enqueue
  <2> QED
    BY <1>9, <2>1, EnqueueType DEF TypeOK, Enqueue
<1>10. CASE Age \/ UNCHANGED vars
  BY <1>10 DEF TypeOK, Age, vars
<1>11. CASE SweepFind
  BY <1>11 DEF TypeOK, SweepFind
<1>12. ASSUME NEW new \in Row, NEW to \in {"enqueuing", "idle"}, SweepCommits(new, to),
              UNCHANGED <<api, task, preview, faults>>
       PROVE  TypeOK'
  <2>1. row' \in Row /\ aged' \in BOOLEAN
    BY <1>12, CommitFacts DEF SweepCommits, TypeOK
  <2> QED
    BY <1>12, <2>1 DEF SweepCommits, TypeOK
<1>13. CASE SweepResume \/ SweepFail
  <2>1. sweep.obj \in Row
    BY DEF TypeOK
  <2>2. CASE SweepResume
    BY <1>12, <2>1, <2>2, FinalizedFacts DEF SweepResume
  <2>3. CASE SweepFail
    BY <1>12, <2>1, <2>3, FailedFacts DEF SweepFail
  <2> QED
    BY <1>13, <2>2, <2>3
<1>14. CASE SweepEnqueue
  <2>1. sweep' \in [pc : {"idle", "found", "enqueuing"}, obj : Row]
    BY <1>14 DEF SweepEnqueue, TypeOK
  <2> QED
    BY <1>14, <2>1, EnqueueType DEF TypeOK, SweepEnqueue
<1>15. CASE SweepBreaks
  BY <1>15, FaultType DEF TypeOK, SweepBreaks
<1>16. ASSUME NEW v \in Preview, PreviewStart(v)
       PROVE  TypeOK'
  BY <1>16 DEF TypeOK, PreviewStart
<1>17. ASSUME NEW v \in Preview, PreviewEnds(v)
       PROVE  TypeOK'
  <2>1. preview[v].obj \in Row
    BY DEF TypeOK
  <2>2. PICK outcome \in {"done", "failed"} :
          LET new == [preview[v].obj EXCEPT !.preview = outcome, !.status = "done"]
          IN  /\ Commit(preview[v].obj, new)
              /\ preview' = [preview EXCEPT ![v] = [pc |-> "ended", obj |-> new]]
    BY <1>17 DEF PreviewEnds
  <2>3. row' \in Row /\ aged' \in BOOLEAN
    BY <2>1, <2>2, PreviewedFacts, CommitFacts DEF TypeOK
  <2> QED
    BY <1>17, <2>1, <2>2, <2>3, PreviewedFacts DEF TypeOK, PreviewEnds
<1>18. ASSUME NEW v \in Preview, PreviewBreaks(v)
       PROVE  TypeOK'
  BY <1>18, FaultType DEF TypeOK, PreviewBreaks
<1> QED
  BY <1>1, <1>2, <1>3, <1>5, <1>6, <1>7, <1>8, <1>9, <1>10, <1>11, <1>13, <1>14, <1>15,
     <1>16, <1>17, <1>18
     DEF Next, ApiStep, Provider, TaskStep, SweepStep, PreviewStep, Failure

\* Every variable keeps its type: in particular the task is never sent more often
\* than max_retries allows.
THEOREM CheckTypeCorrect == Spec => []TypeOK
<1>1. Init => TypeOK
  <2> SUFFICES ASSUME Init PROVE TypeOK
    OBVIOUS
  <2>1. task \in [pc      : {"unsent", "sent", "marking", "skipped", "ended"} \cup Working,
                  watched : BOOLEAN, retries : 0 .. MaxRetries, obj : Row]
    BY NoRowFacts, SerpAssumption DEF Init
  <2>2. 0 \in 0 .. MaxFaults
    BY SerpAssumption
  <2>3. /\ sweep \in [pc : {"idle", "found", "enqueuing"}, obj : Row]
        /\ preview \in [Preview -> [pc : {"unsent", "sent", "rendering", "ended"},
                                    obj : Row]]
    BY NoRowFacts DEF Init
  <2> QED
    BY NoRowFacts, <2>1, <2>2, <2>3 DEF Init, TypeOK
<1>2. TypeOK /\ [Next]_vars => TypeOK'
  BY TypeStep
<1> QED
  BY <1>1, <1>2, PTL DEF Spec

-----------------------------------------------------------------------------
(* The inductive invariant *)

\* Nothing happens before the request.
Fresh ==
  api = "idle" =>
    /\ row = NoRow /\ task.obj = NoRow /\ sweep.obj = NoRow
    /\ task.pc = "unsent" /\ sweep.pc = "idle"
    /\ \A v \in Preview : preview[v].pc = "unsent"

\* There is no answer before the provider is asked, and a check that was claimed
\* does not go back to the queue.
Unanswered ==
  /\ row.status = "queued" => row.raw = "none"
  /\ task.pc \in {"claiming", "calling"} => row.raw = "none"
  /\ task.obj.status = "running" => row.status # "queued"

\* What a session knows of the answer and of the result is still true.
Behind(o) == (o.raw # "none" => row.raw = o.raw) /\ (o.result => row.result)
ObjectsBehind == Behind(task.obj) /\ Behind(sweep.obj)

\* What a session that is about to write has loaded.
Ready ==
  /\ task.pc = "claiming" => task.obj.status \in InFlight
  /\ task.pc = "calling" => task.obj.status = "running"
  /\ task.pc = "parsing" => task.obj.status \in InFlight /\ task.obj.raw # "none"
  /\ sweep.pc = "found" => sweep.obj.status = "running"
  /\ \A v \in Preview : preview[v].pc = "rendering" =>
                          preview[v].obj.preview = "pending" /\ row.result

ResultSettled == row.result => row.status \notin InFlight \cup {"absent"}

CheckInv ==
  Fresh /\ Unanswered /\ ObjectsBehind /\ Ready /\ ResultSettled /\ ResultHasAnswer

LEMMA InvStep ==
  ASSUME TypeOK, CheckInv, [Next]_vars
  PROVE  CheckInv'
<1> USE DEF CheckInv, Fresh, Unanswered, Behind, ObjectsBehind, Ready, ResultSettled,
            ResultHasAnswer, InFlight
<1>1. row \in Row /\ aged \in BOOLEAN /\ task.obj \in Row /\ sweep.obj \in Row
      /\ \A v \in Preview : preview[v].obj \in Row
  BY DEF TypeOK
\* Steps of the task that leave the row and its object alone.
<1>2. ASSUME NEW to \in {"sent", "marking", "enqueuing", "skipped", "ended"},
             task' = [task EXCEPT !.pc = to] \/ UNCHANGED task,
             task.pc # "unsent" \/ api' # "idle",
             UNCHANGED <<row, sweep>>, api' = api \/ api' # "idle",
             \A v \in Preview : /\ preview'[v].obj = preview[v].obj
                                /\ preview'[v].pc \in {preview[v].pc, "sent"}
      PROVE  CheckInv'
  <2>1. task'.obj = task.obj /\ task'.pc \in {task.pc, to}
    BY <1>2 DEF TypeOK
  <2>2. api' # "idle"
    BY <1>2
  <2> QED
    BY <1>2, <2>1, <2>2
<1>3. CASE Create
  <2>1. row'.status = "queued" /\ row'.raw = "none" /\ ~row'.result
        /\ row'.preview = "none"
    BY <1>3, NoRowFacts DEF Create, Row
  <2>2. UNCHANGED <<task, sweep, preview>> /\ api' = "created" /\ api = "idle"
    BY <1>3 DEF Create
  <2> QED
    BY <2>1, <2>2, NoRowFacts
<1>4. CASE Send \/ SendFails
  BY <1>2, <1>4 DEF Send, SendFails
<1>5. CASE Start
  <2>1. /\ task'.obj = row /\ task'.pc = FirstStep(row) /\ task.pc = "sent"
        /\ UNCHANGED <<row, api, sweep, preview>>
    BY <1>5 DEF Start, TypeOK
  <2>2. /\ task'.pc \in {"claiming", "enqueuing", "parsing", "skipped"}
        /\ task'.pc = "claiming" => Askable(row)
        /\ task'.pc = "parsing" => Resumable(row)
    BY <1>1, <2>1, FirstStepFacts
  <2> QED
    BY <2>1, <2>2 DEF Askable, Resumable
<1>6. ASSUME NEW new \in Row, NEW to \in {"marking", "ended", "enqueuing", "calling",
                                          "parsing"},
             TaskCommits(new, to)
      PROVE  /\ task'.obj = new /\ task'.pc = to
             /\ row'.status = IF new.status # task.obj.status THEN new.status ELSE row.status
             /\ row'.raw = IF new.raw # task.obj.raw THEN new.raw ELSE row.raw
             /\ row'.result = IF new.result # task.obj.result THEN new.result ELSE row.result
             /\ row'.preview = IF new.preview # task.obj.preview THEN new.preview
                                                                 ELSE row.preview
  <2>1. task'.obj = new /\ task'.pc = to /\ Commit(task.obj, new)
    BY <1>6 DEF TaskCommits, TypeOK
  <2> QED
    BY <1>1, <2>1, CommitFacts
<1>7. CASE Claim
  <2> DEFINE new == [task.obj EXCEPT !.status = "running"]
  <2>1. /\ new \in Row /\ new.status = "running" /\ new.raw = task.obj.raw
        /\ new.result = task.obj.result /\ new.preview = task.obj.preview
    BY <1>1, ClaimedFacts
  <2>2. TaskCommits(new, "calling") /\ UNCHANGED <<api, sweep, preview>>
        /\ task.pc = "claiming"
    BY <1>7 DEF Claim
  <2> HIDE DEF new
  <2> QED
    BY <1>6, <2>1, <2>2
<1>8. ASSUME NEW r \in {"good", "bad"}, Answer(r)
      PROVE  CheckInv'
  <2> DEFINE new == [task.obj EXCEPT !.raw = r]
  <2>1. /\ new \in Row /\ new.status = task.obj.status /\ new.raw = r
        /\ new.result = task.obj.result /\ new.preview = task.obj.preview
    BY <1>1, AnsweredFacts
  <2>2. TaskCommits(new, "parsing") /\ UNCHANGED <<api, sweep, preview>>
        /\ task.pc = "calling"
    BY <1>8 DEF Answer
  <2> HIDE DEF new
  <2> QED
    BY <1>6, <2>1, <2>2
<1>9. CASE Rejected
  <2> DEFINE new == [task.obj EXCEPT !.status = "failed", !.error = "provider"]
  <2>1. /\ new \in Row /\ new.status = "failed" /\ new.raw = task.obj.raw
        /\ new.result = task.obj.result /\ new.preview = task.obj.preview
    BY <1>1, FailedFacts
  <2>2. TaskCommits(new, AfterRaise) /\ UNCHANGED <<api, sweep, preview>>
        /\ task.pc = "calling"
    BY <1>9 DEF Rejected
  <2>3. AfterRaise \in {"marking", "ended"}
    BY DEF AfterRaise
  <2> HIDE DEF new
  <2> QED
    BY <1>6, <2>1, <2>2, <2>3
<1>10. CASE Parse
  <2> DEFINE new == Finalized(task.obj)
             to == IF WantsPreview(task.obj) THEN "enqueuing" ELSE "ended"
  <2>1. /\ new \in Row /\ new.raw = task.obj.raw
        /\ task.obj.raw = "bad" =>
             new.status = "failed" /\ new.result = task.obj.result
               /\ new.preview = task.obj.preview
        /\ task.obj.raw # "bad" =>
             /\ new.result /\ new.status \in {"ranked", "done"}
             /\ new.preview \in {task.obj.preview, "pending"}
    BY <1>1, FinalizedFacts
  <2>2. TaskCommits(new, to) /\ UNCHANGED <<api, sweep, preview>> /\ task.pc = "parsing"
    BY <1>10 DEF Parse
  <2>3. to \in {"enqueuing", "ended"} /\ task.obj.raw \in {"good", "bad"}
    BY <1>1, <2>2 DEF Row
  <2> HIDE DEF new, to
  <2> QED
    BY <1>6, <2>1, <2>2, <2>3
<1>11. CASE Retry
  <2>1. /\ task'.obj = task.obj /\ task'.pc = "sent" /\ task.pc = "calling"
        /\ UNCHANGED <<row, api, sweep, preview>>
    BY <1>11 DEF Retry, TypeOK
  <2> QED
    BY <2>1
<1>12. CASE GiveUp \/ DatabaseFails \/ Die \/ Crash
  <2>1. /\ \E to \in {"marking", "ended", "sent"} : task' = [task EXCEPT !.pc = to]
        /\ task.pc # "unsent" /\ UNCHANGED <<row, api, sweep, preview>>
    BY <1>12 DEF GiveUp, DatabaseFails, Die, Crash, AfterRaise, Working
  <2>2. api # "idle"
    BY <2>1
  <2> QED
    BY <1>2, <2>1, <2>2
<1>13. CASE Mark \/ TimeLimit
  <2>1. MarkFailed /\ UNCHANGED <<api, sweep, preview>> /\ task.pc # "unsent"
    BY <1>13 DEF Mark, TimeLimit, Working
  <2>2. task'.obj = task.obj /\ task'.pc \in {task.pc, "ended"}
    BY <1>13 DEF Mark, TimeLimit, TypeOK
  <2>3. /\ row'.raw = row.raw /\ row'.result = row.result /\ row'.preview = row.preview
        /\ row'.status = IF row.status \in InFlight THEN "failed" ELSE row.status
    BY <1>1, <2>1, MarkFailedFacts
  <2> QED
    BY <2>1, <2>2, <2>3
<1>14. CASE Enqueue
  <2>1. task' = [task EXCEPT !.pc = "ended"] /\ task.pc = "enqueuing"
        /\ UNCHANGED <<row, api, sweep>>
    BY <1>14 DEF Enqueue
  <2>2. \A v \in Preview : /\ preview'[v].obj = preview[v].obj
                           /\ preview'[v].pc \in {preview[v].pc, "sent"}
    BY <1>14, EnqueueType DEF Enqueue
  <2> QED
    BY <1>2, <2>1, <2>2
<1>15. CASE Age \/ UNCHANGED vars
  BY <1>15 DEF Age, vars
<1>16. CASE SweepFind
  <2>1. /\ sweep'.obj = row /\ sweep'.pc = "found" /\ row.status = "running"
        /\ UNCHANGED <<row, api, task, preview>>
    BY <1>16 DEF SweepFind, Stuck
  <2> QED
    BY <2>1, NoRowFacts
<1>17. ASSUME NEW new \in Row, NEW to \in {"idle", "enqueuing"}, SweepCommits(new, to)
       PROVE  /\ sweep'.obj = new /\ sweep'.pc = to
              /\ row'.status = IF new.status # sweep.obj.status THEN new.status
                                                                ELSE row.status
              /\ row'.raw = IF new.raw # sweep.obj.raw THEN new.raw ELSE row.raw
              /\ row'.result = IF new.result # sweep.obj.result THEN new.result
                                                                ELSE row.result
              /\ row'.preview = IF new.preview # sweep.obj.preview THEN new.preview
                                                                   ELSE row.preview
  <2>1. sweep'.obj = new /\ sweep'.pc = to /\ Commit(sweep.obj, new)
    BY <1>17 DEF SweepCommits
  <2> QED
    BY <1>1, <2>1, CommitFacts
<1>18. CASE SweepResume
  <2> DEFINE new == Finalized(sweep.obj)
             to == IF WantsPreview(sweep.obj) THEN "enqueuing" ELSE "idle"
  <2>1. /\ new \in Row /\ new.raw = sweep.obj.raw
        /\ sweep.obj.raw = "bad" =>
             new.status = "failed" /\ new.result = sweep.obj.result
               /\ new.preview = sweep.obj.preview
        /\ sweep.obj.raw # "bad" =>
             /\ new.result /\ new.status \in {"ranked", "done"}
             /\ new.preview \in {sweep.obj.preview, "pending"}
    BY <1>1, FinalizedFacts
  <2>2. /\ SweepCommits(new, to) /\ UNCHANGED <<api, task, preview>>
        /\ sweep.pc = "found" /\ sweep.obj.raw # "none"
    BY <1>18 DEF SweepResume
  <2>3. to \in {"enqueuing", "idle"} /\ sweep.obj.raw \in {"good", "bad"}
    BY <1>1, <2>2 DEF Row
  <2> HIDE DEF new, to
  <2> QED
    BY <1>17, <2>1, <2>2, <2>3
<1>19. CASE SweepFail
  <2> DEFINE new == [sweep.obj EXCEPT !.status = "failed", !.error = "stuck"]
  <2>1. /\ new \in Row /\ new.status = "failed" /\ new.raw = sweep.obj.raw
        /\ new.result = sweep.obj.result /\ new.preview = sweep.obj.preview
    BY <1>1, FailedFacts
  <2>2. SweepCommits(new, "idle") /\ UNCHANGED <<api, task, preview>>
        /\ sweep.pc = "found"
    BY <1>19 DEF SweepFail
  <2> HIDE DEF new
  <2> QED
    BY <1>17, <2>1, <2>2
<1>20. CASE SweepEnqueue \/ SweepBreaks
  <2>1. /\ sweep'.obj = sweep.obj /\ sweep'.pc = "idle" /\ sweep.pc # "idle"
        /\ UNCHANGED <<row, api, task>>
    BY <1>20 DEF SweepEnqueue, SweepBreaks, TypeOK
  <2>2. \A v \in Preview : /\ preview'[v].obj = preview[v].obj
                           /\ preview'[v].pc \in {preview[v].pc, "sent"}
    BY <1>20, EnqueueType DEF SweepEnqueue, SweepBreaks
  <2> QED
    BY <2>1, <2>2
<1>21. ASSUME NEW v \in Preview, PreviewStart(v)
       PROVE  CheckInv'
  <2>1. /\ preview[v].pc = "sent" /\ UNCHANGED <<row, api, task, sweep>>
        /\ \A w \in Preview \ {v} : preview'[w] = preview[w]
        /\ preview'[v].obj = row
        /\ preview'[v].pc = IF row.preview = "pending" THEN "rendering" ELSE "ended"
    BY <1>21 DEF PreviewStart, TypeOK
  <2> QED
    BY <2>1
<1>22. ASSUME NEW v \in Preview, PreviewEnds(v)
       PROVE  CheckInv'
  <2>1. PICK outcome \in {"done", "failed"} :
          LET new == [preview[v].obj EXCEPT !.preview = outcome, !.status = "done"]
          IN  /\ Commit(preview[v].obj, new)
              /\ preview' = [preview EXCEPT ![v] = [pc |-> "ended", obj |-> new]]
    BY <1>22 DEF PreviewEnds
  <2>2. /\ preview[v].pc = "rendering" /\ UNCHANGED <<api, task, sweep>>
        /\ \A w \in Preview \ {v} : preview'[w] = preview[w]
        /\ preview'[v].pc = "ended"
    BY <1>22, <2>1 DEF PreviewEnds, TypeOK
  <2>3. /\ row'.raw = row.raw /\ row'.result = row.result
        /\ row'.status \in {"done", row.status}
    <3> DEFINE new == [preview[v].obj EXCEPT !.preview = outcome, !.status = "done"]
    <3>1. outcome \in {"done", "failed"} /\ preview[v].obj \in Row
      BY <1>1, <1>22, <2>1
    <3>2. /\ new \in Row /\ new.status = "done" /\ new.raw = preview[v].obj.raw
          /\ new.result = preview[v].obj.result
      BY <3>1, PreviewedFacts
    <3>3. Commit(preview[v].obj, new)
      BY <2>1
    <3> HIDE DEF new
    <3> QED
      BY <1>1, <3>2, <3>3, CommitFacts
  <2> QED
    BY <2>2, <2>3
<1>23. ASSUME NEW v \in Preview, PreviewBreaks(v)
       PROVE  CheckInv'
  <2>1. /\ UNCHANGED <<row, api, task, sweep>> /\ preview[v].pc = "rendering"
        /\ \A w \in Preview \ {v} : preview'[w] = preview[w]
        /\ preview'[v].pc \in {"ended", "sent"}
    BY <1>23 DEF PreviewBreaks, TypeOK
  <2> QED
    BY <2>1
<1> QED
  BY <1>3, <1>4, <1>5, <1>7, <1>8, <1>9, <1>10, <1>11, <1>12, <1>13, <1>14, <1>15,
     <1>16, <1>18, <1>19, <1>20, <1>21, <1>22, <1>23
     DEF Next, ApiStep, Provider, TaskStep, SweepStep, PreviewStep, Failure

LEMMA CheckInvariant == Spec => []CheckInv
<1>1. Init => CheckInv
  BY NoRowFacts DEF Init, CheckInv, Fresh, Unanswered, ObjectsBehind, Behind, Ready,
                    ResultSettled, ResultHasAnswer
<1>2. TypeOK /\ CheckInv /\ [Next]_vars => CheckInv'
  BY InvStep
<1> QED
  BY <1>1, <1>2, CheckTypeCorrect, PTL DEF Spec

-----------------------------------------------------------------------------
(* The theorems *)

\* Whoever wrote it, a result comes from a stored answer that can be parsed, and
\* only a check with a result gets to the preview.
THEOREM ResultsHaveAnswers == Spec => []ResultHasAnswer
<1>1. CheckInv => ResultHasAnswer
  BY DEF CheckInv
<1> QED
  BY <1>1, CheckInvariant, PTL

\* No delivery of the task asks the provider for an answer that is stored.
THEOREM AnsweredIsNotAsked == Spec => NoCallOnceAnswered
<1>1. CheckInv => (task.pc = "claiming" => row.raw = "none")
  BY DEF CheckInv, Unanswered
<1>2. CheckInv /\ [Next]_vars =>
        [task.pc = "claiming" /\ task'.pc = "calling" => row.raw = "none"]_vars
  BY <1>1
<1> QED
  BY <1>2, CheckInvariant, PTL DEF Spec, NoCallOnceAnswered

\* Which steps change the status of the row, and who takes them.
LEMMA StatusWriters ==
  ASSUME TypeOK, CheckInv, [Next]_vars, row'.status # row.status
  PROVE  \/ row.status = "absent"
         \/ /\ task.pc \in Working /\ task.obj.status \in InFlight
            /\ row'.status = "failed" => ~row.result
         \/ row.status \in InFlight /\ row'.status = "failed"
         \/ /\ sweep.pc = "found" /\ sweep.obj.status = "running"
            /\ row'.status = "failed" => ~row.result \/ sweep.obj.raw = "none"
         \/ /\ row'.status # "failed"
            /\ \E v \in Preview :
                 preview[v].pc = "rendering" /\ preview[v].obj.preview = "pending"
<1> USE DEF CheckInv, Fresh, Unanswered, Behind, ObjectsBehind, Ready, ResultSettled,
            ResultHasAnswer, InFlight, Working
<1> DEFINE Goal ==
      \/ row.status = "absent"
      \/ /\ task.pc \in Working /\ task.obj.status \in InFlight
         /\ row'.status = "failed" => ~row.result
      \/ row.status \in InFlight /\ row'.status = "failed"
      \/ /\ sweep.pc = "found" /\ sweep.obj.status = "running"
         /\ row'.status = "failed" => ~row.result \/ sweep.obj.raw = "none"
      \/ /\ row'.status # "failed"
         /\ \E v \in Preview :
              preview[v].pc = "rendering" /\ preview[v].obj.preview = "pending"
<1>1. row \in Row /\ aged \in BOOLEAN /\ task.obj \in Row /\ sweep.obj \in Row
      /\ \A v \in Preview : preview[v].obj \in Row
  BY DEF TypeOK
<1>2. CASE Create
  BY <1>2, NoRowFacts DEF Create
<1>3. CASE Claim \/ (\E r \in {"good", "bad"} : Answer(r)) \/ Rejected
  <2>1. task.pc \in {"claiming", "calling"}
    BY <1>3 DEF Claim, Answer, Rejected
  <2> QED
    BY <2>1
<1>4. CASE Parse
  <2>1. task.pc = "parsing" /\ Commit(task.obj, Finalized(task.obj))
    BY <1>4 DEF Parse, TaskCommits
  <2>2. row'.status = "failed" => ~row.result
    <3>1. CASE task.obj.raw = "bad"
      BY <2>1, <3>1
    <3>2. CASE task.obj.raw # "bad"
      <4>1. Finalized(task.obj) \in Row /\ Finalized(task.obj).status \in {"ranked", "done"}
        BY <1>1, <3>2, FinalizedFacts
      <4>2. row'.status = Finalized(task.obj).status
        BY <1>1, <2>1, <4>1, CommitFacts
      <4> QED
        BY <4>1, <4>2
    <3> QED
      BY <3>1, <3>2
  <2> QED
    BY <2>1, <2>2
<1>5. CASE SweepResume
  <2>1. sweep.pc = "found" /\ Commit(sweep.obj, Finalized(sweep.obj))
    BY <1>5 DEF SweepResume, SweepCommits
  <2>2. row'.status = "failed" => ~row.result \/ sweep.obj.raw = "none"
    <3>1. CASE sweep.obj.raw = "bad"
      BY <2>1, <3>1
    <3>2. CASE sweep.obj.raw # "bad"
      <4>1. /\ Finalized(sweep.obj) \in Row
            /\ Finalized(sweep.obj).status \in {"ranked", "done"}
        BY <1>1, <3>2, FinalizedFacts
      <4>2. row'.status = Finalized(sweep.obj).status
        BY <1>1, <2>1, <4>1, CommitFacts
      <4> QED
        BY <4>1, <4>2
    <3> QED
      BY <3>1, <3>2
  <2> QED
    BY <2>1, <2>2
<1>6. CASE SweepFail
  BY <1>6 DEF SweepFail
<1>7. CASE Mark \/ TimeLimit
  <2>1. MarkFailed
    BY <1>7 DEF Mark, TimeLimit
  <2> QED
    BY <1>1, <2>1, MarkFailedFacts
<1>8. ASSUME NEW v \in Preview, PreviewEnds(v)
      PROVE  Goal
  <2>1. PICK outcome \in {"done", "failed"} :
          Commit(preview[v].obj,
                 [preview[v].obj EXCEPT !.preview = outcome, !.status = "done"])
    BY <1>8 DEF PreviewEnds
  <2> DEFINE new == [preview[v].obj EXCEPT !.preview = outcome, !.status = "done"]
  <2>2. outcome \in {"done", "failed"} /\ preview[v].obj \in Row
    BY <1>1, <1>8, <2>1
  <2>3. new \in Row /\ new.status = "done"
    BY <2>2, PreviewedFacts
  <2>4. new \in Row /\ new.status = "done" /\ Commit(preview[v].obj, new)
    BY <2>1, <2>3
  <2> HIDE DEF new
  <2>5. row'.status \in {"done", row.status}
    BY <1>1, <2>4, CommitFacts
  <2>6. preview[v].pc = "rendering"
    BY <1>8 DEF PreviewEnds
  <2> QED
    BY <2>5, <2>6
<1>9. CASE \/ Send \/ SendFails \/ Start \/ Retry \/ GiveUp \/ Enqueue \/ Age
           \/ SweepFind \/ SweepEnqueue \/ DatabaseFails \/ Die \/ Crash \/ SweepBreaks
           \/ (\E v \in Preview : PreviewStart(v) \/ PreviewBreaks(v)) \/ UNCHANGED vars
  BY <1>9 DEF Send, SendFails, Start, Retry, GiveUp, Enqueue, Age, SweepFind,
       SweepEnqueue, DatabaseFails, Die, Crash, SweepBreaks, PreviewStart, PreviewBreaks,
       vars
<1> QED
  BY <1>2, <1>3, <1>4, <1>5, <1>6, <1>7, <1>8, <1>9
     DEF Next, ApiStep, Provider, TaskStep, SweepStep, PreviewStep, Failure

\* A check that has its result is failed only by a sweeper that loaded it before
\* the answer was stored.
THEOREM OnlySweeperFailsResult == Spec => ResultFailedOnlyBySweeper
<1> DEFINE Loses == row.result /\ row.status # "failed" /\ row'.status = "failed"
           Stale == sweep.pc = "found" /\ sweep.obj.raw = "none"
<1>1. ASSUME TypeOK, CheckInv, [Next]_vars, Loses
      PROVE  Stale
  <2>1. row.result => row.status \notin InFlight \cup {"absent"}
    BY <1>1, NoRowFacts DEF CheckInv, ResultSettled, ResultHasAnswer
  <2> QED
    BY <1>1, <2>1, StatusWriters
<1>2. TypeOK /\ CheckInv /\ [Next]_vars => [Loses => Stale]_vars
  BY <1>1
<1> QED
  BY <1>2, CheckTypeCorrect, CheckInvariant, PTL DEF Spec, ResultFailedOnlyBySweeper

\* A failed check is overturned only by a session that loaded it earlier.
THEOREM OnlyLateSessionsOverturn == Spec => OverturnedOnlyByLateSession
<1> DEFINE Overturned == row.status = "failed" /\ row'.status # "failed"
           Late == \/ task.pc \in Working /\ task.obj.status \in InFlight
                   \/ sweep.pc = "found" /\ sweep.obj.status = "running"
                   \/ \E v \in Preview : preview[v].pc = "rendering"
                                           /\ preview[v].obj.preview = "pending"
<1>1. ASSUME TypeOK, CheckInv, [Next]_vars, Overturned
      PROVE  Late
  BY <1>1, StatusWriters DEF InFlight
<1>2. TypeOK /\ CheckInv /\ [Next]_vars => [Overturned => Late]_vars
  BY <1>1
<1> QED
  BY <1>2, CheckTypeCorrect, CheckInvariant, PTL DEF Spec, OverturnedOnlyByLateSession
=============================================================================
