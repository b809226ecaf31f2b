---------------------------- MODULE RedirectCheck ----------------------------
(***************************************************************************)
(* The executions of one domain redirect check.  POST /check commits the   *)
(* run and sends redirect_check.domain_check.  An execution of that task   *)
(* checks the URLs of the site in concurrent coroutines, stores their      *)
(* results one by one on the single session it has, and ends the run.  It  *)
(* may raise (and be retried), die with its worker (and be delivered       *)
(* again) or with its process alone (and be lost), or outlive its task's   *)
(* soft time limit (shared/tasks/db.py) beside its own retry.              *)
(* Its events are in RedirectStream: publish_event never raises, so they   *)
(* change nothing here.                                                    *)
(***************************************************************************)
EXTENDS Naturals, FiniteSets, OrmSession

CONSTANTS
  Url,              \* what discover_urls returns
  Limit,            \* STREAMING_AUDIT_MAX_CONCURRENCY
  MaxExecutions,    \* deliveries and retries of the task
  MaxFaults         \* bound on raised errors, time limits and deaths

ASSUME RedirectAssumption ==
  /\ IsFiniteSet(Url) /\ Limit \in Nat \ {0} /\ MaxExecutions \in Nat \ {0}
  /\ MaxFaults \in Nat

Exec == 1 .. MaxExecutions

VARIABLES
  api,      \* the progress of POST /check
  row,      \* the committed row of streaming_audit_runs
  stored,   \* URLs with a committed row in streaming_page_results
  active,   \* the slot counter of this run in Redis
  exec,     \* the executions of the task
  check,    \* their coroutines, one per URL
  faults

vars == <<api, row, stored, active, exec, check, faults>>

Row == [status : {"queued", "processing", "partial", "completed"}, completed : Nat, failed : Nat]
Ended == {"partial", "completed"}

\* A coroutine between the two ends of its semaphore block.
InFlight == {"busy", "report"}
\* An execution that has begun and whose coroutine still runs.
Running == {"begin", "checking", "persisting", "ending", "returning"}

TypeOK ==
  /\ api \in {"new", "created", "sent", "failed"} /\ row \in Row
  /\ stored \subseteq Url /\ active \in 0 .. Limit
  /\ exec \in [Exec -> [pc : {"none", "queued", "raised", "lost", "done"} \cup Running,
                        watched : BOOLEAN,     \* the task's thread waits for it
                        obj : Row, failed : Nat, todo : SUBSET Url,
                        notStored : BOOLEAN,   \* persistence_failed_count > 0
                        aborted : BOOLEAN]]    \* the session's transaction is aborted
  /\ check \in [Exec -> [Url -> [pc : {"wait", "ended", "dropped"} \cup InFlight,
                                 error : BOOLEAN, slot : BOOLEAN]]]
  /\ faults \in 0 .. MaxFaults

NoRow == [status |-> "queued", completed |-> 0, failed |-> 0]
NotStarted == [pc |-> "none", watched |-> TRUE, obj |-> NoRow, failed |-> 0, todo |-> {},
               notStored |-> FALSE, aborted |-> FALSE]
Waiting == [pc |-> "wait", error |-> FALSE, slot |-> FALSE]

Init ==
  /\ api = "new" /\ row = NoRow /\ stored = {} /\ active = 0
  /\ exec = [x \in Exec |-> NotStarted]
  /\ check = [x \in Exec |-> [u \in Url |-> Waiting]]
  /\ faults = 0

Fault == faults < MaxFaults /\ faults' = faults + 1

-----------------------------------------------------------------------------
(* POST /check: prepare_check commits the row, then the task is sent. *)

Create ==
  /\ api = "new" /\ api' = "created"
  /\ UNCHANGED <<row, stored, active, exec, check, faults>>

Send ==
  /\ api = "created" /\ api' = "sent"
  /\ exec' = [exec EXCEPT ![1].pc = "queued"]
  /\ UNCHANGED <<row, stored, active, check, faults>>

SendFails ==
  /\ Fault /\ api = "created" /\ api' = "failed"
  /\ UNCHANGED <<row, stored, active, exec, check>>

-----------------------------------------------------------------------------
(* The task *)

Goto(x, from, to) == exec[x].pc = from /\ exec' = [exec EXCEPT ![x].pc = to]

\* The next delivery, if there is one.
WithNext(f, x) == [y \in Exec |-> IF y = x + 1 /\ f[y].pc = "none"
                                  THEN [f[y] EXCEPT !.pc = "queued"] ELSE f[y]]

\* The coroutine raises: the session rolls back, and the task, if it still waits,
\* is retried.
RaiseIn(x) ==
  LET f == [exec EXCEPT ![x].pc = "raised"]
  IN  exec' = IF exec[x].watched THEN WithNext(f, x) ELSE f

\* discover_urls; its errors are swallowed.
Discover(x) ==
  /\ Goto(x, "queued", "begin")
  /\ UNCHANGED <<api, row, stored, active, check, faults>>

\* update_run(PROCESSING) loads the row and refreshes its object after the commit.
Begin(x) ==
  /\ exec[x].pc = "begin"
  /\ row' = [row EXCEPT !.status = "processing"]
  /\ exec' = [exec EXCEPT ![x].pc = "checking", ![x].obj = row']
  /\ UNCHANGED <<api, stored, active, check, faults>>

-----------------------------------------------------------------------------
(* _check_single(u) in execution x *)

Moves(x, u, from, c) ==
  /\ exec[x].pc = "checking" /\ check[x][u].pc = from
  /\ check' = [check EXCEPT ![x][u] = c]

Flying(x) == {u \in Url : check[x][u].pc \in InFlight}

\* The semaphore, then reserve_slot; the URL is checked with or without a slot.
Start_NeedsSlot(x, u) ==
  /\ Cardinality(Flying(x)) < Limit
  /\ active < Limit /\ active' = active + 1
  /\ Moves(x, u, "wait", [Waiting EXCEPT !.pc = "busy", !.slot = TRUE])
  /\ UNCHANGED <<api, row, stored, exec, faults>>

Start(x, u) ==
  /\ Cardinality(Flying(x)) < Limit
  /\ active' = IF active < Limit THEN active + 1 ELSE active
  /\ Moves(x, u, "wait", [Waiting EXCEPT !.pc = "busy", !.slot = active < Limit])
  /\ UNCHANGED <<api, row, stored, exec, faults>>

\* reserve_slot stands before the try: if it raises, the URL leaves no result, and
\* gather hands the exception back.
StartRaises(x, u) ==
  /\ Fault
  /\ Cardinality(Flying(x)) < Limit
  /\ Moves(x, u, "wait", [Waiting EXCEPT !.pc = "dropped"])
  /\ \/ active' = active
     \/ active < Limit /\ active' = active + 1
  /\ UNCHANGED <<api, row, stored, exec>>

Freed(c) == IF c.slot /\ active > 0 THEN active - 1 ELSE active

\* The chain is resolved, with an HTTP error or without ...
Resolve(x, u) ==
  /\ \E e \in BOOLEAN :
       Moves(x, u, "busy", [check[x][u] EXCEPT !.pc = "report", !.error = e])
  /\ UNCHANGED <<api, row, stored, active, exec, faults>>

\* ... or the check raises: the failed result is kept.
KeepFailed(x, u) ==
  /\ exec' = [exec EXCEPT ![x].failed = @ + 1]
  /\ active' = Freed(check[x][u])
  /\ UNCHANGED <<api, row, stored>>

CheckRaises(x, u) ==
  /\ Fault
  /\ Moves(x, u, "busy", [check[x][u] EXCEPT !.pc = "ended", !.error = TRUE])
  /\ KeepFailed(x, u)

\* update_state, then the counters and results.append.
Report(x, u) ==
  /\ Moves(x, u, "report", [check[x][u] EXCEPT !.pc = "ended"])
  /\ exec' = IF check[x][u].error THEN [exec EXCEPT ![x].failed = @ + 1] ELSE exec
  /\ active' = Freed(check[x][u])
  /\ UNCHANGED <<api, row, stored, faults>>

\* update_state raises: the handler keeps the URL as failed.
ReportRaises(x, u) ==
  /\ Fault
  /\ Moves(x, u, "report", [check[x][u] EXCEPT !.pc = "ended", !.error = TRUE])
  /\ KeepFailed(x, u)

Check(x, u) ==
  Start(x, u) \/ Resolve(x, u) \/ Report(x, u)

CheckFault(x, u) ==
  StartRaises(x, u) \/ CheckRaises(x, u) \/ ReportRaises(x, u)

-----------------------------------------------------------------------------
(* After gather *)

Results(x) == {u \in Url : check[x][u].pc = "ended"}

Gather(x) ==
  /\ exec[x].pc = "checking"
  /\ \A u \in Url : check[x][u].pc \in {"ended", "dropped"}
  /\ exec' = [exec EXCEPT ![x].pc = "persisting", ![x].todo = Results(x)]
  /\ UNCHANGED <<api, row, stored, active, check, faults>>

\* upsert_page_result of the next URL.  Once the database has raised, the session's
\* transaction is aborted and nobody rolls it back: every later statement raises.
Persist(x) ==
  /\ exec[x].pc = "persisting"
  /\ \E u \in exec[x].todo :
       /\ exec' = [exec EXCEPT ![x].todo = @ \ {u},
                               ![x].notStored = @ \/ exec[x].aborted]
       /\ stored' = IF exec[x].aborted THEN stored ELSE stored \cup {u}
  /\ UNCHANGED <<api, row, active, check, faults>>

\* It raises: in the database, or before (a URL that cannot be normalised).
PersistRaises(x) ==
  /\ Fault
  /\ exec[x].pc = "persisting"
  /\ \E u \in exec[x].todo, db \in BOOLEAN :
       exec' = [exec EXCEPT ![x].todo = @ \ {u}, ![x].notStored = TRUE,
                            ![x].aborted = @ \/ db]
  /\ UNCHANGED <<api, row, stored, active, check>>

Persisted(x) ==
  /\ exec[x].todo = {} /\ Goto(x, "persisting", "ending")
  /\ UNCHANGED <<api, row, stored, active, check, faults>>

\* The object update_run finds in the session, and what it sets in it.
EndStatus_Ignoring(x) == "completed"

EndStatus(x) == IF exec[x].notStored THEN "partial" ELSE "completed"

EndObject(x) == [status    |-> EndStatus(x),
                 completed |-> Cardinality(Results(x)) - exec[x].failed,
                 failed    |-> exec[x].failed]

End(x) ==
  /\ ~exec[x].aborted /\ Goto(x, "ending", "returning")
  /\ row' = Merged(exec[x].obj, EndObject(x), row)
  /\ UNCHANGED <<api, stored, active, check, faults>>

\* In an aborted transaction update_run raises.
EndRaises(x) ==
  /\ exec[x].aborted /\ exec[x].pc = "ending"
  /\ RaiseIn(x)
  /\ UNCHANGED <<api, row, stored, active, check, faults>>

Return(x) ==
  /\ Goto(x, "returning", "done")
  /\ UNCHANGED <<api, row, stored, active, check, faults>>

Step(x) ==
  \/ Discover(x) \/ Begin(x)
  \/ \E u \in Url : Check(x, u)
  \/ Gather(x) \/ Persist(x) \/ Persisted(x) \/ End(x) \/ EndRaises(x) \/ Return(x)

\* A database or Redis call outside the handlers raises.
StepRaises(x) ==
  /\ Fault
  /\ \/ exec[x].pc \in {"begin", "ending", "returning"}
     \/ exec[x].pc = "checking" /\ \A u \in Url : check[x][u].pc = "wait"
  /\ RaiseIn(x)
  /\ UNCHANGED <<api, row, stored, active, check>>

\* The soft time limit interrupts the thread that waits for the coroutine.
SoftTimeLimit(x) ==
  /\ Fault
  /\ exec[x].pc \in Running /\ exec[x].watched
  /\ exec' = WithNext([exec EXCEPT ![x].watched = FALSE], x)
  /\ UNCHANGED <<api, row, stored, active, check>>

\* The worker dies, and with it what its executions hold in Redis is left there.  A
\* task that was not acknowledged is delivered again.
Crash(x) ==
  /\ Fault
  /\ exec[x].pc \in Running
  /\ RaiseIn(x)
  /\ UNCHANGED <<api, row, stored, active, check>>

\* The process that runs the task dies, or is killed at the hard time limit.  Its parent
\* acknowledges the message: nothing is delivered again.
Lose(x) ==
  /\ Fault
  /\ exec[x].pc \in Running
  /\ exec' = [exec EXCEPT ![x].pc = "lost"]
  /\ UNCHANGED <<api, row, stored, active, check>>

TaskFault(x) ==
  \/ StepRaises(x) \/ PersistRaises(x) \/ SoftTimeLimit(x) \/ Crash(x) \/ Lose(x)
  \/ \E u \in Url : CheckFault(x, u)

Next ==
  \/ Create \/ Send \/ SendFails
  \/ \E x \in Exec : Step(x) \/ TaskFault(x)

Spec == Init /\ [][Next]_vars

\* The request, and each execution take their steps; no fault is due.
Fairness ==
  /\ WF_vars(Create \/ Send)
  /\ \A x \in Exec : WF_vars(Step(x))

LiveSpec == Spec /\ Fairness

-----------------------------------------------------------------------------
(* Properties *)

\* A run is completed only with the result of every URL stored, except of those whose
\* slot could not be asked for, whatever executions overlapped or were cut short.
CompletedMeansStored ==
  row.status = "completed" =>
    Url \ {u \in Url : \E x \in Exec : check[x][u].pc = "dropped"} \subseteq stored

Overlapped == \E x \in Exec : ~exec[x].watched

Lost == \E x \in Exec : exec[x].pc = "lost"

\* A queued check ends for good, the slots that dead executions leaked notwithstanding,
\* unless one of three things happened: its last execution raised too, an execution was
\* lost with its process, which nobody repeats (the run then stays "processing"), or one
\* outlived its time limit, and may open an ended run again and die.
CheckEndsOrExhausted ==
  (api = "sent") ~>
    [](row.status \in Ended \/ exec[MaxExecutions].pc = "raised" \/ Lost \/ Overlapped)
=============================================================================
