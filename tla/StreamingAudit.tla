---------------------------- MODULE StreamingAudit ----------------------------
(***************************************************************************)
(* The page tasks of one streaming audit.  POST /streaming-audit commits   *)
(* the run, initialises its keys in Redis and sends the task of the seed;  *)
(* each task takes a concurrency slot, marks the run as processing,        *)
(* fetches its page, claims the pages it found from the budget in Redis,   *)
(* sends their tasks, stores its result and counts it.                     *)
(*                                                                         *)
(* Redis, the run and the results are three stores that no transaction     *)
(* joins: every command is a step, and between two steps the task may      *)
(* raise (it releases its slot and sends itself again) or die.             *)
(***************************************************************************)
EXTENDS Integers, Sequences, FiniteSets

CONSTANTS
  Page,        \* normalised URLs
  Seed,        \* the URL of the request
  Links,       \* [Page -> Seq(Page)]: the links that PageProcessor keeps of a page, in
               \* order: deduplicated, without the page itself
  Worker,      \* worker processes of the queue streaming_audit
  Limit,       \* STREAMING_AUDIT_MAX_CONCURRENCY
  MaxPages,    \* run.max_pages
  MaxDepth,    \* run.max_depth
  MaxRetries,  \* max_retries of process_page
  MaxIncidents \* bound on raised errors and dead workers together

ASSUME StreamingAssumption ==
  /\ Seed \in Page /\ Links \in [Page -> Seq(Page)] /\ Worker # {} /\ IsFiniteSet(Worker)
  /\ Limit \in Nat \ {0} /\ MaxPages \in Nat \ {0} /\ MaxDepth \in Nat
  /\ MaxRetries \in Nat /\ MaxIncidents \in Nat

VARIABLES
  api,        \* the progress of the request
  queue,      \* messages of process_page at the broker
  seen,       \* streaming_audit:{id}:seen
  remaining,  \* streaming_audit:{id}:remaining
  active,     \* streaming_audit:{id}:active
  run,        \* the committed row of streaming_audit_runs
  results,    \* the pages with a committed row in streaming_page_results
  task,       \* what each worker executes
  refused,    \* whether a task ever found no slot
  incidents   \* errors and deaths so far

redis == <<seen, remaining, active>>
vars == <<api, queue, redis, run, results, task, refused, incidents>>

Message == [page : Page, depth : 0 .. MaxDepth, retries : 0 .. MaxRetries]

Idle == [pc |-> "idle", msg |-> [page |-> Seed, depth |-> 0, retries |-> 0],
         todo |-> <<>>, kids |-> <<>>]

Task == [pc : {"idle", "reserve", "begin", "page", "look", "mark", "pay", "send", "save",
               "count", "release"},
         msg : Message, todo : Seq(Page), kids : Seq(Page)]

\* Between reserve_slot and release_slot.
Holding == {"begin", "page", "look", "mark", "pay", "send", "save", "count", "release"}
On(pcs) == {w \in Worker : task[w].pc \in pcs}

TypeOK ==
  /\ api \in {"row", "redis", "send", "done", "failed"}
  /\ queue \subseteq Message /\ seen \subseteq Page /\ results \subseteq Page
  /\ remaining \in Int /\ active \in Nat
  /\ run \in [status : {"queued", "processing", "partial", "completed"},
              processing : Nat, ended : Nat]
  /\ task \in [Worker -> Task]
  /\ refused \in BOOLEAN /\ incidents \in 0 .. MaxIncidents

Init ==
  /\ api = "row" /\ queue = {} /\ seen = {} /\ remaining = 0 /\ active = 0
  /\ run = [status |-> "queued", processing |-> 0, ended |-> 0]
  /\ results = {} /\ task = [w \in Worker |-> Idle]
  /\ refused = FALSE /\ incidents = 0

Incident == incidents < MaxIncidents /\ incidents' = incidents + 1

-----------------------------------------------------------------------------
(* POST /streaming-audit *)

CreateRun ==
  /\ api = "row" /\ api' = "redis"
  /\ UNCHANGED <<queue, redis, run, results, task, refused, incidents>>

InitializeRun ==
  /\ api = "redis" /\ api' = "send"
  /\ seen' = {Seed} /\ remaining' = MaxPages - 1 /\ active' = 0
  /\ UNCHANGED <<queue, run, results, task, refused, incidents>>

SendSeed ==
  /\ api = "send" /\ api' = "done"
  /\ queue' = queue \cup {[page |-> Seed, depth |-> 0, retries |-> 0]}
  /\ UNCHANGED <<redis, run, results, task, refused, incidents>>

\* The request answers 500; what it has written stays.
RequestFails ==
  /\ Incident
  /\ api \in {"redis", "send"} /\ api' = "failed"
  /\ UNCHANGED <<queue, redis, run, results, task, refused>>

-----------------------------------------------------------------------------
(* process_page *)

\* Worker w is at from and goes on at to.
Goto(w, from, to) == task[w].pc = from /\ task' = [task EXCEPT ![w].pc = to]

\* self.retry: the message is sent again until its retries are used up.
Retried(m) ==
  IF m.retries < MaxRetries THEN {[m EXCEPT !.retries = @ + 1]} ELSE {}

Take(w) ==
  /\ task[w].pc = "idle"
  /\ \E m \in queue :
       /\ queue' = queue \ {m}
       /\ task' = [task EXCEPT ![w] = [Idle EXCEPT !.pc = "reserve", !.msg = m]]
  /\ UNCHANGED <<api, redis, run, results, refused, incidents>>

Reserve(w) ==
  /\ active < Limit /\ active' = active + 1
  /\ Goto(w, "reserve", "begin")
  /\ UNCHANGED <<api, queue, seen, remaining, run, results, refused, incidents>>

\* No slot.  Sending the message again reads max_pages, a local that is assigned
\* further down: UnboundLocalError, and the task is retried like after any error.
Refused(w) ==
  /\ task[w].pc = "reserve" /\ active >= Limit
  /\ task' = [task EXCEPT ![w] = Idle]
  /\ queue' = queue \cup Retried(task[w].msg)
  /\ refused' = TRUE
  /\ UNCHANGED <<api, redis, run, results, incidents>>

Begin(w) ==
  /\ Goto(w, "begin", "page")
  /\ run' = [run EXCEPT !.status = "processing", !.processing = @ + 1]
  /\ UNCHANGED <<api, queue, redis, results, refused, incidents>>

\* PageProcessor: a page that cannot be fetched has no links; at max_depth they are
\* dropped.
ProcessPage(w) ==
  /\ task[w].pc = "page"
  /\ \E found \in {<<>>, Links[task[w].msg.page]} :
       task' = [task EXCEPT
         ![w].pc   = IF task[w].msg.depth < MaxDepth THEN "look" ELSE "save",
         ![w].todo = IF task[w].msg.depth < MaxDepth THEN found ELSE <<>>]
  /\ UNCHANGED <<api, queue, redis, run, results, refused, incidents>>

\* enqueue_many, one child: GET remaining and SISMEMBER seen ...
Look_OnceForAll(w) ==
  /\ task[w].pc = "look"
  /\ LET t == task[w] IN
     task' = [task EXCEPT ![w] =
       IF t.todo = <<>> \/ (remaining <= 0 /\ t.kids = <<>>)
       THEN [t EXCEPT !.pc = "send", !.todo = t.kids]
       ELSE IF Head(t.todo) \in seen THEN [t EXCEPT !.todo = Tail(@)]
       ELSE [t EXCEPT !.pc = "mark"]]
  /\ UNCHANGED <<api, queue, redis, run, results, refused, incidents>>

Look_ReturnsEarly(w) ==
  /\ task[w].pc = "look"
  /\ LET t == task[w] IN
     task' = [task EXCEPT ![w] =
       IF remaining <= 0 THEN [t EXCEPT !.pc = "save"]
       ELSE IF t.todo = <<>> THEN [t EXCEPT !.pc = "send", !.todo = t.kids]
       ELSE IF Head(t.todo) \in seen THEN [t EXCEPT !.todo = Tail(@)]
       ELSE [t EXCEPT !.pc = "mark"]]
  /\ UNCHANGED <<api, queue, redis, run, results, refused, incidents>>

Look(w) ==
  /\ task[w].pc = "look"
  /\ LET t == task[w] IN
     task' = [task EXCEPT ![w] =
       IF t.todo = <<>> \/ remaining <= 0 THEN [t EXCEPT !.pc = "send", !.todo = t.kids]
       ELSE IF Head(t.todo) \in seen THEN [t EXCEPT !.todo = Tail(@)]
       ELSE [t EXCEPT !.pc = "mark"]]
  /\ UNCHANGED <<api, queue, redis, run, results, refused, incidents>>

\* ... SADD seen, whose answer decides ...
Mark(w) ==
  /\ task[w].pc = "mark"
  /\ LET child == Head(task[w].todo) IN
     /\ seen' = seen \cup {child}
     /\ task' = IF child \in seen
                THEN [task EXCEPT ![w].pc = "look", ![w].todo = Tail(@)]
                ELSE [task EXCEPT ![w].pc = "pay", ![w].todo = Tail(@),
                                  ![w].kids = Append(@, child)]
  /\ UNCHANGED <<api, queue, remaining, active, run, results, refused, incidents>>

\* ... and DECRBY remaining.  (The list "queued" is pushed to and never read.)
Pay(w) ==
  /\ Goto(w, "pay", "look")
  /\ remaining' = remaining - 1
  /\ UNCHANGED <<api, queue, seen, active, run, results, refused, incidents>>

\* send_task for the next accepted child.
Send(w) ==
  /\ task[w].pc = "send" /\ task[w].todo # <<>>
  /\ task' = [task EXCEPT ![w].todo = Tail(@)]
  /\ queue' = queue \cup {[page |-> Head(task[w].todo), depth |-> task[w].msg.depth + 1,
                           retries |-> 0]}
  /\ UNCHANGED <<api, redis, run, results, refused, incidents>>

Sent(w) ==
  /\ task[w].todo = <<>> /\ Goto(w, "send", "save")
  /\ UNCHANGED <<api, queue, redis, run, results, refused, incidents>>

\* upsert_page_result commits on its own, before the counters.
Save(w) ==
  /\ Goto(w, "save", "count")
  /\ results' = results \cup {task[w].msg.page}
  /\ UNCHANGED <<api, queue, redis, run, refused, incidents>>

\* One UPDATE on the row's current values.
Count(w) ==
  /\ Goto(w, "count", "release")
  /\ run' = [status     |-> IF run.ended + 1 >= MaxPages THEN "completed" ELSE "partial",
             processing |-> IF run.processing > 0 THEN run.processing - 1 ELSE 0,
             ended      |-> run.ended + 1]
  /\ UNCHANGED <<api, queue, redis, results, refused, incidents>>

\* release_slot, never below zero.
Freed == IF active > 0 THEN active - 1 ELSE 0

Release_Forgotten(w) ==
  /\ Goto(w, "release", "idle")
  /\ UNCHANGED <<api, queue, redis, run, results, refused, incidents>>

Release(w) ==
  /\ task[w].pc = "release"
  /\ task' = [task EXCEPT ![w] = Idle] /\ active' = Freed
  /\ UNCHANGED <<api, queue, seen, remaining, run, results, refused, incidents>>

\* A database, Redis or broker call raises, perhaps after it took effect: finally
\* releases the slot, unless that fails too or reserve_slot never answered, and the
\* task is retried.  An error of the page itself is its result.
Raise(w) ==
  /\ Incident
  /\ task[w].pc \in ({"reserve"} \cup Holding) \ {"page"}
  /\ task' = [task EXCEPT ![w] = Idle]
  /\ queue' = queue \cup Retried(task[w].msg)
  /\ \/ active' = active
     \/ task[w].pc \in Holding /\ active' = Freed
     \/ task[w].pc = "reserve" /\ active < Limit /\ active' = active + 1
  /\ UNCHANGED <<api, seen, remaining, run, results, refused>>

\* The worker dies.  The broker delivers an unacknowledged message again, or the
\* parent of a prefork pool has acknowledged it.
Crash(w) ==
  /\ Incident
  /\ task[w].pc # "idle"
  /\ task' = [task EXCEPT ![w] = Idle]
  /\ queue' \in {queue, queue \cup {task[w].msg}}
  /\ UNCHANGED <<api, redis, run, results, refused>>

Request == CreateRun \/ InitializeRun \/ SendSeed

Step(w) ==
  \/ Reserve(w) \/ Refused(w) \/ Begin(w) \/ ProcessPage(w)
  \/ Look(w) \/ Mark(w) \/ Pay(w) \/ Send(w) \/ Sent(w)
  \/ Save(w) \/ Count(w) \/ Release(w)

Next ==
  \/ Request \/ RequestFails
  \/ \E w \in Worker : Take(w) \/ Step(w) \/ Raise(w) \/ Crash(w)

Spec == Init /\ [][Next]_vars

\* A live request and live workers take their next step; errors and deaths are
\* never required.
Fairness ==
  /\ WF_vars(Request)
  /\ \A w \in Worker : WF_vars(Take(w)) /\ WF_vars(Step(w))

LiveSpec == Spec /\ Fairness

-----------------------------------------------------------------------------
(* Properties *)

\* No more tasks hold a slot than the counter in Redis says, and it never passes
\* the limit: a slot may leak, but is never given twice.
SlotNeverGivenTwice ==
  Cardinality(On(Holding)) <= active /\ active <= Limit

\* A page is in one place: waiting at the broker or executed by one worker, however
\* many pages link to it and however often its task was sent again.
EachPageInOnePlace ==
  /\ \A m, n \in queue : m.page = n.page => m = n
  /\ \A v, w \in On({"reserve"} \cup Holding) :
       task[v].msg.page = task[w].msg.page => v = w
  /\ \A m \in queue, w \in On({"reserve"} \cup Holding) : m.page # task[w].msg.page

\* The budget is read before the page is marked and paid for, so it may be passed,
\* but by no more than one page per other slot and one per incident.
PageBudgetOvershoot ==
  Cardinality(seen) <= MaxPages + Limit - 1 + incidents

\* The counters of ended pages and the stored results drift apart by at most one
\* page per incident: the result commits before it is counted, and a task that
\* fails after counting counts again.
CountsMatchResults ==
  LET counted == run.ended + Cardinality(On({"count"}))
  IN  /\ counted <= Cardinality(results) + incidents
      /\ counted + incidents >= Cardinality(results)

\* If no task was refused a slot and nothing failed, every page that was claimed
\* from the budget gets its result.
ClaimedPageEnds ==
  [](~refused /\ incidents = 0) =>
    \A p \in Page : (p \in seen) ~> (p \in results)

\* Without incidents the audit comes to rest, and then no slot is taken and no page
\* counts as being processed.
RestsWithNothingHeld ==
  [](incidents = 0) => <>[](queue = {} /\ active = 0 /\ run.processing = 0)
=============================================================================
