---------------------------- MODULE RedirectStream ----------------------------
(***************************************************************************)
(* The events of a redirect check and one client that follows them.        *)
(*                                                                         *)
(* An execution of the check (RedirectCheck) opens the run, clears the     *)
(* list of events, publishes one event for the discovery, one per URL from *)
(* concurrent coroutines and, once the run has ended, one for its          *)
(* completion.  An event is published on a channel and then appended to a  *)
(* list, in two commands.  An execution that is cut short is repeated, and *)
(* one that outlives its time limit goes on beside its repetition, on the  *)
(* same row, list and channel.  The client catches up from the list,       *)
(* subscribes, and then takes a message and polls the list in turn, from   *)
(* the index that is the number of events it has delivered, whatever their *)
(* source.                                                                 *)
(***************************************************************************)
EXTENDS Naturals, Sequences, StreamPromise

CONSTANTS
  Url,              \* the URLs of the check
  MaxExecutions,    \* deliveries and retries of the task
  MaxPollFailures,  \* max_poll_failures of sse_event_stream
  MaxFaults         \* bound on timeouts, lost publications and executions cut short

ASSUME StreamAssumption ==
  MaxExecutions \in Nat \ {0} /\ MaxPollFailures \in Nat \ {0} /\ MaxFaults \in Nat

Exec == 1 .. MaxExecutions

\* A "completed" event is the number of the execution that says so; every other event,
\* "discovery_complete" or "url_checked", is Progress.
Progress == 0
Event == {Progress} \cup Exec

VARIABLES
  check,    \* the coroutines of the executions, one per URL
  events,   \* streaming_audit:{id}:events_list
  channel,  \* messages the client's subscription holds
  faults

vars == <<ended, task, check, events, channel, client, faults>>

Task == [pc      : {"none", "begin"} \cup AtWork \cup Told,
         watched : BOOLEAN,     \* the task's thread waits for it
         cut     : BOOLEAN]     \* it raised, died or was killed where pc says

TypeOK ==
  /\ ended \in BOOLEAN
  /\ task \in [Exec -> Task]
  /\ check \in [Exec -> [Url -> {"busy", "published", "listed"}]]
  /\ events \in Seq(Event) /\ channel \in Seq(Event)
  /\ client \in [pc : {"new", "subscribing", "get", "poll", "completed", "idle",
                        "error"},
                 subscribed : BOOLEAN, processed : Nat, failures : 0 .. MaxPollFailures,
                 got : SUBSET Exec]   \* the "completed" events delivered to it
  /\ faults \in 0 .. MaxFaults

NotStarted == [pc |-> "none", watched |-> TRUE, cut |-> FALSE]

Init ==
  /\ ended = FALSE
  /\ task = [x \in Exec |-> IF x = 1 THEN [NotStarted EXCEPT !.pc = "begin"] ELSE NotStarted]
  /\ check = [x \in Exec |-> [u \in Url |-> "busy"]]
  /\ events = <<>> /\ channel = <<>>
  /\ client = [pc |-> "new", subscribed |-> FALSE, processed |-> 0, failures |-> 0, got |-> {}]
  /\ faults = 0

Fault == faults < MaxFaults /\ faults' = faults + 1

-----------------------------------------------------------------------------
(* An execution *)

At(x, pc) == task[x].pc = pc /\ ~task[x].cut

Goto(x, from, to) == At(x, from) /\ task' = [task EXCEPT ![x].pc = to]

Published(e) == channel' = IF client.subscribed THEN Append(channel, e) ELSE channel

Listed(e) == events' = Append(events, e)

\* After discover_urls, update_run(PROCESSING).
Begin(x) ==
  /\ Goto(x, "begin", "clear") /\ ended' = FALSE
  /\ UNCHANGED <<check, events, channel, client, faults>>

ClearEventStore(x) ==
  /\ Goto(x, "clear", "announce") /\ events' = <<>>
  /\ UNCHANGED <<ended, check, channel, client, faults>>

\* publish_event: PUBLISH, then RPUSH.
Announce(x) ==
  \/ /\ Goto(x, "announce", "announced") /\ Published(Progress)
     /\ UNCHANGED <<ended, check, events, client, faults>>
  \/ /\ Goto(x, "announced", "checking") /\ Listed(Progress)
     /\ UNCHANGED <<ended, check, channel, client, faults>>

\* Coroutines publish and list independently of each other.
PublishUrl(x, u) ==
  /\ At(x, "checking") /\ check[x][u] = "busy"
  /\ check' = [check EXCEPT ![x][u] = "published"]
  /\ Published(Progress)
  /\ UNCHANGED <<ended, task, events, client, faults>>

ListUrl(x, u) ==
  /\ At(x, "checking") /\ check[x][u] = "published"
  /\ check' = [check EXCEPT ![x][u] = "listed"]
  /\ Listed(Progress)
  /\ UNCHANGED <<ended, task, channel, client, faults>>

Gather_WithoutEnd(x) ==
  /\ \A u \in Url : check[x][u] = "listed"
  /\ Goto(x, "checking", "complete")
  /\ UNCHANGED <<ended, check, events, channel, client, faults>>

Gather(x) ==
  /\ \A u \in Url : check[x][u] = "listed"
  /\ Goto(x, "checking", "ending")
  /\ UNCHANGED <<ended, check, events, channel, client, faults>>

\* update_run(COMPLETED or PARTIAL): the object it sets says "processing", so that the
\* status is written whatever the row says by now.
End(x) ==
  /\ Goto(x, "ending", "complete") /\ ended' = TRUE
  /\ UNCHANGED <<check, events, channel, client, faults>>

Complete(x) ==
  \/ /\ Goto(x, "complete", "completed") /\ Published(x)
     /\ UNCHANGED <<ended, check, events, client, faults>>
  \/ /\ Goto(x, "completed", "returning") /\ Listed(x)
     /\ UNCHANGED <<ended, check, channel, client, faults>>

TaskStep(x) ==
  \/ Begin(x) \/ ClearEventStore(x) \/ Announce(x)
  \/ \E u \in Url : PublishUrl(x, u) \/ ListUrl(x, u)
  \/ Gather(x) \/ End(x) \/ Complete(x)

\* publish_event logs an error of Redis and returns.
PublicationLost(x) ==
  /\ Fault
  /\ \/ \E u \in Url : /\ At(x, "checking") /\ check[x][u] # "listed"
                       /\ check' = [check EXCEPT ![x][u] = "listed"]
                       /\ task' = task
     \/ /\ \/ Goto(x, "announce", "checking")
           \/ Goto(x, "announced", "checking")
           \/ Goto(x, "complete", "returning")
           \/ Goto(x, "completed", "returning")
        /\ check' = check
  /\ UNCHANGED <<ended, events, channel, client>>

\* What is delivered or retried after x, if anything is left.
WithNext(f, x) == [y \in Exec |-> IF y = x + 1 /\ f[y].pc = "none"
                                  THEN [f[y] EXCEPT !.pc = "begin"] ELSE f[y]]

Runs(x) == task[x].pc # "none" /\ ~task[x].cut

\* The execution raises, or dies with its worker: it is executed again if its task still
\* waits for it.  Or its process dies alone, and nobody repeats it.
CutShort(x) ==
  /\ Fault
  /\ Runs(x)
  /\ LET f == [task EXCEPT ![x].cut = TRUE]
     IN  task' = f \/ (task[x].watched /\ task' = WithNext(f, x))
  /\ UNCHANGED <<ended, check, events, channel, client>>

\* The soft time limit interrupts the thread that waits (shared/tasks/db.py): the task is
\* retried while the execution goes on.
SoftTimeLimit(x) ==
  /\ Fault
  /\ Runs(x) /\ task[x].watched
  /\ task' = WithNext([task EXCEPT ![x].watched = FALSE], x)
  /\ UNCHANGED <<ended, check, events, channel, client>>

TaskFault(x) == PublicationLost(x) \/ CutShort(x) \/ SoftTimeLimit(x)

-----------------------------------------------------------------------------
(* sse_event_stream *)

\* The "completed" events of a list.
CompletedIn(s) == {s[i] : i \in 1 .. Len(s)} \ {Progress}

\* The stored events are delivered, "completed" like any other.
CatchUp ==
  /\ client.pc = "new"
  /\ client' = [client EXCEPT !.pc = "subscribing", !.processed = Len(events),
                              !.got = CompletedIn(events)]
  /\ UNCHANGED <<ended, task, check, events, channel, faults>>

Subscribe ==
  /\ client.pc = "subscribing"
  /\ client' = [client EXCEPT !.pc = "get", !.subscribed = TRUE]
  /\ UNCHANGED <<ended, task, check, events, channel, faults>>

\* lrange runs into its timeout: nothing is caught up.
CatchUpTimesOut ==
  /\ Fault
  /\ client.pc = "new" /\ client' = [client EXCEPT !.pc = "subscribing"]
  /\ UNCHANGED <<ended, task, check, events, channel>>

\* subscribe runs into its timeout, and the stream goes on without the channel.
SubscribeTimesOut ==
  /\ Fault
  /\ client.pc = "subscribing" /\ client' = [client EXCEPT !.pc = "get"]
  /\ UNCHANGED <<ended, task, check, events, channel>>

\* One message from the channel, or none within a second.
GetMessage ==
  /\ client.pc = "get"
  /\ \/ /\ client' = [client EXCEPT !.pc = "poll"]
        /\ UNCHANGED channel
     \/ /\ channel # <<>>
        /\ channel' = Tail(channel)
        /\ client' = [client EXCEPT
             !.pc = IF Head(channel) # Progress THEN "completed" ELSE "poll",
             !.processed = @ + 1, !.got = @ \cup CompletedIn(<<Head(channel)>>)]
  /\ UNCHANGED <<ended, task, check, events, faults>>

\* The list from index processed on; delivery stops at the first "completed" event.
Unread == SubSeq(events, client.processed + 1, Len(events))

FirstCompleted(s) ==
  {s[i] : i \in {j \in 1 .. Len(s) : s[j] # Progress /\ \A k \in 1 .. j - 1 : s[k] = Progress}}

\* One empty poll more; at max_poll_failures the stream closes as idle.
PollFailed_OnlySubscribed(c) ==
  [c EXCEPT !.failures = IF c.subscribed THEN @ + 1 ELSE @,
            !.pc = IF c.subscribed /\ c.failures + 1 >= MaxPollFailures THEN "idle" ELSE "get"]

PollFailed(c) ==
  [c EXCEPT !.failures = @ + 1,
            !.pc = IF c.failures + 1 >= MaxPollFailures THEN "idle" ELSE "get"]

Poll ==
  /\ client.pc = "poll"
  /\ client' = IF Unread = <<>> THEN PollFailed(client)
               ELSE [client EXCEPT
                 !.pc = IF FirstCompleted(Unread) # {} THEN "completed" ELSE "get",
                 !.processed = @ + Len(Unread), !.got = @ \cup FirstCompleted(Unread)]
  /\ UNCHANGED <<ended, task, check, events, channel, faults>>

PollTimesOut ==
  /\ Fault
  /\ client.pc = "poll" /\ client' = PollFailed(client)
  /\ UNCHANGED <<ended, task, check, events, channel>>

\* Any other error of Redis ends the stream with an error event.
ClientRaises ==
  /\ Fault
  /\ client.pc \in {"new", "subscribing", "get", "poll"}
  /\ client' = [client EXCEPT !.pc = "error"]
  /\ UNCHANGED <<ended, task, check, events, channel>>

ClientStep == CatchUp \/ Subscribe \/ GetMessage \/ Poll

Next ==
  \/ \E x \in Exec : TaskStep(x) \/ TaskFault(x)
  \/ ClientStep \/ CatchUpTimesOut \/ SubscribeTimesOut \/ PollTimesOut \/ ClientRaises

Spec == Init /\ [][Next]_vars

\* The executions and the client take their steps; no fault is due.
Fairness == (\A x \in Exec : WF_vars(TaskStep(x))) /\ WF_vars(ClientStep)

LiveSpec == Spec /\ Fairness

-----------------------------------------------------------------------------
(* Properties; StreamPromise has the other *)

\* A stream that was opened is closed, with or without a subscription, whatever it
\* missed.
StreamCloses == (client.pc = "subscribing") ~> (client.pc \in {"completed", "idle", "error"})
=============================================================================
