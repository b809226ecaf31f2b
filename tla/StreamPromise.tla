----------------------------- MODULE StreamPromise -----------------------------
(***************************************************************************)
(* What the client of an event stream may rely on, said of the committed   *)
(* run, of the executions that write it and of what the client was told.   *)
(* RedirectStream says how these change.                                   *)
(***************************************************************************)
EXTENDS Naturals

VARIABLES
  ended,    \* whether the committed row of the run is partial or completed
  task,     \* the executions of the task, in the order they were queued
  client    \* sse_event_stream; client.got are the executions it heard completed

\* Where an execution is that has opened the run, and one that has ended it.
AtWork == {"clear", "announce", "announced", "checking", "ending"}
Told == {"complete", "completed", "returning"}

\* The executions that opened the run and have not ended it, stopped on the way or not.
Opened == {x \in DOMAIN task : task[x].pc \in AtWork}

\* A client whose stream closed as completed can fetch the result, unless another
\* execution than the one that said so holds the run open: a later one, or an earlier one
\* that outlived its time limit.  An earlier one that raised or died does not.
ClosedStreamHasResult ==
  client.pc = "completed" /\ ~ended =>
    \E e \in client.got, x \in Opened : x > e \/ (x # e /\ ~task[x].watched)
=============================================================================
