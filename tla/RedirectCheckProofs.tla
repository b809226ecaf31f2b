------------------------- MODULE RedirectCheckProofs -------------------------
(***************************************************************************)
(* What holds of RedirectCheck for any URLs, any number of executions and  *)
(* any faults: its types, that a completed run has stored its results, and *)
(* that the counts of an ended run are those of one execution; and of      *)
(* RedirectStream: that a client told of the end finds it.                 *)
(***************************************************************************)
EXTENDS RedirectCheck, StreamPromise, FiniteSetTheorems, SequenceTheorems, TLAPS

-----------------------------------------------------------------------------
(* Types *)

ExecRecord == [pc : {"none", "queued", "raised", "lost", "done"} \cup Running, watched : BOOLEAN,
               obj : Row, failed : Nat, todo : SUBSET Url, notStored : BOOLEAN,
               aborted : BOOLEAN]
CheckRecord == [pc : {"wait", "ended", "dropped"} \cup InFlight, error : BOOLEAN,
                slot : BOOLEAN]

LEMMA TypeParts ==
  TypeOK <=>
    /\ api \in {"new", "created", "sent", "failed"} /\ row \in Row
    /\ stored \subseteq Url /\ active \in 0 .. Limit
    /\ exec \in [Exec -> ExecRecord] /\ check \in [Exec -> [Url -> CheckRecord]]
    /\ faults \in 0 .. MaxFaults
  BY DEF TypeOK, ExecRecord, CheckRecord

\* One execution changes.
LEMMA ExecFacts ==
  ASSUME exec \in [Exec -> ExecRecord], NEW x \in Exec, NEW e \in ExecRecord,
         exec' = [exec EXCEPT ![x] = e]
  PROVE  /\ exec' \in [Exec -> ExecRecord] /\ exec'[x] = e
         /\ \A y \in Exec \ {x} : exec'[y] = exec[y]
  OBVIOUS

LEMMA GotoFacts ==
  ASSUME exec \in [Exec -> ExecRecord], NEW x \in Exec, NEW from,
         NEW to \in {"none", "queued", "raised", "lost", "done"} \cup Running, Goto(x, from, to)
  PROVE  /\ exec[x].pc = from /\ exec' \in [Exec -> ExecRecord]
         /\ exec'[x] = [exec[x] EXCEPT !.pc = to] /\ exec'[x].pc = to
         /\ \A y \in Exec \ {x} : exec'[y] = exec[y]
<1> DEFINE e == [exec[x] EXCEPT !.pc = to]
<1>1. e \in ExecRecord /\ e.pc = to
  BY DEF ExecRecord
<1>2. exec' = [exec EXCEPT ![x] = e] /\ exec[x].pc = from
  BY DEF Goto
<1> QED
  BY <1>1, <1>2, ExecFacts

\* The next delivery is queued if it was not there.
LEMMA WithNextFacts ==
  ASSUME NEW f \in [Exec -> ExecRecord], NEW x \in Exec
  PROVE  /\ WithNext(f, x) \in [Exec -> ExecRecord]
         /\ \A y \in Exec : \/ WithNext(f, x)[y] = f[y]
                            \/ /\ y = x + 1 /\ f[y].pc = "none"
                               /\ WithNext(f, x)[y] = [f[y] EXCEPT !.pc = "queued"]
         /\ WithNext(f, x)[x] = f[x]
<1>1. \A y \in Exec : [f[y] EXCEPT !.pc = "queued"] \in ExecRecord
  BY DEF ExecRecord
<1>2. x # x + 1
  BY DEF Exec
<1> QED
  BY <1>1, <1>2 DEF WithNext

\* How an execution ends early, or loses its task: what changes in the executions.
Loses(x) ==
  /\ exec[x].pc \in Running
  /\ exec' \in [Exec -> ExecRecord]
  /\ \/ exec'[x] = [exec[x] EXCEPT !.pc = "raised"]
     \/ exec'[x] = [exec[x] EXCEPT !.pc = "lost"]
     \/ exec[x].watched /\ exec'[x] = [exec[x] EXCEPT !.watched = FALSE]
  /\ \A y \in Exec \ {x} :
       \/ exec'[y] = exec[y]
       \/ /\ y = x + 1 /\ exec[y].pc = "none" /\ exec[x].watched
          /\ exec'[y] = [exec[y] EXCEPT !.pc = "queued"]

LEMMA RaiseFacts ==
  ASSUME exec \in [Exec -> ExecRecord], NEW x \in Exec, exec[x].pc \in Running, RaiseIn(x)
  PROVE  Loses(x) /\ exec'[x] = [exec[x] EXCEPT !.pc = "raised"]
<1> DEFINE e == [exec[x] EXCEPT !.pc = "raised"]
           f == [exec EXCEPT ![x] = e]
<1>1. e \in ExecRecord
  BY DEF ExecRecord
<1>2. f \in [Exec -> ExecRecord] /\ f[x] = e /\ \A y \in Exec \ {x} : f[y] = exec[y]
  BY <1>1
<1>3. exec' = IF exec[x].watched THEN WithNext(f, x) ELSE f
  BY DEF RaiseIn
<1> HIDE DEF e, f
<1>4. CASE exec[x].watched
  <2>1. exec' = WithNext(f, x)
    BY <1>3, <1>4
  <2> QED
    <3>1. /\ exec' \in [Exec -> ExecRecord] /\ exec'[x] = e
          /\ \A y \in Exec \ {x} : \/ exec'[y] = exec[y]
                                   \/ /\ y = x + 1 /\ exec[y].pc = "none"
                                      /\ exec'[y] = [exec[y] EXCEPT !.pc = "queued"]
      BY <1>2, <2>1, WithNextFacts
    <3> QED
      BY <1>4, <3>1 DEF Loses, e
<1>5. CASE ~exec[x].watched
  BY <1>2, <1>3, <1>5 DEF Loses, e
<1> QED
  BY <1>4, <1>5

LEMMA LoseFacts ==
  ASSUME exec \in [Exec -> ExecRecord], NEW x \in Exec, Lose(x)
  PROVE  Loses(x)
<1> DEFINE e == [exec[x] EXCEPT !.pc = "lost"]
<1>1. e \in ExecRecord
  BY DEF ExecRecord
<1>2. exec' = [exec EXCEPT ![x] = e] /\ exec[x].pc \in Running
  BY DEF Lose
<1> QED
  BY <1>1, <1>2, ExecFacts DEF Loses

LEMMA SoftLimitFacts ==
  ASSUME exec \in [Exec -> ExecRecord], NEW x \in Exec, SoftTimeLimit(x)
  PROVE  Loses(x) /\ exec'[x].watched = FALSE
<1> DEFINE e == [exec[x] EXCEPT !.watched = FALSE]
           f == [exec EXCEPT ![x] = e]
<1>1. e \in ExecRecord /\ e.watched = FALSE
  BY DEF ExecRecord
<1>2. f \in [Exec -> ExecRecord] /\ f[x] = e /\ \A y \in Exec \ {x} : f[y] = exec[y]
  BY <1>1
<1>3. exec' = WithNext(f, x) /\ exec[x].pc \in Running /\ exec[x].watched
  BY DEF SoftTimeLimit
<1> HIDE DEF f, e
<1>4. /\ exec' \in [Exec -> ExecRecord] /\ exec'[x] = e
      /\ \A y \in Exec \ {x} : \/ exec'[y] = exec[y]
                               \/ /\ y = x + 1 /\ exec[y].pc = "none"
                                  /\ exec'[y] = [exec[y] EXCEPT !.pc = "queued"]
  BY <1>2, <1>3, WithNextFacts
<1> QED
  BY <1>1, <1>3, <1>4 DEF Loses, e

\* One coroutine moves.
LEMMA MovesFacts ==
  ASSUME check \in [Exec -> [Url -> CheckRecord]], NEW x \in Exec, NEW u \in Url,
         NEW from, NEW c \in CheckRecord, Moves(x, u, from, c)
  PROVE  /\ exec[x].pc = "checking" /\ check[x][u].pc = from
         /\ check' \in [Exec -> [Url -> CheckRecord]] /\ check'[x][u] = c
         /\ \A v \in Url \ {u} : check'[x][v] = check[x][v]
         /\ \A y \in Exec \ {x} : check'[y] = check[y]
  BY DEF Moves

\* A coroutine that ends counts what it ends with, and changes nothing else of its
\* execution.
CountsAs(x, u) ==
  IF check'[x][u].pc = "ended" /\ check'[x][u].error THEN exec[x].failed + 1 ELSE exec[x].failed

CoroutineMoves(x, u) ==
  /\ exec[x].pc = "checking" /\ check[x][u].pc \in {"wait"} \cup InFlight
  /\ exec' \in [Exec -> ExecRecord] /\ exec'[x] = [exec[x] EXCEPT !.failed = CountsAs(x, u)]
  /\ \A y \in Exec \ {x} : exec'[y] = exec[y]
  /\ check' \in [Exec -> [Url -> CheckRecord]]
  /\ \A v \in Url \ {u} : check'[x][v] = check[x][v]
  /\ \A y \in Exec \ {x} : check'[y] = check[y]
  /\ active' \in 0 .. Limit /\ faults' \in 0 .. MaxFaults
  /\ UNCHANGED <<api, row, stored>>

LEMMA CoroutineFacts ==
  ASSUME TypeOK, NEW x \in Exec, NEW u \in Url, Check(x, u) \/ CheckFault(x, u)
  PROVE  CoroutineMoves(x, u)
<1>1. /\ exec \in [Exec -> ExecRecord] /\ check \in [Exec -> [Url -> CheckRecord]]
      /\ active \in 0 .. Limit /\ Limit \in Nat /\ faults \in 0 .. MaxFaults /\ MaxFaults \in Nat
  BY TypeParts, RedirectAssumption
<1>2. check[x][u] \in CheckRecord /\ exec[x] \in ExecRecord /\ exec[x].failed \in Nat
  BY <1>1 DEF ExecRecord
<1>3. ASSUME Fault PROVE faults' \in 0 .. MaxFaults
  BY <1>1, <1>3 DEF Fault
<1>4. ASSUME exec' = exec PROVE exec'[x] = [exec[x] EXCEPT !.failed = exec[x].failed]
  BY <1>1, <1>4 DEF ExecRecord
<1>5. ASSUME exec' = [exec EXCEPT ![x].failed = @ + 1]
      PROVE  /\ exec' \in [Exec -> ExecRecord]
             /\ exec'[x] = [exec[x] EXCEPT !.failed = exec[x].failed + 1]
             /\ \A y \in Exec \ {x} : exec'[y] = exec[y]
  <2> DEFINE e == [exec[x] EXCEPT !.failed = exec[x].failed + 1]
  <2>1. e \in ExecRecord
    <3>1. exec[x].failed + 1 \in Nat
      BY <1>2
    <3> QED
      BY <1>2, <3>1 DEF ExecRecord
  <2>2. exec' = [exec EXCEPT ![x] = e]
    BY <1>5
  <2> HIDE DEF e
  <2>3. /\ exec' \in [Exec -> ExecRecord] /\ exec'[x] = e
        /\ \A y \in Exec \ {x} : exec'[y] = exec[y]
    BY <1>1, <2>1, <2>2, ExecFacts
  <2> QED
    BY <2>3 DEF e
<1>6. Freed(check[x][u]) \in 0 .. Limit
  BY <1>1 DEF Freed
<1>7. Waiting \in CheckRecord
  BY DEF Waiting, CheckRecord
<1>8. CASE Start(x, u)
  <2> DEFINE free == active < Limit
             c == [Waiting EXCEPT !.pc = "busy", !.slot = free]
  <2>1. c \in CheckRecord /\ c.pc = "busy"
    <3>1. free \in BOOLEAN
      BY <1>1
    <3> HIDE DEF free
    <3> QED
      BY <3>1 DEF Waiting, CheckRecord, InFlight
  <2>2. Moves(x, u, "wait", c) /\ exec' = exec /\ UNCHANGED <<api, row, stored, faults>>
        /\ active' \in 0 .. Limit
    BY <1>1, <1>8 DEF Start
  <2> HIDE DEF c
  <2> QED
    BY <1>1, <1>4, <2>1, <2>2, MovesFacts DEF CoroutineMoves, CountsAs
<1>9. CASE Resolve(x, u)
  <2>1. PICK e \in BOOLEAN : Moves(x, u, "busy", [check[x][u] EXCEPT !.pc = "report", !.error = e])
    BY <1>9 DEF Resolve
  <2> DEFINE c == [check[x][u] EXCEPT !.pc = "report", !.error = e]
  <2>2. c \in CheckRecord /\ c.pc = "report"
    BY <1>2 DEF CheckRecord, InFlight
  <2>3. Moves(x, u, "busy", c) /\ UNCHANGED <<api, row, stored, active, exec, faults>>
    BY <1>9, <2>1 DEF Resolve
  <2> HIDE DEF c
  <2> QED
    BY <1>1, <1>4, <2>2, <2>3, MovesFacts DEF CoroutineMoves, CountsAs, InFlight
<1>10. CASE Report(x, u)
  <2> DEFINE c == [check[x][u] EXCEPT !.pc = "ended"]
  <2>1. c \in CheckRecord /\ c.pc = "ended" /\ c.error = check[x][u].error
    BY <1>2 DEF CheckRecord
  <2>2. Moves(x, u, "report", c) /\ UNCHANGED <<api, row, stored, faults>>
        /\ active' = Freed(check[x][u])
        /\ exec' = IF check[x][u].error THEN [exec EXCEPT ![x].failed = @ + 1] ELSE exec
    BY <1>10 DEF Report
  <2> HIDE DEF c
  <2>3. /\ exec[x].pc = "checking" /\ check[x][u].pc = "report"
        /\ check' \in [Exec -> [Url -> CheckRecord]] /\ check'[x][u] = c
        /\ \A v \in Url \ {u} : check'[x][v] = check[x][v]
        /\ \A y \in Exec \ {x} : check'[y] = check[y]
    BY <1>1, <2>1, <2>2, MovesFacts
  <2>4. CASE c.error
    BY <1>1, <1>5, <1>6, <2>1, <2>2, <2>3, <2>4 DEF CoroutineMoves, CountsAs, InFlight
  <2>5. CASE ~c.error
    BY <1>1, <1>4, <1>6, <2>1, <2>2, <2>3, <2>5 DEF CoroutineMoves, CountsAs, InFlight
  <2> QED
    BY <2>4, <2>5
<1>11. CASE StartRaises(x, u)
  <2> DEFINE c == [Waiting EXCEPT !.pc = "dropped"]
  <2>1. c \in CheckRecord /\ c.pc = "dropped"
    BY DEF Waiting, CheckRecord
  <2>2. Moves(x, u, "wait", c) /\ UNCHANGED <<api, row, stored, exec>>
        /\ active' \in 0 .. Limit /\ faults' \in 0 .. MaxFaults
    BY <1>1, <1>3, <1>11 DEF StartRaises
  <2> HIDE DEF c
  <2> QED
    BY <1>1, <1>4, <2>1, <2>2, MovesFacts DEF CoroutineMoves, CountsAs
<1>12. CASE CheckRaises(x, u) \/ ReportRaises(x, u)
  <2> DEFINE c == [check[x][u] EXCEPT !.pc = "ended", !.error = TRUE]
  <2>1. c \in CheckRecord /\ c.pc = "ended" /\ c.error
    BY <1>2 DEF CheckRecord
  <2>2. /\ Moves(x, u, "busy", c) \/ Moves(x, u, "report", c)
        /\ UNCHANGED <<api, row, stored>> /\ faults' \in 0 .. MaxFaults
        /\ active' = Freed(check[x][u])
        /\ exec' = [exec EXCEPT ![x].failed = @ + 1]
    BY <1>3, <1>12 DEF CheckRaises, ReportRaises, KeepFailed
  <2> HIDE DEF c
  <2>3. /\ exec[x].pc = "checking" /\ check[x][u].pc \in InFlight
        /\ check' \in [Exec -> [Url -> CheckRecord]] /\ check'[x][u] = c
        /\ \A v \in Url \ {u} : check'[x][v] = check[x][v]
        /\ \A y \in Exec \ {x} : check'[y] = check[y]
    BY <1>1, <2>1, <2>2, MovesFacts DEF InFlight
  <2> QED
    BY <1>1, <1>5, <1>6, <2>1, <2>2, <2>3 DEF CoroutineMoves, CountsAs
<1> QED
  BY <1>8, <1>9, <1>10, <1>11, <1>12 DEF Check, CheckFault

-----------------------------------------------------------------------------
(* What an execution counts *)

FailedResults(x) == {u \in Results(x) : check[x][u].error}

\* failed counts the results that are failures.
FailedIsCounted == \A x \in Exec : exec[x].failed = Cardinality(FailedResults(x))

LEMMA CountIsKept ==
  ASSUME TypeOK, FailedIsCounted, NEW x \in Exec, NEW u \in Url, CoroutineMoves(x, u)
  PROVE  FailedIsCounted'
<1>1. IsFiniteSet(FailedResults(x)) /\ Cardinality(FailedResults(x)) = exec[x].failed
  BY RedirectAssumption, FS_Subset DEF FailedResults, Results, FailedIsCounted
<1>2. \A y \in Exec \ {x} : FailedResults(y)' = FailedResults(y) /\ exec'[y].failed = exec[y].failed
  BY DEF CoroutineMoves, FailedResults, Results
<1>3. exec'[x].failed = CountsAs(x, u)
  BY TypeParts DEF CoroutineMoves, ExecRecord
<1>4. CASE check'[x][u].pc = "ended" /\ check'[x][u].error
  <2>1. FailedResults(x)' = FailedResults(x) \cup {u} /\ u \notin FailedResults(x)
    BY <1>4 DEF CoroutineMoves, FailedResults, Results, InFlight
  <2>2. Cardinality(FailedResults(x)') = exec[x].failed + 1
    BY <1>1, <2>1, FS_AddElement
  <2> QED
    BY <1>2, <1>3, <1>4, <2>2 DEF FailedIsCounted, CountsAs
<1>5. CASE ~(check'[x][u].pc = "ended" /\ check'[x][u].error)
  <2>1. FailedResults(x)' = FailedResults(x)
    BY <1>5 DEF CoroutineMoves, FailedResults, Results, InFlight
  <2> QED
    BY <1>1, <1>2, <1>3, <1>5, <2>1 DEF FailedIsCounted, CountsAs
<1> QED
  BY <1>4, <1>5

\* The results of an execution are its failures and the others.
LEMMA ResultsAreCounted ==
  ASSUME TypeOK, FailedIsCounted, NEW x \in Exec
  PROVE  /\ Cardinality(Results(x)) - exec[x].failed \in Nat
         /\ Cardinality(Results(x)) - exec[x].failed
              = Cardinality({u \in Results(x) : ~check[x][u].error})
<1> DEFINE good == {u \in Results(x) : ~check[x][u].error}
<1>1. IsFiniteSet(Results(x)) /\ IsFiniteSet(FailedResults(x)) /\ IsFiniteSet(good)
  BY RedirectAssumption, FS_Subset DEF FailedResults, Results
<1>2. Results(x) = FailedResults(x) \cup good /\ FailedResults(x) \cap good = {}
  BY DEF FailedResults
<1>3. Cardinality(Results(x)) = Cardinality(FailedResults(x)) + Cardinality(good)
  <2> HIDE DEF good
  <2>1. Cardinality(FailedResults(x) \cup good)
          = Cardinality(FailedResults(x)) + Cardinality(good)
              - Cardinality(FailedResults(x) \cap good)
    BY <1>1, FS_Union
  <2>2. Cardinality(FailedResults(x) \cap good) = 0
    BY <1>2, FS_EmptySet
  <2> QED
    BY <1>1, <1>2, <2>1, <2>2, FS_CardinalityType
<1>4. Cardinality(FailedResults(x)) \in Nat /\ Cardinality(good) \in Nat
  BY <1>1, FS_CardinalityType
<1> QED
  BY <1>3, <1>4 DEF FailedIsCounted

-----------------------------------------------------------------------------
(* Completed means stored *)

\* What an execution has done when it comes to a place.
WorkOf(x) ==
  /\ exec[x].pc \in {"persisting", "ending", "returning", "done"} =>
       \A u \in Url : check[x][u].pc \in {"ended", "dropped"}
  /\ exec[x].pc \in {"checking", "persisting", "ending"} => exec[x].obj.status = "processing"
  /\ exec[x].pc = "persisting" /\ ~exec[x].notStored => Results(x) \ exec[x].todo \subseteq stored
  /\ exec[x].pc = "ending" /\ ~exec[x].notStored => Results(x) \subseteq stored

StoreInv ==
  TypeOK /\ FailedIsCounted /\ (\A x \in Exec : WorkOf(x)) /\ CompletedMeansStored

\* An execution that is not at work, or goes on as it was, keeps what it has done.
LEMMA WorkFrame ==
  ASSUME NEW y \in Exec, WorkOf(y), check'[y] = check[y], stored \subseteq stored',
         \/ exec'[y] = exec[y]
         \/ exec'[y].pc \in {"none", "queued", "begin", "raised", "lost"}
         \/ /\ exec'[y].pc = exec[y].pc /\ exec'[y].obj = exec[y].obj
            /\ exec'[y].todo = exec[y].todo /\ exec'[y].notStored = exec[y].notStored
  PROVE  WorkOf(y)'
<1>1. Results(y)' = Results(y)
  BY DEF Results
<1>2. CASE exec'[y].pc \in {"none", "queued", "begin", "raised", "lost"}
  BY <1>2 DEF WorkOf
<1>3. CASE /\ exec'[y].pc = exec[y].pc /\ exec'[y].obj = exec[y].obj
           /\ exec'[y].todo = exec[y].todo /\ exec'[y].notStored = exec[y].notStored
  BY <1>1, <1>3 DEF WorkOf
<1> QED
  BY <1>2, <1>3

LEMMA CompletedFrame ==
  ASSUME CompletedMeansStored, stored \subseteq stored',
         \A y \in Exec, v \in Url : check[y][v].pc = "dropped" => check'[y][v].pc = "dropped",
         row'.status = "completed" => row.status = "completed"
  PROVE  CompletedMeansStored'
  BY DEF CompletedMeansStored

LEMMA CountedFrame ==
  ASSUME FailedIsCounted, check' = check, \A y \in Exec : exec'[y].failed = exec[y].failed
  PROVE  FailedIsCounted'
<1>1. \A y \in Exec : FailedResults(y)' = FailedResults(y)
  BY DEF FailedResults, Results
<1> QED
  BY <1>1 DEF FailedIsCounted

\* A step in which only the executions change, x at will and its successor by being queued.
LEMMA OnlyExecutions ==
  ASSUME StoreInv, NEW x \in Exec, exec' \in [Exec -> ExecRecord],
         UNCHANGED <<api, row, stored, active, check>>, faults' \in 0 .. MaxFaults,
         exec'[x].failed = exec[x].failed, WorkOf(x)',
         \A y \in Exec \ {x} : exec'[y] = exec[y] \/ exec'[y] = [exec[y] EXCEPT !.pc = "queued"]
  PROVE  StoreInv'
<1>1. TypeOK' /\ exec \in [Exec -> ExecRecord]
  BY TypeParts DEF StoreInv, TypeOK, ExecRecord
<1>2. \A y \in Exec \ {x} : exec'[y] = exec[y] \/ exec'[y].pc = "queued"
  BY <1>1 DEF ExecRecord
<1>3. \A y \in Exec : exec'[y].failed = exec[y].failed
  BY <1>1 DEF ExecRecord
<1>4. FailedIsCounted'
  BY <1>3, CountedFrame DEF StoreInv
<1>5. \A y \in Exec : WorkOf(y)'
  BY <1>2, WorkFrame DEF StoreInv
<1>6. CompletedMeansStored'
  BY CompletedFrame DEF StoreInv
<1> QED
  BY <1>1, <1>4, <1>5, <1>6 DEF StoreInv

LEMMA LosesKeeps ==
  ASSUME StoreInv, NEW x \in Exec, Loses(x), UNCHANGED <<api, row, stored, active, check>>,
         faults' \in 0 .. MaxFaults
  PROVE  StoreInv'
<1>1. exec[x] \in ExecRecord
  BY TypeParts DEF StoreInv
<1>2. \/ exec'[x].pc \in {"raised", "lost"}
      \/ /\ exec'[x].pc = exec[x].pc /\ exec'[x].obj = exec[x].obj
         /\ exec'[x].todo = exec[x].todo /\ exec'[x].notStored = exec[x].notStored
  BY <1>1 DEF Loses, ExecRecord
<1>3. exec'[x].failed = exec[x].failed
  BY <1>1 DEF Loses, ExecRecord
<1>4. WorkOf(x)'
  BY <1>2, WorkFrame DEF StoreInv
<1> QED
  BY <1>3, <1>4, OnlyExecutions DEF Loses

LEMMA CoroutineKeepsStore ==
  ASSUME StoreInv, NEW x \in Exec, NEW u \in Url, CoroutineMoves(x, u)
  PROVE  StoreInv'
<1>1. exec[x] \in ExecRecord /\ check \in [Exec -> [Url -> CheckRecord]]
  BY TypeParts DEF StoreInv
<1>2. TypeOK'
  BY TypeParts DEF StoreInv, TypeOK, ExecRecord, CheckRecord, CoroutineMoves
<1>3. FailedIsCounted'
  BY CountIsKept DEF StoreInv
<1>4. exec'[x].pc = "checking" /\ exec'[x].obj = exec[x].obj /\ exec[x].pc = "checking"
  BY <1>1 DEF CoroutineMoves, ExecRecord
<1>5. WorkOf(x)'
  BY <1>4 DEF WorkOf, StoreInv
<1>6. \A y \in Exec \ {x} : WorkOf(y)'
  BY WorkFrame DEF CoroutineMoves, StoreInv
<1>7. \A y \in Exec, v \in Url : check[y][v].pc = "dropped" => check'[y][v].pc = "dropped"
  BY DEF CoroutineMoves, InFlight
<1>8. CompletedMeansStored'
  BY <1>7, CompletedFrame DEF CoroutineMoves, StoreInv
<1> QED
  BY <1>2, <1>3, <1>5, <1>6, <1>8 DEF StoreInv

\* The two writes of the run's row.
LEMMA BeginFacts ==
  ASSUME TypeOK, NEW x \in Exec, Begin(x)
  PROVE  /\ exec[x].pc = "begin" /\ exec' \in [Exec -> ExecRecord]
         /\ row' \in Row /\ row' = [row EXCEPT !.status = "processing"]
         /\ row'.status = "processing"
         /\ exec'[x] = [exec[x] EXCEPT !.pc = "checking", !.obj = row']
         /\ \A y \in Exec \ {x} : exec'[y] = exec[y]
<1>1. exec \in [Exec -> ExecRecord] /\ row \in Row
  BY TypeParts
<1>2. row' = [row EXCEPT !.status = "processing"] /\ row' \in Row /\ row'.status = "processing"
  BY <1>1 DEF Begin, Row
<1> DEFINE e == [exec[x] EXCEPT !.pc = "checking", !.obj = row']
<1>3. e \in ExecRecord
  BY <1>1, <1>2 DEF ExecRecord, Running
<1>4. exec' = [exec EXCEPT ![x] = e] /\ exec[x].pc = "begin"
  BY DEF Begin
<1> HIDE DEF e
<1>5. /\ exec' \in [Exec -> ExecRecord] /\ exec'[x] = e
      /\ \A y \in Exec \ {x} : exec'[y] = exec[y]
  BY <1>1, <1>3, <1>4, ExecFacts
<1> QED
  BY <1>2, <1>4, <1>5 DEF e

LEMMA EndFacts ==
  ASSUME TypeOK, FailedIsCounted, NEW x \in Exec, End(x), exec[x].obj.status = "processing"
  PROVE  /\ exec[x].pc = "ending" /\ exec' \in [Exec -> ExecRecord]
         /\ exec'[x] = [exec[x] EXCEPT !.pc = "returning"]
         /\ \A y \in Exec \ {x} : exec'[y] = exec[y]
         /\ row' \in Row /\ row'.status = EndStatus(x)
         /\ exec[x].obj.failed = row.failed => row'.failed = exec[x].failed
         /\ exec[x].obj.completed = row.completed =>
              row'.completed = Cardinality(Results(x)) - exec[x].failed
<1>1. exec \in [Exec -> ExecRecord] /\ row \in Row
  BY TypeParts
<1>2. exec[x].obj \in Row /\ exec[x].failed \in Nat
  BY <1>1 DEF ExecRecord
<1>3. "returning" \in {"none", "queued", "raised", "lost", "done"} \cup Running
  BY DEF Running
<1>4. /\ exec[x].pc = "ending" /\ exec' \in [Exec -> ExecRecord]
      /\ exec'[x] = [exec[x] EXCEPT !.pc = "returning"]
      /\ \A y \in Exec \ {x} : exec'[y] = exec[y]
  BY <1>1, <1>3, GotoFacts DEF End
<1> DEFINE n == Cardinality(Results(x)) - exec[x].failed
           s == EndStatus(x)
           f == exec[x].failed
<1>5. n \in Nat /\ s \in {"partial", "completed"} /\ f \in Nat
  BY <1>2, ResultsAreCounted DEF EndStatus
<1>6. EndObject(x) = [status |-> s, completed |-> n, failed |-> f]
  BY DEF EndObject
<1> HIDE DEF n, s, f
<1>7. DOMAIN row = {"status", "completed", "failed"}
  BY <1>1 DEF Row
<1>8. row' = [status    |-> IF s # exec[x].obj.status THEN s ELSE row.status,
              completed |-> IF n # exec[x].obj.completed THEN n ELSE row.completed,
              failed    |-> IF f # exec[x].obj.failed THEN f ELSE row.failed]
  BY <1>6, <1>7 DEF End, Merged
<1>9. /\ row'.status = s
      /\ row'.completed = IF n # exec[x].obj.completed THEN n ELSE row.completed
      /\ row'.failed = IF f # exec[x].obj.failed THEN f ELSE row.failed
      /\ row' = [status |-> row'.status, completed |-> row'.completed, failed |-> row'.failed]
  BY <1>5, <1>8
<1>10. row'.completed \in Nat /\ row'.failed \in Nat
  BY <1>1, <1>5, <1>9 DEF Row
<1>11. row' \in Row
  BY <1>5, <1>9, <1>10 DEF Row
<1> QED
  BY <1>4, <1>9, <1>11 DEF n, s, f

LEMMA StepKeepsStore ==
  ASSUME StoreInv, NEW x \in Exec, Step(x)
  PROVE  StoreInv'
<1>1. /\ exec \in [Exec -> ExecRecord] /\ exec[x] \in ExecRecord
      /\ faults \in 0 .. MaxFaults /\ stored \subseteq Url /\ Results(x) \subseteq Url
  BY TypeParts DEF StoreInv, Results
<1>2. WorkOf(x)
  BY DEF StoreInv
<1>3. CASE Discover(x)
  <2>1. /\ exec' \in [Exec -> ExecRecord] /\ exec'[x] = [exec[x] EXCEPT !.pc = "begin"]
        /\ \A y \in Exec \ {x} : exec'[y] = exec[y]
    BY <1>1, <1>3, GotoFacts DEF Discover, Running
  <2>2. exec'[x].pc = "begin" /\ exec'[x].failed = exec[x].failed
    BY <1>1, <2>1 DEF ExecRecord
  <2>3. WorkOf(x)'
    BY <2>2 DEF WorkOf
  <2> QED
    BY <1>1, <1>3, <2>1, <2>2, <2>3, OnlyExecutions DEF Discover
<1>4. CASE Begin(x)
  <2>1. /\ exec[x].pc = "begin" /\ exec' \in [Exec -> ExecRecord]
        /\ row' \in Row /\ row'.status = "processing"
        /\ exec'[x] = [exec[x] EXCEPT !.pc = "checking", !.obj = row']
        /\ \A y \in Exec \ {x} : exec'[y] = exec[y]
        /\ UNCHANGED <<api, stored, active, check, faults>>
    BY <1>4, BeginFacts DEF StoreInv, Begin
  <2>2. exec'[x].pc = "checking" /\ exec'[x].failed = exec[x].failed /\ exec'[x].obj = row'
    BY <1>1, <2>1 DEF ExecRecord
  <2>3. TypeOK'
    BY <2>1, TypeParts DEF StoreInv, TypeOK, ExecRecord
  <2>4. FailedIsCounted'
    BY <2>1, <2>2, CountedFrame DEF StoreInv
  <2>5. \A y \in Exec : WorkOf(y)'
    <3>1. WorkOf(x)'
      BY <2>1, <2>2 DEF WorkOf
    <3>2. \A y \in Exec \ {x} : WorkOf(y)'
      BY <2>1, WorkFrame DEF StoreInv
    <3> QED
      BY <3>1, <3>2
  <2>6. CompletedMeansStored'
    BY <2>1 DEF CompletedMeansStored
  <2> QED
    BY <2>3, <2>4, <2>5, <2>6 DEF StoreInv
<1>5. ASSUME NEW u \in Url, Check(x, u) PROVE StoreInv'
  BY <1>5, CoroutineFacts, CoroutineKeepsStore DEF StoreInv
<1>6. CASE Gather(x)
  <2> DEFINE e == [exec[x] EXCEPT !.pc = "persisting", !.todo = Results(x)]
  <2>1. e \in ExecRecord /\ e.pc = "persisting" /\ e.todo = Results(x) /\ e.failed = exec[x].failed
        /\ e.obj = exec[x].obj
    BY <1>1 DEF ExecRecord, Running
  <2>2. exec' = [exec EXCEPT ![x] = e] /\ exec[x].pc = "checking"
    BY <1>6 DEF Gather
  <2> HIDE DEF e
  <2>3. /\ exec' \in [Exec -> ExecRecord] /\ exec'[x] = e
        /\ \A y \in Exec \ {x} : exec'[y] = exec[y]
    BY <1>1, <2>1, <2>2, ExecFacts
  <2>4. UNCHANGED <<api, row, stored, active, check, faults>>
        /\ \A u \in Url : check[x][u].pc \in {"ended", "dropped"}
    BY <1>6 DEF Gather
  <2>5. WorkOf(x)'
    BY <1>2, <2>1, <2>2, <2>3, <2>4 DEF WorkOf, Results
  <2> QED
    BY <1>1, <2>1, <2>3, <2>4, <2>5, OnlyExecutions
<1>7. CASE Persist(x)
  <2>1. PICK u \in exec[x].todo :
       /\ exec' = [exec EXCEPT ![x].todo = @ \ {u},
                               ![x].notStored = @ \/ exec[x].aborted]
       /\ stored' = IF exec[x].aborted THEN stored ELSE stored \cup {u}
    BY <1>7 DEF Persist
  <2> DEFINE lost == exec[x].notStored \/ exec[x].aborted
             e == [exec[x] EXCEPT !.todo = exec[x].todo \ {u}, !.notStored = lost]
  <2>2. lost \in BOOLEAN
    BY <1>1 DEF ExecRecord
  <2>3. exec' = [exec EXCEPT ![x] = e]
    BY <2>1
  <2>4. (~lost => ~exec[x].notStored /\ stored' = stored \cup {u}) /\ stored \subseteq stored'
        /\ stored' \subseteq Url
    BY <1>1, <2>1 DEF ExecRecord
  <2> HIDE DEF lost
  <2>5. e \in ExecRecord /\ e.pc = exec[x].pc /\ e.todo = exec[x].todo \ {u}
        /\ e.failed = exec[x].failed /\ e.obj = exec[x].obj /\ e.notStored = lost
    BY <1>1, <2>2 DEF ExecRecord
  <2> HIDE DEF e
  <2>6. /\ exec' \in [Exec -> ExecRecord] /\ exec'[x] = e
        /\ \A y \in Exec \ {x} : exec'[y] = exec[y]
    BY <1>1, <2>3, <2>5, ExecFacts
  <2>7. UNCHANGED <<api, row, active, check, faults>> /\ exec[x].pc = "persisting"
    BY <1>7 DEF Persist
  <2>8. TypeOK'
    BY <2>4, <2>6, <2>7, TypeParts DEF StoreInv, TypeOK, ExecRecord
  <2>9. FailedIsCounted'
    BY <2>5, <2>6, <2>7, CountedFrame DEF StoreInv
  <2>10. WorkOf(x)'
    BY <1>2, <2>4, <2>5, <2>6, <2>7 DEF WorkOf, Results
  <2>11. \A y \in Exec \ {x} : WorkOf(y)'
    BY <2>4, <2>6, <2>7, WorkFrame DEF StoreInv
  <2>12. CompletedMeansStored'
    BY <2>4, <2>7, CompletedFrame DEF StoreInv
  <2> QED
    BY <2>8, <2>9, <2>10, <2>11, <2>12 DEF StoreInv
<1>8. CASE Persisted(x)
  <2>1. /\ exec[x].pc = "persisting" /\ exec' \in [Exec -> ExecRecord]
        /\ exec'[x] = [exec[x] EXCEPT !.pc = "ending"]
        /\ \A y \in Exec \ {x} : exec'[y] = exec[y]
        /\ UNCHANGED <<api, row, stored, active, check, faults>> /\ exec[x].todo = {}
    BY <1>1, <1>8, GotoFacts DEF Persisted, Running
  <2>2. exec'[x].pc = "ending" /\ exec'[x].failed = exec[x].failed /\ exec'[x].obj = exec[x].obj
        /\ exec'[x].notStored = exec[x].notStored
    BY <1>1, <2>1 DEF ExecRecord
  <2>3. WorkOf(x)'
    BY <1>2, <2>1, <2>2 DEF WorkOf, Results
  <2> QED
    BY <1>1, <2>1, <2>2, <2>3, OnlyExecutions
<1>9. CASE End(x)
  <2>1. exec[x].pc = "ending"
    BY <1>9 DEF End, Goto
  <2>2. exec[x].obj.status = "processing"
    BY <1>2, <2>1 DEF WorkOf
  <2>3. /\ exec' \in [Exec -> ExecRecord]
        /\ exec'[x] = [exec[x] EXCEPT !.pc = "returning"]
        /\ \A y \in Exec \ {x} : exec'[y] = exec[y]
        /\ row' \in Row /\ row'.status = EndStatus(x)
        /\ UNCHANGED <<api, stored, active, check, faults>>
    BY <1>9, <2>2, EndFacts DEF End, StoreInv
  <2>4. exec'[x].pc = "returning" /\ exec'[x].failed = exec[x].failed
    BY <1>1, <2>3 DEF ExecRecord
  <2>5. TypeOK'
    BY <2>3, TypeParts DEF StoreInv, TypeOK, ExecRecord
  <2>6. FailedIsCounted'
    BY <2>3, <2>4, CountedFrame DEF StoreInv
  <2>7. WorkOf(x)'
    BY <1>2, <2>1, <2>3, <2>4 DEF WorkOf
  <2>8. \A y \in Exec \ {x} : WorkOf(y)'
    BY <2>3, WorkFrame DEF StoreInv
  <2>9. CompletedMeansStored'
    <3> SUFFICES ASSUME row'.status = "completed", NEW u \in Url,
                        \A y \in Exec : check[y][u].pc # "dropped"
                 PROVE  u \in stored
      BY <2>3 DEF CompletedMeansStored
    <3>1. ~exec[x].notStored
      BY <2>3 DEF EndStatus
    <3>2. check[x][u].pc = "ended"
      BY <1>2, <2>1 DEF WorkOf
    <3> QED
      BY <1>2, <2>1, <3>1, <3>2 DEF WorkOf, Results
  <2> QED
    BY <2>5, <2>6, <2>7, <2>8, <2>9 DEF StoreInv
<1>10. CASE EndRaises(x)
  <2>1. Loses(x)
    BY <1>1, <1>10, RaiseFacts DEF EndRaises, Running
  <2> QED
    BY <1>1, <1>10, <2>1, LosesKeeps DEF EndRaises
<1>11. CASE Return(x)
  <2>1. /\ exec[x].pc = "returning" /\ exec' \in [Exec -> ExecRecord]
        /\ exec'[x] = [exec[x] EXCEPT !.pc = "done"]
        /\ \A y \in Exec \ {x} : exec'[y] = exec[y]
        /\ UNCHANGED <<api, row, stored, active, check, faults>>
    BY <1>1, <1>11, GotoFacts DEF Return
  <2>2. exec'[x].pc = "done" /\ exec'[x].failed = exec[x].failed
    BY <1>1, <2>1 DEF ExecRecord
  <2>3. WorkOf(x)'
    BY <1>2, <2>1, <2>2 DEF WorkOf
  <2> QED
    BY <1>1, <2>1, <2>2, <2>3, OnlyExecutions
<1> QED
  BY <1>3, <1>4, <1>5, <1>6, <1>7, <1>8, <1>9, <1>10, <1>11 DEF Step

LEMMA FaultKeepsStore ==
  ASSUME StoreInv, NEW x \in Exec, TaskFault(x)
  PROVE  StoreInv'
<1>1. /\ exec \in [Exec -> ExecRecord] /\ exec[x] \in ExecRecord
      /\ faults \in 0 .. MaxFaults /\ MaxFaults \in Nat
  BY TypeParts, RedirectAssumption DEF StoreInv
<1>2. ASSUME Fault PROVE faults' \in 0 .. MaxFaults
  BY <1>1, <1>2 DEF Fault
<1>3. CASE StepRaises(x) \/ Crash(x)
  <2>1. exec[x].pc \in Running /\ RaiseIn(x) /\ Fault /\ UNCHANGED <<api, row, stored, active, check>>
    BY <1>3 DEF StepRaises, Crash, Running
  <2> QED
    BY <1>1, <1>2, <2>1, RaiseFacts, LosesKeeps
<1>4. CASE SoftTimeLimit(x)
  BY <1>1, <1>2, <1>4, SoftLimitFacts, LosesKeeps DEF SoftTimeLimit
<1>7. CASE Lose(x)
  BY <1>1, <1>2, <1>7, LoseFacts, LosesKeeps DEF Lose
<1>5. CASE PersistRaises(x)
  <2>1. PICK u \in exec[x].todo, b \in BOOLEAN :
          exec' = [exec EXCEPT ![x].todo = @ \ {u}, ![x].notStored = TRUE,
                               ![x].aborted = @ \/ b]
    BY <1>5 DEF PersistRaises
  <2> DEFINE a == exec[x].aborted \/ b
             e == [exec[x] EXCEPT !.todo = exec[x].todo \ {u}, !.notStored = TRUE, !.aborted = a]
  <2>2. a \in BOOLEAN
    BY <1>1, <2>1 DEF ExecRecord
  <2>3. exec' = [exec EXCEPT ![x] = e]
    BY <2>1
  <2> HIDE DEF a
  <2>4. e \in ExecRecord /\ e.pc = exec[x].pc /\ e.failed = exec[x].failed /\ e.obj = exec[x].obj
        /\ e.notStored = TRUE
    BY <1>1, <2>2 DEF ExecRecord
  <2> HIDE DEF e
  <2>5. /\ exec' \in [Exec -> ExecRecord] /\ exec'[x] = e
        /\ \A y \in Exec \ {x} : exec'[y] = exec[y]
    BY <1>1, <2>3, <2>4, ExecFacts
  <2>6. UNCHANGED <<api, row, stored, active, check>> /\ exec[x].pc = "persisting" /\ Fault
    BY <1>5 DEF PersistRaises
  <2>7. WorkOf(x)'
    BY <2>4, <2>5, <2>6 DEF WorkOf, StoreInv
  <2> QED
    BY <1>2, <2>4, <2>5, <2>6, <2>7, OnlyExecutions
<1>6. ASSUME NEW u \in Url, CheckFault(x, u) PROVE StoreInv'
  BY <1>6, CoroutineFacts, CoroutineKeepsStore DEF StoreInv
<1> QED
  BY <1>3, <1>4, <1>5, <1>6, <1>7 DEF TaskFault

LEMMA RequestKeepsStore ==
  ASSUME StoreInv, Create \/ Send \/ SendFails
  PROVE  StoreInv'
<1>1. exec \in [Exec -> ExecRecord] /\ 1 \in Exec
  BY TypeParts, RedirectAssumption DEF StoreInv, Exec
<1>2. UNCHANGED <<row, stored, active, check>> /\ api' \in {"created", "sent", "failed"}
      /\ faults' \in 0 .. MaxFaults
  BY TypeParts, RedirectAssumption DEF StoreInv, Create, Send, SendFails, Fault
<1>3. /\ exec' \in [Exec -> ExecRecord]
      /\ \A y \in Exec : \/ exec'[y] = exec[y]
                         \/ exec'[y].pc = "queued" /\ exec'[y].failed = exec[y].failed
  <2>1. CASE exec' = exec
    BY <1>1, <2>1
  <2>2. CASE Send
    <3> DEFINE e == [exec[1] EXCEPT !.pc = "queued"]
    <3>1. e \in ExecRecord /\ e.pc = "queued" /\ e.failed = exec[1].failed
      BY <1>1 DEF ExecRecord
    <3>2. exec' = [exec EXCEPT ![1] = e]
      BY <2>2 DEF Send
    <3> HIDE DEF e
    <3> QED
      BY <1>1, <3>1, <3>2
  <2> QED
    BY <2>1, <2>2 DEF Create, SendFails
<1>4. TypeOK'
  BY <1>2, <1>3, TypeParts DEF StoreInv, TypeOK, ExecRecord
<1>5. FailedIsCounted'
  BY <1>2, <1>3, CountedFrame DEF StoreInv
<1>6. \A y \in Exec : WorkOf(y)'
  BY <1>2, <1>3, WorkFrame DEF StoreInv
<1>7. CompletedMeansStored'
  BY <1>2, CompletedFrame DEF StoreInv
<1> QED
  BY <1>4, <1>5, <1>6, <1>7 DEF StoreInv

LEMMA InitStore == Init => StoreInv
<1> SUFFICES ASSUME Init PROVE StoreInv
  OBVIOUS
<1>1. NoRow \in Row /\ NoRow.status = "queued"
  BY DEF NoRow, Row
<1>2. NotStarted \in ExecRecord /\ NotStarted.pc = "none" /\ NotStarted.failed = 0
  BY <1>1 DEF NotStarted, ExecRecord
<1>3. Waiting \in CheckRecord /\ Waiting.pc = "wait"
  BY DEF Waiting, CheckRecord
<1>4. exec \in [Exec -> ExecRecord] /\ \A y \in Exec : exec[y] = NotStarted
  BY <1>2 DEF Init
<1>5. check \in [Exec -> [Url -> CheckRecord]] /\ \A y \in Exec, u \in Url : check[y][u] = Waiting
  BY <1>3 DEF Init
<1>6. 0 \in 0 .. Limit /\ 0 \in 0 .. MaxFaults
  BY RedirectAssumption
<1>7. TypeOK
  BY <1>1, <1>4, <1>5, <1>6 DEF Init, TypeOK, ExecRecord, CheckRecord
<1>8. FailedIsCounted
  <2>1. \A y \in Exec : FailedResults(y) = {}
    BY <1>3, <1>5 DEF FailedResults, Results
  <2> QED
    BY <1>2, <1>4, <2>1, FS_EmptySet DEF FailedIsCounted
<1>9. \A y \in Exec : WorkOf(y)
  BY <1>2, <1>4 DEF WorkOf
<1>10. CompletedMeansStored
  BY <1>1 DEF Init, CompletedMeansStored
<1> QED
  BY <1>7, <1>8, <1>9, <1>10 DEF StoreInv

LEMMA NextKeepsStore == StoreInv /\ [Next]_vars => StoreInv'
<1> SUFFICES ASSUME StoreInv, [Next]_vars PROVE StoreInv'
  OBVIOUS
<1>1. CASE Create \/ Send \/ SendFails
  BY <1>1, RequestKeepsStore
<1>2. ASSUME NEW x \in Exec, Step(x) \/ TaskFault(x) PROVE StoreInv'
  BY <1>2, StepKeepsStore, FaultKeepsStore
<1>3. CASE UNCHANGED vars
  <2>1. TypeOK'
    BY <1>3 DEF vars, StoreInv, TypeOK
  <2>2. FailedIsCounted'
    BY <1>3, CountedFrame DEF vars, StoreInv
  <2>3. \A y \in Exec : WorkOf(y)'
    BY <1>3, WorkFrame DEF vars, StoreInv
  <2>4. CompletedMeansStored'
    BY <1>3, CompletedFrame DEF vars, StoreInv
  <2> QED
    BY <2>1, <2>2, <2>3, <2>4 DEF StoreInv
<1> QED
  BY <1>1, <1>2, <1>3 DEF Next

LEMMA Stores == Spec => []StoreInv
  BY InitStore, NextKeepsStore, PTL DEF Spec

\* The records of executions and coroutines, the run's row and the slots keep their types.
THEOREM Types == Spec => []TypeOK
<1>1. StoreInv => TypeOK
  BY DEF StoreInv
<1> QED
  BY <1>1, Stores, PTL

\* A run is completed only with every result stored, except of URLs whose slot could not
\* be asked for, whatever executions overlapped or were cut short.
THEOREM CompletedIsStored == Spec => []CompletedMeansStored
<1>1. StoreInv => CompletedMeansStored
  BY DEF StoreInv
<1> QED
  BY <1>1, Stores, PTL

-----------------------------------------------------------------------------
(* The events of the check, and the client that follows them.  A client    *)
(* that closed as completed was told so by an execution; the invariant is  *)
(* that this execution has committed the end of the run, wherever the      *)
(* event is, and that whoever opened the run again since still has it      *)
(* open.                                                                   *)

CONSTANT MaxPollFailures
VARIABLES coroutine, events, channel, lost

Stream == INSTANCE RedirectStream WITH check <- coroutine, faults <- lost

Open == {"new", "subscribing", "get", "poll"}

\* Execution x keeps a run open that e has ended.
Reopens(x, e) == x > e \/ (x # e /\ ~task[x].watched)

\* Every "completed" event is of an execution that has ended the run.
Heard ==
  \A e \in Stream!CompletedIn(events) \cup Stream!CompletedIn(channel) \cup client.got :
    task[e].pc \in Told

\* A run some execution has ended is ended, or open again by one that may do so.
EndHolds ==
  \A e \in Stream!Exec : task[e].pc \in Told => ended \/ \E x \in Opened : Reopens(x, e)

\* Executions are queued one after the other: each because the one before was cut short, or
\* because its task no longer waits for it.
Turns ==
  \A x, y \in Stream!Exec : y < x /\ task[x].pc # "none" => task[y].cut \/ ~task[y].watched

StreamInv ==
  /\ Stream!TypeOK
  /\ Heard /\ EndHolds /\ Turns
  /\ client.pc = "completed" => client.got # {}
  /\ client.pc \in Open => client.failures < MaxPollFailures

Client == [pc : {"new", "subscribing", "get", "poll", "completed", "idle", "error"},
           subscribed : BOOLEAN, processed : Nat, failures : 0 .. MaxPollFailures,
           got : SUBSET Stream!Exec]

Coroutines == [Stream!Exec -> [Url -> {"busy", "published", "listed"}]]

\* What RedirectStream assumes of its constants, beyond RedirectAssumption.
StreamConstants == MaxPollFailures \in Nat \ {0}

LEMMA StreamBounds ==
  ASSUME StreamConstants
  PROVE  MaxExecutions \in Nat \ {0} /\ MaxPollFailures \in Nat \ {0} /\ MaxFaults \in Nat
BY RedirectAssumption DEF StreamConstants

LEMMA Typed ==
  Stream!TypeOK <=>
    /\ ended \in BOOLEAN /\ task \in [Stream!Exec -> Stream!Task]
    /\ coroutine \in Coroutines
    /\ events \in Seq(Stream!Event) /\ channel \in Seq(Stream!Event)
    /\ client \in Client /\ lost \in 0 .. MaxFaults
BY DEF Stream!TypeOK, Client, Coroutines

LEMMA EventFacts ==
  /\ Stream!Exec \subseteq Nat /\ Stream!Progress \notin Stream!Exec
  /\ Stream!Exec \subseteq Stream!Event /\ Stream!Progress \in Stream!Event
BY DEF Stream!Exec, Stream!Progress, Stream!Event

-----------------------------------------------------------------------------
(* Lists of events *)

LEMMA AppendedEvents ==
  ASSUME NEW s \in Seq(Stream!Event), NEW e \in Stream!Event
  PROVE  /\ Append(s, e) \in Seq(Stream!Event)
         /\ Stream!CompletedIn(Append(s, e)) \subseteq Stream!CompletedIn(s) \cup {e}
         /\ e = Stream!Progress => Stream!CompletedIn(Append(s, e)) \subseteq Stream!CompletedIn(s)
BY DEF Stream!CompletedIn

LEMMA EventsOfList ==
  ASSUME NEW s \in Seq(Stream!Event) PROVE Stream!CompletedIn(s) \subseteq Stream!Exec
BY DEF Stream!CompletedIn, Stream!Event

LEMMA ReceivedEvents ==
  ASSUME NEW s \in Seq(Stream!Event), s # <<>>
  PROVE  /\ Tail(s) \in Seq(Stream!Event)
         /\ Stream!CompletedIn(Tail(s)) \subseteq Stream!CompletedIn(s)
         /\ Stream!CompletedIn(<<Head(s)>>) \subseteq Stream!CompletedIn(s)
         /\ Head(s) # Stream!Progress => Stream!CompletedIn(<<Head(s)>>) # {}
BY DEF Stream!CompletedIn

LEMMA UnreadEvents ==
  ASSUME events \in Seq(Stream!Event), client.processed \in Nat
  PROVE  /\ Stream!Unread \in Seq(Stream!Event) /\ Len(Stream!Unread) \in Nat
         /\ Stream!FirstCompleted(Stream!Unread) \subseteq Stream!CompletedIn(events)
<1>1. Stream!Unread \in Seq(Stream!Event)
  BY DEF Stream!Unread
<1>2. Stream!CompletedIn(Stream!Unread) \subseteq Stream!CompletedIn(events)
  <2> DEFINE m == client.processed + 1
             n == Len(events)
  <2>1. m \in Int /\ n \in Int /\ m >= 1 /\ \A i \in m .. n : events[i] \in Stream!Event
    OBVIOUS
  <2>2. /\ Len(Stream!Unread) = IF m <= n THEN n - m + 1 ELSE 0
        /\ \A i \in 1 .. n - m + 1 : Stream!Unread[i] = events[m + i - 1]
    BY <2>1, SubSeqProperties DEF Stream!Unread
  <2> HIDE DEF m
  <2>3. ASSUME NEW i \in 1 .. Len(Stream!Unread)
        PROVE  m + i - 1 \in 1 .. n /\ Stream!Unread[i] = events[m + i - 1]
    BY <2>1, <2>2
  <2> QED
    BY <2>3 DEF Stream!CompletedIn
<1>3. Stream!FirstCompleted(Stream!Unread) \subseteq Stream!CompletedIn(Stream!Unread)
  BY <1>1 DEF Stream!FirstCompleted, Stream!CompletedIn
<1> QED
  BY <1>1, <1>2, <1>3

-----------------------------------------------------------------------------
(* Steps of an execution *)

\* A step that leaves the client alone and adds at most one event, one that may be heard.
LEMMA TaskMoves ==
  ASSUME StreamInv, task' \in [Stream!Exec -> Stream!Task], ended' \in BOOLEAN,
         coroutine' \in Coroutines, lost' \in 0 .. MaxFaults, client' = client,
         EndHolds', Turns',
         \A y \in Stream!Exec : task[y].pc \in Told => task'[y].pc \in Told,
         \E e \in Stream!Event :
           /\ e = Stream!Progress \/ task'[e].pc \in Told
           /\ events' = events \/ events' = <<>> \/ events' = Append(events, e)
           /\ channel' = channel \/ channel' = Append(channel, e)
  PROVE  StreamInv'
<1> PICK e \in Stream!Event :
           /\ e = Stream!Progress \/ task'[e].pc \in Told
           /\ events' = events \/ events' = <<>> \/ events' = Append(events, e)
           /\ channel' = channel \/ channel' = Append(channel, e)
  OBVIOUS
<1>1. /\ events \in Seq(Stream!Event) /\ channel \in Seq(Stream!Event) /\ client \in Client
  BY Typed DEF StreamInv
<1>2. events' \in Seq(Stream!Event) /\ channel' \in Seq(Stream!Event)
  <2>1. {<<>>, events, channel, Append(events, e), Append(channel, e)} \subseteq Seq(Stream!Event)
    BY <1>1, AppendedEvents
  <2> QED
    BY <2>1
<1>3. Stream!TypeOK'
  BY <1>1, <1>2 DEF Stream!TypeOK, Client, Coroutines
<1>4. ASSUME NEW f \in Stream!CompletedIn(events)' \cup Stream!CompletedIn(channel)' \cup client'.got
      PROVE  task'[f].pc \in Told
  <2>1. \/ f \in Stream!CompletedIn(events) \cup Stream!CompletedIn(channel) \cup client.got
        \/ f = e /\ e # Stream!Progress
    <3>1. Stream!CompletedIn(events)' \in
            {Stream!CompletedIn(events), {}, Stream!CompletedIn(Append(events, e))}
      <4>1. Stream!CompletedIn(<<>>) = {}
        BY DEF Stream!CompletedIn
      <4>2. CASE events' = <<>>
        <5>1. Stream!CompletedIn(events)' = Stream!CompletedIn(<<>>)
          BY ONLY <4>2 DEF Stream!CompletedIn
        <5> QED
          BY <4>1, <5>1
      <4>3. CASE events' = events
        BY <4>3 DEF Stream!CompletedIn
      <4>4. CASE events' = Append(events, e)
        BY <4>4 DEF Stream!CompletedIn
      <4> QED
        BY <4>2, <4>3, <4>4
    <3>2. Stream!CompletedIn(channel)' \in
            {Stream!CompletedIn(channel), Stream!CompletedIn(Append(channel, e))}
      BY DEF Stream!CompletedIn
    <3> QED
      BY <1>1, <1>4, <3>1, <3>2, AppendedEvents
  <2>2. Stream!CompletedIn(events) \cup Stream!CompletedIn(channel) \cup client.got \subseteq Stream!Exec
    BY <1>1, EventsOfList DEF Client
  <2> QED
    BY <2>1, <2>2 DEF StreamInv, Heard
<1>5. Heard'
  BY <1>4 DEF Heard
<1> QED
  BY <1>3, <1>5 DEF StreamInv

\* An execution goes from one place to the next.
Goes(x, from, to) ==
  /\ task[x].pc = from /\ ~task[x].cut
  /\ task' \in [Stream!Exec -> Stream!Task]
  /\ task'[x].pc = to /\ task'[x].cut = task[x].cut /\ task'[x].watched = task[x].watched
  /\ \A y \in Stream!Exec \ {x} : task'[y] = task[y]

LEMMA GoesFacts ==
  ASSUME task \in [Stream!Exec -> Stream!Task], NEW x \in Stream!Exec, NEW from,
         NEW to \in {"none", "begin"} \cup AtWork \cup Told, Stream!Goto(x, from, to)
  PROVE  Goes(x, from, to)
<1> DEFINE t == [task[x] EXCEPT !.pc = to]
<1>1. to \in {"none", "begin"} \cup Stream!AtWork \cup Stream!Told
  BY DEF AtWork, Told, Stream!AtWork, Stream!Told
<1>2. t \in Stream!Task /\ t.pc = to /\ t.cut = task[x].cut /\ t.watched = task[x].watched
  BY <1>1 DEF Stream!Task
<1>3. task' = [task EXCEPT ![x] = t] /\ task[x].pc = from /\ ~task[x].cut
  BY DEF Stream!Goto, Stream!At
<1> HIDE DEF t
<1> QED
  BY <1>2, <1>3 DEF Goes

LEMMA GoesKeepsTurns ==
  ASSUME StreamInv, NEW x \in Stream!Exec, NEW from, NEW to, Goes(x, from, to), from # "none"
  PROVE  Turns'
<1>1. \A y \in Stream!Exec :
        /\ task'[y].pc # "none" => task[y].pc # "none"
        /\ task'[y].cut = task[y].cut /\ task'[y].watched = task[y].watched
  BY DEF Goes
<1> QED
  BY <1>1 DEF StreamInv, Turns

\* Inside the work, or inside what follows the end, the run stays as it was.
LEMMA GoesInside ==
  ASSUME StreamInv, NEW x \in Stream!Exec, NEW from, NEW to, Goes(x, from, to),
         ended' = ended, from \in AtWork <=> to \in AtWork, from \in Told <=> to \in Told
  PROVE  EndHolds'
<1>1. \A y \in Stream!Exec :
        /\ task'[y].pc \in Told <=> task[y].pc \in Told
        /\ task'[y].pc \in AtWork <=> task[y].pc \in AtWork
        /\ task'[y].watched = task[y].watched
  BY DEF Goes
<1>2. DOMAIN task = Stream!Exec /\ DOMAIN task' = Stream!Exec
  BY Typed DEF StreamInv, Goes
<1>3. Opened' = Opened /\ \A y \in Opened, e \in Stream!Exec : Reopens(y, e)' <=> Reopens(y, e)
  BY <1>1, <1>2 DEF Opened, Reopens
<1> QED
  BY <1>1, <1>3 DEF StreamInv, EndHolds

\* An execution that opens the run is later than each that has ended it, or its task has
\* given it up.
LEMMA GoesOpening ==
  ASSUME StreamInv, NEW x \in Stream!Exec, Goes(x, "begin", "clear")
  PROVE  EndHolds'
<1>1. ASSUME NEW e \in Stream!Exec, task'[e].pc \in Told
      PROVE  x \in Opened' /\ Reopens(x, e)'
  <2>1. x # e /\ task[e].pc \in Told
    BY <1>1 DEF Goes, Told
  <2>2. x \in Opened'
    BY DEF Opened, Goes, AtWork
  <2>3. x \in Nat /\ e \in Nat
    BY EventFacts
  <2>4. CASE x < e
    <3>1. task[e].pc # "none" /\ ~task[x].cut
      BY <2>1 DEF Told, Goes
    <3>2. ~task[x].watched
      BY <2>4, <3>1 DEF StreamInv, Turns
    <3> QED
      BY <2>1, <2>2, <3>2 DEF Goes, Reopens
  <2>5. CASE x > e
    BY <2>2, <2>5 DEF Reopens
  <2> QED
    BY <2>1, <2>3, <2>4, <2>5
<1> QED
  BY <1>1 DEF EndHolds

LEMMA TaskStepKeeps ==
  ASSUME StreamConstants, StreamInv, NEW x \in Stream!Exec, Stream!TaskStep(x)
  PROVE  StreamInv'
<1>1. /\ task \in [Stream!Exec -> Stream!Task] /\ ended \in BOOLEAN /\ coroutine \in Coroutines
      /\ lost \in 0 .. MaxFaults
  BY Typed DEF StreamInv
<1>2. ASSUME NEW from, NEW to, Stream!Goto(x, from, to), to \in AtWork \cup Told
      PROVE  Goes(x, from, to)
  BY <1>1, <1>2, GoesFacts
<1>3. ASSUME NEW from \in AtWork \cup Told, NEW to \in AtWork \cup Told,
             Stream!Goto(x, from, to), ended' = ended,
             from \in AtWork <=> to \in AtWork, from \in Told <=> to \in Told
      PROVE  /\ Goes(x, from, to) /\ EndHolds' /\ Turns'
             /\ \A y \in Stream!Exec : task[y].pc \in Told => task'[y].pc \in Told
  <2>1. Goes(x, from, to)
    BY <1>2, <1>3
  <2>2. from # "none"
    BY <1>3 DEF AtWork, Told
  <2> QED
    BY <1>3, <2>1, <2>2, GoesInside, GoesKeepsTurns DEF Goes
<1>4. x \in Stream!Event /\ Stream!Progress \in Stream!Event
  BY EventFacts
<1>5. CASE Stream!Begin(x)
  <2>1. Goes(x, "begin", "clear") /\ ended' = FALSE
        /\ UNCHANGED <<coroutine, events, channel, client, lost>>
    BY <1>2, <1>5 DEF Stream!Begin, AtWork
  <2>2. EndHolds' /\ Turns'
    BY <2>1, GoesOpening, GoesKeepsTurns
  <2>3. \A y \in Stream!Exec : task[y].pc \in Told => task'[y].pc \in Told
    BY <2>1 DEF Goes, Told
  <2>4. task' \in [Stream!Exec -> Stream!Task]
    BY <2>1 DEF Goes
  <2> QED
    BY <1>1, <1>4, <2>1, <2>2, <2>3, <2>4, TaskMoves
<1>6. CASE Stream!ClearEventStore(x)
  <2>1. Goes(x, "clear", "announce") /\ EndHolds' /\ Turns'
        /\ \A y \in Stream!Exec : task[y].pc \in Told => task'[y].pc \in Told
    BY <1>3, <1>6 DEF Stream!ClearEventStore, AtWork, Told
  <2>2. events' = <<>> /\ UNCHANGED <<ended, coroutine, channel, client, lost>>
    BY <1>6 DEF Stream!ClearEventStore
  <2>3. task' \in [Stream!Exec -> Stream!Task]
    BY <2>1 DEF Goes
  <2> QED
    BY <1>1, <1>4, <2>1, <2>2, <2>3, TaskMoves
<1>7. CASE Stream!Announce(x)
  <2>1. /\ EndHolds' /\ Turns' /\ task' \in [Stream!Exec -> Stream!Task]
        /\ \A y \in Stream!Exec : task[y].pc \in Told => task'[y].pc \in Told
    BY <1>3, <1>7 DEF Stream!Announce, AtWork, Told, Goes
  <2> QED
    BY <1>1, <1>4, <1>7, <2>1, TaskMoves DEF Stream!Announce, Stream!Published, Stream!Listed
<1>8. ASSUME NEW u \in Url, Stream!PublishUrl(x, u) \/ Stream!ListUrl(x, u) PROVE StreamInv'
  <2>1. coroutine' \in Coroutines /\ UNCHANGED <<ended, task, client, lost>>
    BY <1>1, <1>8 DEF Stream!PublishUrl, Stream!ListUrl, Coroutines
  <2>2. EndHolds' /\ Turns'
    BY <2>1 DEF StreamInv, EndHolds, Turns, Opened, Reopens
  <2> QED
    BY <1>1, <1>4, <1>8, <2>1, <2>2, TaskMoves
    DEF Stream!PublishUrl, Stream!ListUrl, Stream!Published, Stream!Listed
<1>9. CASE Stream!Gather(x)
  <2>1. Goes(x, "checking", "ending") /\ EndHolds' /\ Turns'
        /\ \A y \in Stream!Exec : task[y].pc \in Told => task'[y].pc \in Told
    BY <1>3, <1>9 DEF Stream!Gather, AtWork, Told
  <2>2. UNCHANGED <<ended, coroutine, events, channel, client, lost>>
    BY <1>9 DEF Stream!Gather
  <2>3. task' \in [Stream!Exec -> Stream!Task]
    BY <2>1 DEF Goes
  <2> QED
    BY <1>1, <1>4, <2>1, <2>2, <2>3, TaskMoves
<1>10. CASE Stream!End(x)
  <2>1. Goes(x, "ending", "complete") /\ ended' = TRUE
        /\ UNCHANGED <<coroutine, events, channel, client, lost>>
    BY <1>2, <1>10 DEF Stream!End, Told
  <2>2. EndHolds' /\ Turns'
    BY <2>1, GoesKeepsTurns DEF EndHolds
  <2>3. \A y \in Stream!Exec : task[y].pc \in Told => task'[y].pc \in Told
    BY <2>1 DEF Goes, Told
  <2>4. task' \in [Stream!Exec -> Stream!Task]
    BY <2>1 DEF Goes
  <2> QED
    BY <1>1, <1>4, <2>1, <2>2, <2>3, <2>4, TaskMoves
<1>11. CASE Stream!Complete(x)
  <2>1. /\ EndHolds' /\ Turns' /\ task' \in [Stream!Exec -> Stream!Task] /\ task'[x].pc \in Told
        /\ \A y \in Stream!Exec : task[y].pc \in Told => task'[y].pc \in Told
    BY <1>3, <1>11 DEF Stream!Complete, AtWork, Told, Goes
  <2> QED
    BY <1>1, <1>4, <1>11, <2>1, TaskMoves DEF Stream!Complete, Stream!Published, Stream!Listed
<1> QED
  BY <1>5, <1>6, <1>7, <1>8, <1>9, <1>10, <1>11 DEF Stream!TaskStep

\* An execution is cut short or given up, and the next one may be queued.
Leaves(x) ==
  /\ task[x].pc # "none" /\ task' \in [Stream!Exec -> Stream!Task]
  /\ task'[x].pc = task[x].pc
  /\ task'[x].cut \/ ~task'[x].watched
  /\ task[x].cut => task'[x].cut
  /\ ~task[x].watched => ~task'[x].watched
  /\ \A y \in Stream!Exec \ {x} :
       \/ task'[y] = task[y]
       \/ /\ y = x + 1 /\ task[y].pc = "none" /\ task'[y].pc = "begin"
          /\ task'[y].cut = task[y].cut /\ task'[y].watched = task[y].watched

LEMMA NextFacts ==
  ASSUME NEW f \in [Stream!Exec -> Stream!Task], NEW x \in Stream!Exec
  PROVE  /\ Stream!WithNext(f, x) \in [Stream!Exec -> Stream!Task]
         /\ Stream!WithNext(f, x)[x] = f[x]
         /\ \A y \in Stream!Exec :
              \/ Stream!WithNext(f, x)[y] = f[y]
              \/ /\ y = x + 1 /\ f[y].pc = "none" /\ Stream!WithNext(f, x)[y].pc = "begin"
                 /\ Stream!WithNext(f, x)[y].cut = f[y].cut
                 /\ Stream!WithNext(f, x)[y].watched = f[y].watched
<1>1. \A y \in Stream!Exec : LET t == [f[y] EXCEPT !.pc = "begin"]
                             IN  t \in Stream!Task /\ t.pc = "begin" /\ t.cut = f[y].cut
                                 /\ t.watched = f[y].watched
  BY DEF Stream!Task
<1>2. x # x + 1
  BY EventFacts
<1> QED
  BY <1>1, <1>2 DEF Stream!WithNext

LEMMA LeavesFacts ==
  ASSUME task \in [Stream!Exec -> Stream!Task], NEW x \in Stream!Exec,
         Stream!CutShort(x) \/ Stream!SoftTimeLimit(x)
  PROVE  Leaves(x)
<1> DEFINE c == [task[x] EXCEPT !.cut = TRUE]
           w == [task[x] EXCEPT !.watched = FALSE]
           fc == [task EXCEPT ![x] = c]
           fw == [task EXCEPT ![x] = w]
<1>1. /\ c \in Stream!Task /\ c.pc = task[x].pc /\ c.cut /\ c.watched = task[x].watched
      /\ w \in Stream!Task /\ w.pc = task[x].pc /\ ~w.watched /\ w.cut = task[x].cut
  BY DEF Stream!Task
<1>2. /\ fc \in [Stream!Exec -> Stream!Task] /\ fc[x] = c /\ \A y \in Stream!Exec \ {x} : fc[y] = task[y]
      /\ fw \in [Stream!Exec -> Stream!Task] /\ fw[x] = w /\ \A y \in Stream!Exec \ {x} : fw[y] = task[y]
  BY <1>1
<1>3. task' \in {fc, Stream!WithNext(fc, x), Stream!WithNext(fw, x)} /\ task[x].pc # "none"
  BY DEF Stream!CutShort, Stream!SoftTimeLimit, Stream!Runs
<1> HIDE DEF c, w, fc, fw
<1>4. CASE task' = fc
  BY <1>1, <1>2, <1>3, <1>4 DEF Leaves
<1>5. CASE task' = Stream!WithNext(fc, x)
  <2>1. /\ task' \in [Stream!Exec -> Stream!Task] /\ task'[x] = c
        /\ \A y \in Stream!Exec \ {x} :
             \/ task'[y] = task[y]
             \/ /\ y = x + 1 /\ task[y].pc = "none" /\ task'[y].pc = "begin"
                /\ task'[y].cut = task[y].cut /\ task'[y].watched = task[y].watched
    BY <1>2, <1>5, NextFacts
  <2> QED
    BY <1>1, <1>3, <2>1 DEF Leaves
<1>6. CASE task' = Stream!WithNext(fw, x)
  <2>1. /\ task' \in [Stream!Exec -> Stream!Task] /\ task'[x] = w
        /\ \A y \in Stream!Exec \ {x} :
             \/ task'[y] = task[y]
             \/ /\ y = x + 1 /\ task[y].pc = "none" /\ task'[y].pc = "begin"
                /\ task'[y].cut = task[y].cut /\ task'[y].watched = task[y].watched
    BY <1>2, <1>6, NextFacts
  <2> QED
    BY <1>1, <1>3, <2>1 DEF Leaves
<1> QED
  BY <1>3, <1>4, <1>5, <1>6

LEMMA LeavesKeeps ==
  ASSUME StreamInv, NEW x \in Stream!Exec, Leaves(x), lost' \in 0 .. MaxFaults,
         UNCHANGED <<ended, coroutine, events, channel, client>>
  PROVE  StreamInv'
<1>1. /\ task \in [Stream!Exec -> Stream!Task] /\ ended \in BOOLEAN /\ coroutine \in Coroutines
  BY Typed DEF StreamInv
<1>2. \A y \in Stream!Exec :
        /\ task'[y].pc \in Told <=> task[y].pc \in Told
        /\ task'[y].pc \in AtWork <=> task[y].pc \in AtWork
        /\ ~task[y].watched => ~task'[y].watched
  BY DEF Leaves, Told, AtWork
<1>3. EndHolds'
  <2>1. Opened' = Opened /\ Opened \subseteq Stream!Exec
    BY <1>1, <1>2 DEF Opened, Leaves
  <2>2. \A y \in Opened, e \in Stream!Exec : Reopens(y, e) => Reopens(y, e)'
    BY <1>2, <2>1 DEF Reopens
  <2> QED
    BY <1>2, <2>1, <2>2 DEF StreamInv, EndHolds
<1>4. Turns'
  <2> SUFFICES ASSUME NEW z \in Stream!Exec, NEW y \in Stream!Exec, y < z, task'[z].pc # "none"
               PROVE  task'[y].cut \/ ~task'[y].watched
    BY DEF Turns
  <2>1. CASE y = x
    BY <2>1 DEF Leaves
  <2>2. CASE y # x
    <3>1. (task'[y].cut <=> task[y].cut) /\ (task'[y].watched <=> task[y].watched)
      BY <2>2 DEF Leaves
    <3>2. CASE task[z].pc # "none"
      BY <3>1, <3>2 DEF StreamInv, Turns
    <3>3. CASE task[z].pc = "none"
      <4>1. z = x + 1
        BY <3>3 DEF Leaves
      <4>2. y < x /\ task[x].pc # "none"
        BY <2>2, <4>1, EventFacts DEF Leaves
      <4> QED
        BY <3>1, <4>2 DEF StreamInv, Turns
    <3> QED
      BY <3>2, <3>3
  <2> QED
    BY <2>1, <2>2
<1>5. task' \in [Stream!Exec -> Stream!Task]
  BY DEF Leaves
<1> QED
  BY <1>1, <1>2, <1>3, <1>4, <1>5, EventFacts, TaskMoves

LEMMA FaultsKeep ==
  ASSUME StreamConstants, StreamInv, NEW x \in Stream!Exec, Stream!TaskFault(x)
  PROVE  StreamInv'
<1>1. /\ task \in [Stream!Exec -> Stream!Task] /\ ended \in BOOLEAN /\ coroutine \in Coroutines
      /\ lost \in 0 .. MaxFaults
  BY Typed DEF StreamInv
<1>2. Stream!Fault => lost' \in 0 .. MaxFaults
  BY <1>1, StreamBounds DEF Stream!Fault
<1>3. CASE Stream!CutShort(x) \/ Stream!SoftTimeLimit(x)
  BY <1>1, <1>2, <1>3, LeavesFacts, LeavesKeeps DEF Stream!CutShort, Stream!SoftTimeLimit
<1>4. CASE Stream!PublicationLost(x)
  <2>1. Stream!Fault /\ UNCHANGED <<ended, events, channel, client>>
    BY <1>4 DEF Stream!PublicationLost
  <2>2. CASE task' = task
    <3>1. coroutine' \in Coroutines
      BY <1>1, <1>4, <2>2 DEF Stream!PublicationLost, Coroutines
    <3>2. EndHolds' /\ Turns'
      BY <2>1, <2>2 DEF StreamInv, EndHolds, Turns, Opened, Reopens
    <3> QED
      BY <1>1, <1>2, <2>1, <2>2, <3>1, <3>2, EventFacts, TaskMoves
  <2>3. CASE /\ coroutine' = coroutine
             /\ \/ Stream!Goto(x, "announce", "checking")
                \/ Stream!Goto(x, "announced", "checking")
                \/ Stream!Goto(x, "complete", "returning")
                \/ Stream!Goto(x, "completed", "returning")
    <3>1. \/ \E from \in AtWork, to \in AtWork : Goes(x, from, to)
          \/ \E from \in Told, to \in Told : Goes(x, from, to)
      BY <1>1, <2>3, GoesFacts DEF AtWork, Told
    <3>2. /\ EndHolds' /\ Turns' /\ task' \in [Stream!Exec -> Stream!Task]
          /\ \A y \in Stream!Exec : task[y].pc \in Told => task'[y].pc \in Told
      <4>1. AtWork \cap Told = {} /\ "none" \notin AtWork \cup Told
        BY DEF AtWork, Told
      <4> QED
        BY <2>1, <3>1, <4>1, GoesInside, GoesKeepsTurns DEF Goes
    <3> QED
      BY <1>1, <1>2, <2>1, <2>3, <3>2, EventFacts, TaskMoves
  <2> QED
    BY <1>4, <2>2, <2>3 DEF Stream!PublicationLost
<1> QED
  BY <1>3, <1>4 DEF Stream!TaskFault

-----------------------------------------------------------------------------
(* Steps of the client *)

\* A step of the client alone, which may take a message.
LEMMA ClientMoves ==
  ASSUME StreamInv, UNCHANGED <<ended, task, coroutine, events>>, lost' \in 0 .. MaxFaults,
         client' \in Client,
         channel' = channel \/ (channel # <<>> /\ channel' = Tail(channel)),
         client'.got \subseteq
           client.got \cup Stream!CompletedIn(events) \cup Stream!CompletedIn(channel),
         client'.pc = "completed" => client'.got # {},
         client'.pc \in Open => client'.failures < MaxPollFailures
  PROVE  StreamInv'
<1>1. channel \in Seq(Stream!Event)
  BY Typed DEF StreamInv
<1>2. /\ channel' \in Seq(Stream!Event)
      /\ Stream!CompletedIn(channel)' \subseteq Stream!CompletedIn(channel)
  <2>1. Stream!CompletedIn(channel)' \in {Stream!CompletedIn(channel), Stream!CompletedIn(Tail(channel))}
    BY DEF Stream!CompletedIn
  <2> QED
    BY <1>1, <2>1, ReceivedEvents
<1>3. Stream!TypeOK'
  BY <1>2 DEF StreamInv, Stream!TypeOK, Client
<1>4. Stream!CompletedIn(events)' = Stream!CompletedIn(events)
  BY DEF Stream!CompletedIn
<1>5. Heard'
  BY <1>2, <1>4 DEF StreamInv, Heard
<1>6. EndHolds' /\ Turns'
  BY DEF StreamInv, EndHolds, Turns, Opened, Reopens
<1> QED
  BY <1>3, <1>5, <1>6 DEF StreamInv

\* The client takes n events, new among them, and goes on to pc.
Takes(pc, n, new) ==
  client' = [client EXCEPT !.pc = pc, !.processed = @ + n, !.got = @ \cup new]

LEMMA ClientTakes ==
  ASSUME client \in Client, NEW pc \in {"get", "poll", "completed"}, NEW n \in Nat,
         NEW new \in SUBSET Stream!Exec, Takes(pc, n, new)
  PROVE  /\ client' \in Client /\ client'.got = client.got \cup new /\ client'.pc = pc
         /\ client'.failures = client.failures
<1>1. client.processed + n \in Nat /\ client.got \cup new \in SUBSET Stream!Exec
  BY DEF Client
<1> DEFINE m == client.processed + n
           g == client.got \cup new
<1>2. client' = [client EXCEPT !.pc = pc, !.processed = m, !.got = g]
  BY DEF Takes
<1>3. m \in Nat /\ g \in SUBSET Stream!Exec
  BY <1>1
<1> HIDE DEF m, g
<1>4. client' \in Client /\ client'.got = g /\ client'.pc = pc /\ client'.failures = client.failures
  BY <1>2, <1>3 DEF Client
<1> QED
  BY <1>4 DEF g

\* One failed poll more: the stream stays open only below the limit.
LEMMA PollFailedFacts ==
  ASSUME StreamConstants, client \in Client, client.failures < MaxPollFailures
  PROVE  /\ Stream!PollFailed(client) \in Client /\ Stream!PollFailed(client).got = client.got
         /\ Stream!PollFailed(client).pc \in {"get", "idle"}
         /\ Stream!PollFailed(client).pc = "get" => Stream!PollFailed(client).failures < MaxPollFailures
<1> DEFINE pc == IF client.failures + 1 >= MaxPollFailures THEN "idle" ELSE "get"
<1>1. Stream!PollFailed(client) = [client EXCEPT !.failures = @ + 1, !.pc = pc]
  BY DEF Stream!PollFailed
<1>2. pc \in {"get", "idle"} /\ (pc = "get" => client.failures + 1 < MaxPollFailures)
  BY StreamBounds DEF Client
<1>3. client.failures + 1 \in 0 .. MaxPollFailures
  BY StreamBounds DEF Client
<1> HIDE DEF pc
<1> QED
  BY <1>1, <1>2, <1>3 DEF Client

LEMMA ClientStepKeeps ==
  ASSUME StreamConstants, StreamInv,
         Stream!ClientStep \/ Stream!CatchUpTimesOut \/ Stream!SubscribeTimesOut \/ Stream!PollTimesOut \/ Stream!ClientRaises
  PROVE  StreamInv'
<1>1. /\ events \in Seq(Stream!Event) /\ channel \in Seq(Stream!Event) /\ client \in Client
      /\ lost \in 0 .. MaxFaults
  BY Typed DEF StreamInv
<1>2. client.pc \in Open => client.failures < MaxPollFailures
  BY DEF StreamInv
<1>3. Stream!CompletedIn(events) \subseteq Stream!Exec /\ Stream!CompletedIn(channel) \subseteq Stream!Exec
  BY <1>1, EventsOfList
<1>4. Stream!Fault => lost' \in 0 .. MaxFaults
  BY <1>1, StreamBounds DEF Stream!Fault
<1>5. CASE Stream!CatchUp
  <2>1. client' = [client EXCEPT !.pc = "subscribing", !.processed = Len(events), !.got = Stream!CompletedIn(events)]
    BY <1>5 DEF Stream!CatchUp
  <2>2. Len(events) \in Nat /\ Stream!CompletedIn(events) \in SUBSET Stream!Exec
    BY <1>1, <1>3
  <2>3. /\ client' \in Client /\ client'.pc = "subscribing" /\ client'.got = Stream!CompletedIn(events)
        /\ client'.failures = client.failures
    BY <1>1, <2>1, <2>2 DEF Client
  <2>4. client.pc = "new"
    BY <1>5 DEF Stream!CatchUp
  <2> QED
    BY <1>1, <1>2, <1>5, <2>3, <2>4, ClientMoves DEF Stream!CatchUp, Open
<1>6. CASE Stream!Subscribe
  <2>1. /\ client' \in Client /\ client'.pc = "get" /\ client'.got = client.got
        /\ client'.failures = client.failures /\ client.pc = "subscribing"
    BY <1>1, <1>6 DEF Stream!Subscribe, Client
  <2> QED
    BY <1>1, <1>2, <1>6, <2>1, ClientMoves DEF Stream!Subscribe, Open
<1>7. CASE Stream!GetMessage
  <2>1. UNCHANGED <<ended, task, coroutine, events, lost>> /\ client.pc = "get"
    BY <1>7 DEF Stream!GetMessage
  <2>2. CASE client' = [client EXCEPT !.pc = "poll"] /\ UNCHANGED channel
    <3>1. /\ client' \in Client /\ client'.pc = "poll" /\ client'.got = client.got
          /\ client'.failures = client.failures
      BY <1>1, <2>2 DEF Client
    <3> QED
      BY <1>1, <1>2, <2>1, <2>2, <3>1, ClientMoves DEF Open
  <2>3. CASE /\ channel # <<>> /\ channel' = Tail(channel)
             /\ client' = [client EXCEPT
                  !.pc = IF Head(channel) # Stream!Progress THEN "completed" ELSE "poll",
                  !.processed = @ + 1, !.got = @ \cup Stream!CompletedIn(<<Head(channel)>>)]
    <3> DEFINE new == Stream!CompletedIn(<<Head(channel)>>)
               pc  == IF Head(channel) # Stream!Progress THEN "completed" ELSE "poll"
    <3>1. Takes(pc, 1, new)
      BY <2>3 DEF Takes
    <3>2. /\ pc \in {"completed", "poll"} /\ (pc = "completed" => new # {})
          /\ new \subseteq Stream!CompletedIn(channel) /\ new \in SUBSET Stream!Exec /\ 1 \in Nat
      BY <1>1, <1>3, <2>3, ReceivedEvents
    <3> HIDE DEF new, pc
    <3>3. /\ client' \in Client /\ client'.got = client.got \cup new /\ client'.pc = pc
          /\ client'.failures = client.failures
      BY <1>1, <3>1, <3>2, ClientTakes
    <3> QED
      BY <1>1, <1>2, <2>1, <2>3, <3>2, <3>3, ClientMoves DEF Open
  <2> QED
    BY <1>7, <2>2, <2>3 DEF Stream!GetMessage
<1>8. CASE Stream!Poll
  <2>1. client.pc = "poll" /\ UNCHANGED <<ended, task, coroutine, events, channel, lost>>
    BY <1>8 DEF Stream!Poll
  <2>2. CASE Stream!Unread = <<>>
    <3>1. client' = Stream!PollFailed(client)
      BY <1>8, <2>2 DEF Stream!Poll
    <3> QED
      BY <1>1, <1>2, <2>1, <3>1, PollFailedFacts, ClientMoves DEF Open
  <2>3. CASE Stream!Unread # <<>>
    <3>1. client' = [client EXCEPT
             !.pc = IF Stream!FirstCompleted(Stream!Unread) # {} THEN "completed" ELSE "get",
             !.processed = @ + Len(Stream!Unread), !.got = @ \cup Stream!FirstCompleted(Stream!Unread)]
      BY <1>8, <2>3 DEF Stream!Poll
    <3>2. Len(Stream!Unread) \in Nat /\ Stream!FirstCompleted(Stream!Unread) \subseteq Stream!CompletedIn(events)
      BY <1>1, UnreadEvents DEF Client
    <3> DEFINE new == Stream!FirstCompleted(Stream!Unread)
               n   == Len(Stream!Unread)
               pc  == IF new # {} THEN "completed" ELSE "get"
    <3>3. /\ pc \in {"completed", "get"} /\ (pc = "completed" => new # {})
          /\ new \in SUBSET Stream!Exec /\ n \in Nat /\ new \subseteq Stream!CompletedIn(events)
      BY <1>3, <3>2
    <3>4. Takes(pc, n, new)
      BY <3>1 DEF Takes
    <3> HIDE DEF new, n, pc
    <3>5. /\ client' \in Client /\ client'.got = client.got \cup new /\ client'.pc = pc
          /\ client'.failures = client.failures
      BY <1>1, <3>3, <3>4, ClientTakes
    <3> QED
      BY <1>1, <1>2, <2>1, <3>3, <3>5, ClientMoves DEF Open
  <2> QED
    BY <2>2, <2>3
<1>9. CASE Stream!CatchUpTimesOut \/ Stream!SubscribeTimesOut \/ Stream!ClientRaises
  <2>1. /\ client' \in Client /\ client'.got = client.got /\ client'.failures = client.failures
        /\ client.pc \in Open /\ client'.pc # "completed" /\ Stream!Fault
        /\ UNCHANGED <<ended, task, coroutine, events, channel>>
    BY <1>1, <1>9 DEF Stream!CatchUpTimesOut, Stream!SubscribeTimesOut, Stream!ClientRaises, Client, Open
  <2> QED
    BY <1>1, <1>2, <1>4, <2>1, ClientMoves
<1>10. CASE Stream!PollTimesOut
  <2>1. client.pc = "poll" /\ client' = Stream!PollFailed(client) /\ Stream!Fault /\ UNCHANGED <<ended, task, coroutine, events, channel>>
    BY <1>10 DEF Stream!PollTimesOut
  <2> QED
    BY <1>1, <1>2, <1>4, <2>1, PollFailedFacts, ClientMoves DEF Open
<1> QED
  BY <1>5, <1>6, <1>7, <1>8, <1>9, <1>10 DEF Stream!ClientStep

-----------------------------------------------------------------------------

LEMMA StreamStarts == ASSUME StreamConstants, Stream!Init PROVE StreamInv
<1>1. 1 \in Stream!Exec /\ 0 \in 0 .. MaxPollFailures /\ 0 \in 0 .. MaxFaults
  BY StreamBounds DEF Stream!Exec
<1>2. /\ Stream!NotStarted \in Stream!Task /\ Stream!NotStarted.pc = "none"
      /\ [Stream!NotStarted EXCEPT !.pc = "begin"] \in Stream!Task
      /\ [Stream!NotStarted EXCEPT !.pc = "begin"].pc = "begin"
  BY DEF Stream!NotStarted, Stream!Task
<1>3. /\ task \in [Stream!Exec -> Stream!Task]
      /\ \A x \in Stream!Exec : task[x].pc = IF x = 1 THEN "begin" ELSE "none"
  BY <1>2 DEF Stream!Init
<1>4. Stream!TypeOK
  <2>1. ended \in BOOLEAN
    BY DEF Stream!Init
  <2>3. events \in Seq(Stream!Event) /\ channel \in Seq(Stream!Event)
    BY DEF Stream!Init
  <2>2. client \in Client /\ coroutine \in Coroutines /\ lost \in 0 .. MaxFaults
    BY <1>1 DEF Stream!Init, Client, Coroutines
  <2> QED
    BY <1>3, <2>1, <2>2, <2>3, Typed
<1>5. Stream!CompletedIn(events) = {} /\ Stream!CompletedIn(channel) = {} /\ client.got = {}
  BY DEF Stream!Init, Stream!CompletedIn
<1>6. client.pc = "new" /\ client.failures < MaxPollFailures
  BY StreamBounds DEF Stream!Init
<1>7. EndHolds
  BY <1>3 DEF EndHolds, Told
<1>8. Turns
  BY <1>3 DEF Turns, Stream!Exec
<1> QED
  BY <1>4, <1>5, <1>6, <1>7, <1>8 DEF StreamInv, Heard

\* Whoever is said to have ended the run did commit it before, and the run is ended since,
\* unless an execution that is later, or that outlived its time limit, holds it open
\* (publish_event and update_run of _execute, whatever overlaps, is lost or repeated).
THEOREM StreamInvariant == ASSUME StreamConstants PROVE Stream!Spec => []StreamInv
<1>1. StreamInv /\ [Stream!Next]_Stream!vars => StreamInv'
  <2> SUFFICES ASSUME StreamInv, [Stream!Next]_Stream!vars PROVE StreamInv'
    OBVIOUS
  <2>1. CASE UNCHANGED Stream!vars
    <3>1. /\ Stream!TypeOK' /\ Heard' /\ client' = client
      BY <2>1 DEF Stream!vars, StreamInv, Stream!TypeOK, Heard, Stream!CompletedIn
    <3>2. EndHolds' /\ Turns'
      BY <2>1 DEF Stream!vars, StreamInv, EndHolds, Turns, Opened, Reopens
    <3> QED
      BY <3>1, <3>2 DEF StreamInv
  <2>2. ASSUME NEW x \in Stream!Exec, Stream!TaskStep(x) \/ Stream!TaskFault(x) PROVE StreamInv'
    BY <2>2, TaskStepKeeps, FaultsKeep
  <2> QED
    BY <2>1, <2>2, ClientStepKeeps DEF Stream!Next
<1>2. Stream!Init => StreamInv
  BY StreamStarts
<1> QED
  BY <1>1, <1>2, PTL DEF Stream!Spec

\* A client whose stream closed as completed finds the run ended, or held open by another
\* execution than the one it heard: a later one, or one that outlived its time limit
\* (sse_event_stream, update_run).
THEOREM ClosedStreams == ASSUME StreamConstants PROVE Stream!Spec => []ClosedStreamHasResult
<1>1. StreamInv => ClosedStreamHasResult
  <2> SUFFICES ASSUME StreamInv, client.pc = "completed", ~ended
               PROVE  \E e \in client.got, x \in Opened : Reopens(x, e)
    BY DEF ClosedStreamHasResult, Reopens
  <2>1. PICK e \in client.got : task[e].pc \in Told
    BY DEF StreamInv, Heard
  <2>2. e \in Stream!Exec
    BY Typed DEF StreamInv, Client
  <2> QED
    BY <2>1, <2>2 DEF StreamInv, EndHolds
<1> QED
  BY <1>1, StreamInvariant, PTL
=============================================================================
