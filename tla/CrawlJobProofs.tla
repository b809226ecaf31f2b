--------------------------- MODULE CrawlJobProofs ---------------------------
(***************************************************************************)
(* What holds of CrawlJob for any number of pages, deliveries, retries and *)
(* failures: the type invariant, that an accepted configuration is kept,   *)
(* that the progress never runs ahead, that a completed job is reopened    *)
(* only by a concurrent delivery, and that only a failure loses the        *)
(* analysis.                                                               *)
(***************************************************************************)
EXTENDS CrawlJob, FiniteSetTheorems, TLAPS

-----------------------------------------------------------------------------
(* Writes of the ORM *)

\* A flush writes the columns the session changed and keeps the others.
LEMMA MergedFacts ==
  ASSUME NEW m \in RowType, NEW new \in RowType, NEW current \in RowType
  PROVE  /\ Merged(m, new, current) \in RowType
         /\ Merged(m, new, current).status
              = IF new.status # m.status THEN new.status ELSE current.status
         /\ Merged(m, new, current).crawled
              = IF new.crawled # m.crawled THEN new.crawled ELSE current.crawled
         /\ Merged(m, new, current).recovered
              = IF new.recovered # m.recovered THEN new.recovered
                                               ELSE current.recovered
<1>1. DOMAIN current = {"status", "total", "crawled", "recovered"}
  BY DEF RowType
<1>2. Merged(m, new, current) =
        [status    |-> IF new.status # m.status THEN new.status ELSE current.status,
         total     |-> IF new.total # m.total THEN new.total ELSE current.total,
         crawled   |-> IF new.crawled # m.crawled THEN new.crawled
                                                  ELSE current.crawled,
         recovered |-> IF new.recovered # m.recovered THEN new.recovered
                                                      ELSE current.recovered]
  BY <1>1 DEF Merged
<1> QED
  BY <1>2 DEF RowType

\* Changing columns of a row.
LEMMA RowStatus ==
  ASSUME NEW r \in RowType,
         NEW s \in {"absent", "queued", "crawling", "completed", "failed"}
  PROVE  [r EXCEPT !.status = s] \in RowType
  BY DEF RowType

LEMMA RowTotal ==
  ASSUME NEW r \in RowType
  PROVE  [r EXCEPT !.total = TRUE] \in RowType
  BY DEF RowType

LEMMA RowCrawled ==
  ASSUME NEW r \in RowType, NEW n \in 0 .. Cardinality(Page)
  PROVE  /\ [r EXCEPT !.crawled = n] \in RowType
         /\ [r EXCEPT !.total = TRUE, !.crawled = n] \in RowType
  BY DEF RowType

LEMMA PagesFinite ==
  IsFiniteSet(Page) /\ Cardinality(Page) \in Nat /\ 0 \in 0 .. Cardinality(Page)
  BY JobAssumption, FS_CardinalityType

\* The rows that the request and the worker insert.
LEMMA NewRows == {NoRow, QueuedRow, RecoveredRow} \subseteq RowType
<1>1. NoRow \in RowType
  BY PagesFinite DEF NoRow, RowType
<1>2. QueuedRow \in RowType
  BY <1>1, RowStatus DEF QueuedRow
<1>3. RecoveredRow \in RowType
  BY <1>2 DEF RecoveredRow, RowType
<1> QED
  BY <1>1, <1>2, <1>3

\* What a commit of the orchestrator's session does to the row.
LEMMA CommitFacts ==
  ASSUME TypeOK, NEW d \in Delivery, NEW new \in RowType, CommitJob(d, new)
  PROVE  /\ row' \in RowType
         /\ row'.status = IF new.status # mem[d].status THEN new.status ELSE row.status
         /\ row'.crawled = IF new.crawled # mem[d].crawled THEN new.crawled
                                                           ELSE row.crawled
         /\ row'.recovered = IF new.recovered # mem[d].recovered THEN new.recovered
                                                                 ELSE row.recovered
         /\ mem' \in [Delivery -> RowType]
         /\ lock' \in Delivery \cup {Nobody}
<1>1. /\ View(d) \in RowType /\ View(d).status = row.status
      /\ View(d).crawled = row.crawled /\ View(d).recovered = row.recovered
  BY DEF TypeOK, View, RowType
<1>2. mem[d] \in RowType
  BY DEF TypeOK
<1>3. row' = Merged(mem[d], new, View(d))
  BY DEF CommitJob
<1>4. row' \in RowType
  BY <1>1, <1>2, <1>3, MergedFacts
<1>5. mem' \in [Delivery -> RowType] /\ lock' \in Delivery \cup {Nobody}
  BY <1>4 DEF CommitJob, TypeOK, Released
<1> QED
  BY <1>1, <1>2, <1>3, <1>4, <1>5, MergedFacts

-----------------------------------------------------------------------------
(* Pages and their count *)

Counted(d) == {p \in Page : page[d][p] = "counted"}

CountsMatch == \A d \in Delivery : count[d] = Cardinality(Counted(d))

\* A page that is not counted leaves room in the count, and counting it adds one.
LEMMA CountRoom ==
  ASSUME TypeOK, CountsMatch, NEW d \in Delivery, NEW p \in Page,
         page[d][p] # "counted"
  PROVE  /\ count[d] + 1 \in 0 .. Cardinality(Page)
         /\ Cardinality(Counted(d) \cup {p}) = count[d] + 1
<1>1. IsFiniteSet(Counted(d)) /\ Counted(d) \cup {p} \subseteq Page
  BY PagesFinite, FS_Subset DEF Counted
<1>2. Cardinality(Counted(d) \cup {p}) = Cardinality(Counted(d)) + 1
  BY <1>1, FS_AddElement DEF Counted
<1>3. Cardinality(Counted(d) \cup {p}) <= Cardinality(Page)
  BY <1>1, PagesFinite, FS_Subset
<1>4. Cardinality(Counted(d)) \in Nat
  BY <1>1, FS_CardinalityType
<1> QED
  BY <1>2, <1>3, <1>4, PagesFinite DEF CountsMatch

\* Every action leaves the counts equal to the numbers of counted pages.
LEMMA CountsStayRight ==
  ASSUME TypeOK, CountsMatch, [Next]_vars
  PROVE  CountsMatch'
<1>1. ASSUME UNCHANGED <<page, count>>
      PROVE  CountsMatch'
  BY <1>1 DEF CountsMatch, Counted
<1>2. ASSUME NEW d \in Delivery, StartPages(d)
      PROVE  CountsMatch'
  <2>1. \A e \in Delivery : Counted(e)' = IF e = d THEN {} ELSE Counted(e)
    BY <1>2 DEF StartPages, Counted, TypeOK
  <2> QED
    BY <1>2, <2>1, FS_EmptySet DEF StartPages, CountsMatch, TypeOK
<1>3. ASSUME NEW d \in Delivery, NEW p \in Page,
             PageFetched(d, p) \/ PageFails(d, p) \/ PageCommits(d, p)
               \/ PageCommitFails(d, p)
      PROVE  CountsMatch'
  <2>1. count' = count
    BY <1>3 DEF PageFetched, PageFails, PageCommits, PageCommitFails
  <2>2. \A e \in Delivery : Counted(e)' = Counted(e)
    BY <1>3 DEF PageFetched, PageFails, PageCommits, PageCommitFails, SetPage,
                Counted, TypeOK
  <2> QED
    BY <2>1, <2>2 DEF CountsMatch
<1>4. ASSUME NEW d \in Delivery, NEW p \in Page, PageCounted(d, p)
      PROVE  CountsMatch'
  <2>1. page[d][p] # "counted" /\ count' = [count EXCEPT ![d] = count[d] + 1]
    BY <1>4 DEF PageCounted, SetPage
  <2>2. \A e \in Delivery :
          Counted(e)' = IF e = d THEN Counted(d) \cup {p} ELSE Counted(e)
    BY <1>4 DEF PageCounted, SetPage, Counted, TypeOK
  <2> QED
    BY <2>1, <2>2, CountRoom DEF CountsMatch, TypeOK
<1>5. CASE \E d \in Delivery : BeginWithSitemap(d) \/ BeginWithoutSitemap(d)
  BY <1>2, <1>5 DEF BeginWithSitemap, BeginWithoutSitemap
<1>6. CASE \E d \in Delivery : \/ Start(d) \/ Recreate(d) \/ RecreateConflicts(d)
                               \/ MarkRunning(d) \/ SetTotal(d)
                               \/ FinalCounts(d) \/ MarkCompleted(d)
                               \/ RequestAnalysis(d) \/ Fail(d) \/ Die(d)
  BY <1>1, <1>6 DEF Start, Recreate, RecreateConflicts, MarkRunning, SetTotal,
       FinalCounts, MarkCompleted, RequestAnalysis, Fail, Die, execVars
<1>7. CASE \/ ApiStep \/ ApiAbort
           \/ \E d, next \in Delivery : Retry(d, next) \/ Crash(d, next)
                                          \/ Repeat(d, next)
           \/ UNCHANGED vars
  BY <1>1, <1>7 DEF ApiStep, ApiCreate, ApiSend, ApiCommit, ApiAbort, Retry, Crash,
       Repeat, execVars, vars
<1> QED
  BY <1>3, <1>4, <1>5, <1>6, <1>7 DEF Next, TaskStep, PageStep, Failure

-----------------------------------------------------------------------------
(* Type correctness *)

LEMMA GotoType ==
  ASSUME TypeOK, NEW d \in Delivery, NEW from, NEW to \in Place, Goto(d, from, to)
  PROVE  pc' \in [Delivery -> Place]
  BY DEF Goto, TypeOK

\* A place that an action names.
LEMMA Places ==
  {"unused", "sent", "missing", "loaded", "running", "discovering", "crawling",
   "counted", "completed", "skipped", "retried", "failed", "dead", "done"} = Place
  BY DEF Place, Running, Ended

LEMMA TypeStep ==
  ASSUME TypeOK, CountsMatch, [Next]_vars
  PROVE  TypeOK'
<1>1. CASE ApiStep \/ ApiAbort \/ UNCHANGED vars
  <2>1. CASE ApiCreate
    BY <2>1 DEF TypeOK, ApiCreate, execVars
  <2>2. ASSUME NEW d \in Delivery, ApiSend(d)
        PROVE  TypeOK'
    <3>1. pc' \in [Delivery -> Place]
      BY <2>2, Places, GotoType DEF ApiSend
    <3> QED
      BY <2>2, <3>1 DEF TypeOK, ApiSend, execVars
  <2>3. CASE ApiCommit
    BY <2>3, NewRows DEF TypeOK, ApiCommit, execVars
  <2>4. CASE ApiAbort
    BY <2>4, JobAssumption DEF TypeOK, ApiAbort, Fault, execVars
  <2>5. CASE UNCHANGED vars
    BY <2>5 DEF TypeOK, execVars, vars
  <2> QED
    BY <1>1, <2>1, <2>2, <2>3, <2>4, <2>5 DEF ApiStep
<1>2. ASSUME NEW d \in Delivery, Start(d)
      PROVE  TypeOK'
  BY <1>2, Places DEF TypeOK, Start
<1>3. ASSUME NEW d \in Delivery, Recreate(d) \/ RecreateConflicts(d)
      PROVE  TypeOK'
  <2>1. pc' \in [Delivery -> Place]
    BY <1>3, Places, GotoType DEF Recreate, RecreateConflicts
  <2> QED
    BY <1>3, <2>1, NewRows DEF TypeOK, Recreate, RecreateConflicts, execVars
<1>4. ASSUME NEW d \in Delivery, MarkRunning(d) \/ FinalCounts(d) \/ MarkCompleted(d)
      PROVE  TypeOK'
  <2>1. PICK new \in RowType : CommitJob(d, new)
    <3>1. mem[d] \in RowType /\ count[d] \in 0 .. Cardinality(Page)
      BY DEF TypeOK
    <3> QED
      BY <1>4, <3>1, RowStatus, RowCrawled DEF MarkRunning, FinalCounts, MarkCompleted
  <2>2. /\ row' \in RowType /\ mem' \in [Delivery -> RowType]
        /\ lock' \in Delivery \cup {Nobody}
    BY <2>1, CommitFacts
  <2>3. pc' \in [Delivery -> Place]
    BY <1>4, Places, GotoType DEF MarkRunning, FinalCounts, MarkCompleted
  <2> QED
    BY <1>4, <2>2, <2>3 DEF TypeOK, MarkRunning, FinalCounts, MarkCompleted
<1>5. ASSUME NEW d \in Delivery, SetTotal(d)
      PROVE  TypeOK'
  <2>1. [row EXCEPT !.total = TRUE] \in RowType
    BY RowTotal DEF TypeOK
  <2>2. pc' \in [Delivery -> Place]
    BY <1>5, Places, GotoType DEF SetTotal
  <2> QED
    BY <1>5, <2>1, <2>2 DEF TypeOK, SetTotal
<1>6. ASSUME NEW d \in Delivery, BeginWithSitemap(d) \/ BeginWithoutSitemap(d)
      PROVE  TypeOK'
  <2>1. /\ row' \in RowType /\ mem' \in [Delivery -> RowType]
        /\ lock' \in Delivery \cup {Nobody}
    <3>1. CASE BeginWithSitemap(d)
      <4>1. [mem[d] EXCEPT !.total = TRUE, !.crawled = 0] \in RowType
        BY PagesFinite, RowCrawled DEF TypeOK
      <4> QED
        BY <3>1, <4>1, CommitFacts DEF BeginWithSitemap
    <3>2. CASE BeginWithoutSitemap(d)
      BY <3>2 DEF BeginWithoutSitemap, TypeOK
    <3> QED
      BY <1>6, <3>1, <3>2
  <2>2. pc' \in [Delivery -> Place]
    BY <1>6, Places, GotoType DEF BeginWithSitemap, BeginWithoutSitemap
  <2>3. StartPages(d) /\ UNCHANGED <<api, retries, saved, lost, analyses, faults>>
    BY <1>6 DEF BeginWithSitemap, BeginWithoutSitemap
  <2> QED
    BY <2>1, <2>2, <2>3, PagesFinite DEF TypeOK, StartPages
<1>7. ASSUME NEW d \in Delivery, RequestAnalysis(d) \/ Fail(d) \/ Die(d)
      PROVE  TypeOK'
  <2>1. pc' \in [Delivery -> Place]
    BY <1>7, Places DEF RequestAnalysis, Fail, Die, Goto, TypeOK
  <2> QED
    BY <1>7, <2>1, JobAssumption DEF TypeOK, RequestAnalysis, Fail, Die, Fault, Released,
       execVars
<1>8. ASSUME NEW d \in Delivery, NEW p \in Page,
             PageFetched(d, p) \/ PageFails(d, p) \/ PageCommitFails(d, p)
      PROVE  TypeOK'
  <2>1. CASE PageFetched(d, p)
    <3>1. NextNumber(d) \in 0 .. Cardinality(Page)
      BY <2>1, CountRoom DEF PageFetched, SetPage, NextNumber
    <3> QED
      BY <2>1, <3>1 DEF TypeOK, PageFetched, SetPage
  <2>2. CASE PageFails(d, p)
    BY <2>2 DEF TypeOK, PageFails, SetPage
  <2>3. CASE PageCommitFails(d, p)
    <3>1. /\ page' = [page EXCEPT ![d][p] = "stored"] /\ lost' = lost \cup {p}
          /\ faults' \in 0 .. MaxFaults
      BY <2>3, JobAssumption DEF TypeOK, PageCommitFails, SetPage, Fault
    <3> QED
      BY <2>3, <3>1 DEF TypeOK, PageCommitFails
  <2> QED
    BY <1>8, <2>1, <2>2, <2>3
<1>9. ASSUME NEW d \in Delivery, NEW p \in Page, PageCommits(d, p)
      PROVE  TypeOK'
  <2>1. [row EXCEPT !.total = TRUE, !.crawled = value[d][p]] \in RowType
    BY RowCrawled DEF TypeOK
  <2>2. /\ row' = [row EXCEPT !.total = TRUE, !.crawled = value[d][p]]
        /\ page' = [page EXCEPT ![d][p] = "stored"] /\ saved' = saved \cup {p}
        /\ UNCHANGED <<lock, api, pc, retries, mem, value, count, lost, analyses, faults>>
    BY <1>9 DEF PageCommits, SetPage
  <2> QED
    BY <2>1, <2>2 DEF TypeOK
<1>10. ASSUME NEW d \in Delivery, NEW p \in Page, PageCounted(d, p)
       PROVE  TypeOK'
  <2>1. count[d] + 1 \in 0 .. Cardinality(Page)
    BY <1>10, CountRoom DEF PageCounted, SetPage
  <2> QED
    BY <1>10, <2>1 DEF TypeOK, PageCounted, SetPage
<1>11. ASSUME NEW d \in Delivery, NEW next \in Delivery,
              Retry(d, next) \/ Crash(d, next) \/ Repeat(d, next)
       PROVE  TypeOK'
  <2>1. retries' \in [Delivery -> 0 .. MaxRetries]
    BY <1>11, JobAssumption DEF TypeOK, Retry, Crash, Repeat
  <2>2. pc' \in [Delivery -> Place]
    BY <1>11, Places DEF TypeOK, Retry, Crash, Repeat
  <2> QED
    BY <1>11, <2>1, <2>2, JobAssumption DEF TypeOK, Retry, Crash, Repeat, Fault, Released,
       execVars
<1> QED
  BY <1>1, <1>2, <1>3, <1>4, <1>5, <1>6, <1>7, <1>8, <1>9, <1>10, <1>11
     DEF Next, TaskStep, PageStep, Failure

\* The type invariant holds together with the counts, which keep the numbers
\* that pages store within the number of pages.
LEMMA TypesAndCounts == Spec => [](TypeOK /\ CountsMatch)
<1>1. Init => TypeOK /\ CountsMatch
  <2> SUFFICES ASSUME Init PROVE TypeOK /\ CountsMatch
    OBVIOUS
  <2>1. TypeOK
    BY PagesFinite, NewRows, Places, JobAssumption DEF Init, TypeOK
  <2>2. \A d \in Delivery : Counted(d) = {} /\ count[d] = 0
    BY DEF Init, Counted
  <2> QED
    BY <2>1, <2>2, FS_EmptySet DEF CountsMatch
<1>2. TypeOK /\ CountsMatch /\ [Next]_vars => (TypeOK /\ CountsMatch)'
  BY TypeStep, CountsStayRight
<1> QED
  BY <1>1, <1>2, PTL DEF Spec

\* Every variable keeps its type: in particular no session stores a number of
\* pages that exceeds the pages of the site.
THEOREM JobTypeCorrect == Spec => []TypeOK
  BY TypesAndCounts, PTL

-----------------------------------------------------------------------------
(* What each action that writes the row does to it *)

LEMMA WritesOfMarkRunning ==
  ASSUME TypeOK, NEW d \in Delivery, MarkRunning(d)
  PROVE  /\ row'.status = IF mem[d].status # "crawling" THEN "crawling" ELSE row.status
         /\ row'.crawled = row.crawled /\ row'.recovered = row.recovered
<1> DEFINE new == [mem[d] EXCEPT !.status = "crawling"]
<1>1. mem[d] \in RowType
  BY DEF TypeOK
<1>2. new \in RowType /\ CommitJob(d, new)
  BY <1>1, RowStatus DEF MarkRunning
<1>3. new.status = "crawling" /\ new.crawled = mem[d].crawled
      /\ new.recovered = mem[d].recovered
  BY <1>1 DEF RowType
<1> HIDE DEF new
<1> QED
  BY <1>2, <1>3, CommitFacts

LEMMA WritesOfBegin ==
  ASSUME TypeOK, NEW d \in Delivery, BeginWithSitemap(d)
  PROVE  /\ row'.status = row.status /\ row'.recovered = row.recovered
         /\ row'.crawled \in {row.crawled, 0}
<1> DEFINE new == [mem[d] EXCEPT !.total = TRUE, !.crawled = 0]
<1>1. mem[d] \in RowType
  BY DEF TypeOK
<1>2. new \in RowType /\ CommitJob(d, new)
  BY <1>1, PagesFinite, RowCrawled DEF BeginWithSitemap
<1>3. new.status = mem[d].status /\ new.crawled = 0
      /\ new.recovered = mem[d].recovered
  BY <1>1 DEF RowType
<1> HIDE DEF new
<1> QED
  BY <1>2, <1>3, CommitFacts

LEMMA WritesOfFinalCounts ==
  ASSUME TypeOK, NEW d \in Delivery, FinalCounts(d)
  PROVE  /\ row'.status = row.status /\ row'.recovered = row.recovered
         /\ row'.crawled \in {row.crawled, count[d]}
<1> DEFINE new == [mem[d] EXCEPT !.crawled = count[d]]
<1>1. mem[d] \in RowType /\ count[d] \in 0 .. Cardinality(Page)
  BY DEF TypeOK
<1>2. new \in RowType /\ CommitJob(d, new)
  BY <1>1, RowCrawled DEF FinalCounts
<1>3. new.status = mem[d].status /\ new.crawled = count[d]
      /\ new.recovered = mem[d].recovered
  BY <1>1 DEF RowType
<1> HIDE DEF new
<1> QED
  BY <1>2, <1>3, CommitFacts

LEMMA WritesOfMarkCompleted ==
  ASSUME TypeOK, NEW d \in Delivery, MarkCompleted(d)
  PROVE  /\ row'.status \in {row.status, "completed"}
         /\ row'.crawled = row.crawled /\ row'.recovered = row.recovered
<1> DEFINE new == [mem[d] EXCEPT !.status = "completed"]
<1>1. mem[d] \in RowType
  BY DEF TypeOK
<1>2. new \in RowType /\ CommitJob(d, new)
  BY <1>1, RowStatus DEF MarkCompleted
<1>3. new.status = "completed" /\ new.crawled = mem[d].crawled
      /\ new.recovered = mem[d].recovered
  BY <1>1 DEF RowType
<1> HIDE DEF new
<1> QED
  BY <1>2, <1>3, CommitFacts

LEMMA WritesOfPage ==
  ASSUME TypeOK, NEW d \in Delivery, NEW p \in Page, PageCommits(d, p)
  PROVE  /\ row'.status = row.status /\ row'.recovered = row.recovered
         /\ row'.crawled = value[d][p]
  BY DEF TypeOK, RowType, PageCommits

LEMMA NewRowsFacts ==
  /\ NoRow.status = "absent" /\ NoRow.crawled = 0 /\ ~NoRow.recovered
  /\ QueuedRow.status = "queued" /\ QueuedRow.crawled = 0 /\ ~QueuedRow.recovered
  /\ RecoveredRow.status = "queued" /\ RecoveredRow.crawled = 0
  BY DEF NoRow, QueuedRow, RecoveredRow

\* No other action writes the row.
LEMMA RowWriters ==
  ASSUME [Next]_vars
  PROVE  \/ row' = row
         \/ ApiCommit
         \/ \E d \in Delivery : \/ Recreate(d) \/ MarkRunning(d) \/ BeginWithSitemap(d)
                                \/ FinalCounts(d) \/ MarkCompleted(d)
                                \/ \E p \in Page : PageCommits(d, p)
<1>1. CASE ApiStep \/ Failure
           \/ (\E d, next \in Delivery : Repeat(d, next)) \/ UNCHANGED vars
  BY <1>1 DEF ApiStep, ApiCreate, ApiSend, Failure, ApiAbort, Fail, Die,
              PageCommitFails, Retry, Crash, Repeat, vars
<1>2. CASE \E d \in Delivery : TaskStep(d)
  BY <1>2 DEF TaskStep, Start, RecreateConflicts, SetTotal, BeginWithoutSitemap,
              RequestAnalysis
<1>3. CASE \E d \in Delivery : PageStep(d)
  BY <1>3 DEF PageStep, PageFetched, PageFails, PageCounted
<1> QED
  BY <1>1, <1>2, <1>3 DEF Next

-----------------------------------------------------------------------------
(* The accepted configuration *)

\* A committed row stays, as the request wrote it.
AcceptedRow == api = "committed" => row.status # "absent" /\ ~row.recovered

LEMMA AcceptedRowStep ==
  ASSUME TypeOK, AcceptedRow, [Next]_vars
  PROVE  AcceptedRow'
<1>1. api' = "committed" => api = "committed" \/ ApiCommit
  BY DEF Next, ApiStep, ApiCreate, ApiSend, TaskStep, Start, Recreate, RecreateConflicts,
         MarkRunning, SetTotal, BeginWithSitemap, BeginWithoutSitemap, FinalCounts,
         MarkCompleted, RequestAnalysis, PageStep, PageFetched, PageFails, PageCommits,
         PageCounted, Failure, ApiAbort, Fail, Die, PageCommitFails, Retry, Crash, Repeat,
         vars
<1>2. CASE ApiCommit
  BY <1>2, NewRowsFacts DEF ApiCommit, AcceptedRow
<1>3. CASE row' = row
  BY <1>1, <1>2, <1>3 DEF AcceptedRow
<1>4. ASSUME NEW d \in Delivery, Recreate(d)
      PROVE  AcceptedRow'
  BY <1>4, NewRowsFacts DEF Recreate, AcceptedRow
<1>5. ASSUME NEW d \in Delivery,
             \/ MarkRunning(d) \/ BeginWithSitemap(d) \/ FinalCounts(d)
             \/ MarkCompleted(d) \/ \E p \in Page : PageCommits(d, p)
      PROVE  AcceptedRow'
  <2>1. row'.recovered = row.recovered
        /\ row'.status \in {row.status, "crawling", "completed"}
    BY <1>5, WritesOfMarkRunning, WritesOfBegin, WritesOfFinalCounts,
       WritesOfMarkCompleted, WritesOfPage
  <2> QED
    BY <1>1, <1>2, <2>1 DEF AcceptedRow
<1> QED
  BY <1>2, <1>3, <1>4, <1>5, RowWriters

\* However the request's commit, the task and its repetitions interleave, a
\* worker never replaces the row the user asked for.
THEOREM AcceptedConfigIsKept == Spec => []AcceptedConfigKept
<1>1. Init => AcceptedRow
  BY DEF Init, AcceptedRow
<1>2. TypeOK /\ AcceptedRow /\ [Next]_vars => AcceptedRow'
  BY AcceptedRowStep
<1>3. AcceptedRow => AcceptedConfigKept
  BY NewRowsFacts DEF AcceptedRow, AcceptedConfigKept
<1> QED
  BY <1>1, <1>2, <1>3, JobTypeCorrect, PTL DEF Spec

-----------------------------------------------------------------------------
(* The progress *)

Settled == saved \cup lost

\* A page past its commit was saved or lost; the number a page is about to store
\* counts that page and the pages counted so far; so does the row.
SettledKept ==
  \A d \in Delivery, p \in Page : page[d][p] \in {"stored", "counted"} => p \in Settled
ValuesBehind ==
  \A d \in Delivery, p \in Page : page[d][p] = "saving" => value[d][p] <= count[d] + 1
ProgressInv == CountsMatch /\ SettledKept /\ ValuesBehind /\ ProgressNeverAhead

LEMMA PageBookkeeping ==
  ASSUME TypeOK, SettledKept, ValuesBehind, [Next]_vars
  PROVE  /\ SettledKept' /\ ValuesBehind'
         /\ Settled \subseteq Settled'
<1>1. ASSUME UNCHANGED <<page, value, count, saved, lost>>
      PROVE  SettledKept' /\ ValuesBehind' /\ Settled \subseteq Settled'
  BY <1>1 DEF SettledKept, ValuesBehind, Settled
<1>2. ASSUME NEW d \in Delivery, BeginWithSitemap(d) \/ BeginWithoutSitemap(d)
      PROVE  SettledKept' /\ ValuesBehind' /\ Settled \subseteq Settled'
  <2>1. StartPages(d) /\ UNCHANGED <<saved, lost>>
    BY <1>2 DEF BeginWithSitemap, BeginWithoutSitemap
  <2> QED
    BY <2>1 DEF StartPages, TypeOK, SettledKept, ValuesBehind, Settled
<1>3. ASSUME NEW d \in Delivery, NEW p \in Page, PageFetched(d, p)
      PROVE  SettledKept' /\ ValuesBehind' /\ Settled \subseteq Settled'
  BY <1>3 DEF PageFetched, SetPage, NextNumber, TypeOK, SettledKept, ValuesBehind, Settled
<1>4. ASSUME NEW d \in Delivery, NEW p \in Page,
             PageFails(d, p) \/ PageCommits(d, p) \/ PageCommitFails(d, p)
      PROVE  SettledKept' /\ ValuesBehind' /\ Settled \subseteq Settled'
  <2>1. UNCHANGED <<value, count>> /\ Settled \subseteq Settled'
    BY <1>4 DEF PageFails, PageCommits, PageCommitFails, Settled
  <2>2. \A e \in Delivery, q \in Page :
          page'[e][q] = page[e][q] \/ page'[e][q] = "failed"
            \/ (page'[e][q] = "stored" /\ q \in Settled')
    BY <1>4 DEF PageFails, PageCommits, PageCommitFails, SetPage, TypeOK, Settled
  <2> QED
    BY <2>1, <2>2 DEF SettledKept, ValuesBehind
<1>5. ASSUME NEW d \in Delivery, NEW p \in Page, PageCounted(d, p)
      PROVE  SettledKept' /\ ValuesBehind' /\ Settled \subseteq Settled'
  <2>1. UNCHANGED <<value, saved, lost>> /\ page[d][p] = "stored"
    BY <1>5 DEF PageCounted, SetPage
  <2>2. \A e \in Delivery, q \in Page :
          page'[e][q] = IF e = d /\ q = p THEN "counted" ELSE page[e][q]
    BY <1>5 DEF PageCounted, SetPage, TypeOK
  <2>3. \A e \in Delivery : count[e] \in Nat /\ count'[e] >= count[e] /\ count'[e] \in Nat
    BY <1>5, PagesFinite DEF PageCounted, TypeOK
  <2>4. SettledKept' /\ Settled \subseteq Settled'
    BY <2>1, <2>2 DEF SettledKept, Settled
  <2>5. ASSUME NEW e \in Delivery, NEW q \in Page, page'[e][q] = "saving"
        PROVE  value'[e][q] <= count'[e] + 1
    <3>1. page[e][q] = "saving" /\ value'[e][q] = value[e][q]
      BY <2>1, <2>2, <2>5
    <3>2. value[e][q] \in Nat
      BY PagesFinite DEF TypeOK
    <3> QED
      BY <2>3, <3>1, <3>2 DEF ValuesBehind
  <2> QED
    BY <2>4, <2>5 DEF ValuesBehind
<1>6. CASE \/ ApiStep \/ ApiAbort \/ UNCHANGED vars
           \/ \E d, next \in Delivery : Retry(d, next) \/ Crash(d, next)
                                          \/ Repeat(d, next)
  BY <1>1, <1>6 DEF ApiStep, ApiCreate, ApiSend, ApiCommit, ApiAbort, Retry, Crash,
       Repeat, execVars, vars
<1>7. CASE \E d \in Delivery : \/ Start(d) \/ Recreate(d) \/ RecreateConflicts(d)
                               \/ MarkRunning(d) \/ SetTotal(d)
                               \/ FinalCounts(d) \/ MarkCompleted(d)
                               \/ RequestAnalysis(d) \/ Fail(d) \/ Die(d)
  BY <1>1, <1>7 DEF Start, Recreate, RecreateConflicts, MarkRunning, SetTotal,
       FinalCounts, MarkCompleted, RequestAnalysis, Fail, Die, execVars
<1> QED
  BY <1>2, <1>3, <1>4, <1>5, <1>6, <1>7 DEF Next, TaskStep, PageStep, Failure

LEMMA SettledFinite ==
  ASSUME TypeOK
  PROVE  IsFiniteSet(Settled) /\ Cardinality(Settled) \in Nat
  BY PagesFinite, FS_Subset, FS_CardinalityType DEF TypeOK, Settled

LEMMA ProgressStep ==
  ASSUME TypeOK, TypeOK', ProgressInv, [Next]_vars
  PROVE  ProgressInv'
<1>1. CountsMatch' /\ SettledKept' /\ ValuesBehind' /\ Settled \subseteq Settled'
  BY CountsStayRight, PageBookkeeping DEF ProgressInv
<1>2. /\ IsFiniteSet(Settled') /\ Cardinality(Settled') \in Nat
      /\ Cardinality(Settled) \in Nat
  BY SettledFinite, PagesFinite, FS_Subset, FS_CardinalityType DEF TypeOK, Settled
<1>3. Cardinality(Settled) <= Cardinality(Settled')
  BY <1>1, <1>2, FS_Subset
<1>4. row.crawled \in Nat /\ row.crawled <= Cardinality(Settled)
  BY PagesFinite DEF TypeOK, RowType, ProgressInv, ProgressNeverAhead, Settled
<1>5. ASSUME row'.crawled \in {row.crawled, 0}
      PROVE  row'.crawled <= Cardinality(Settled')
  BY <1>2, <1>3, <1>4, <1>5
<1>6. ASSUME NEW d \in Delivery, FinalCounts(d)
      PROVE  row'.crawled <= Cardinality(Settled')
  <2>1. row'.crawled \in {row.crawled, count[d]}
    BY <1>6, WritesOfFinalCounts
  <2>2. Counted(d) \subseteq Settled
    BY DEF ProgressInv, SettledKept, Counted
  <2>3. count[d] <= Cardinality(Settled) /\ count[d] \in Nat
    BY <2>2, SettledFinite, FS_Subset, PagesFinite
       DEF ProgressInv, CountsMatch, TypeOK
  <2> QED
    BY <1>2, <1>3, <1>4, <2>1, <2>3
<1>7. ASSUME NEW d \in Delivery, NEW p \in Page, PageCommits(d, p)
      PROVE  row'.crawled <= Cardinality(Settled')
  <2>1. row'.crawled = value[d][p] /\ page[d][p] = "saving" /\ p \in Settled'
    BY <1>7, WritesOfPage DEF PageCommits, SetPage, Settled
  <2>2. value[d][p] <= count[d] + 1
    BY <2>1 DEF ProgressInv, ValuesBehind
  <2>3. Counted(d) \cup {p} \subseteq Settled'
    BY <1>1, <2>1 DEF ProgressInv, SettledKept, Counted
  <2>4. Cardinality(Counted(d) \cup {p}) <= Cardinality(Settled')
    BY <1>2, <2>3, FS_Subset
  <2>5. Cardinality(Counted(d) \cup {p}) = count[d] + 1 /\ count[d] + 1 \in Nat
    <3>1. page[d][p] # "counted" /\ CountsMatch
      BY <2>1 DEF ProgressInv
    <3>2. /\ Cardinality(Counted(d) \cup {p}) = count[d] + 1
          /\ count[d] + 1 \in 0 .. Cardinality(Page)
      BY <3>1, CountRoom
    <3> QED
      BY <3>2, PagesFinite
  <2>6. value[d][p] \in Nat
    BY PagesFinite DEF TypeOK
  <2> QED
    BY <1>2, <2>1, <2>2, <2>4, <2>5, <2>6
<1>8. row'.crawled <= Cardinality(Settled')
  <2>1. CASE row' = row
    BY <1>5, <2>1
  <2>2. CASE ApiCommit \/ \E d \in Delivery : Recreate(d)
    BY <1>5, <2>2, NewRowsFacts DEF ApiCommit, Recreate
  <2>3. CASE \E d \in Delivery :
               MarkRunning(d) \/ BeginWithSitemap(d) \/ MarkCompleted(d)
    BY <1>5, <2>3, WritesOfMarkRunning, WritesOfBegin, WritesOfMarkCompleted
  <2> QED
    BY <1>6, <1>7, <2>1, <2>2, <2>3, RowWriters
<1> QED
  BY <1>1, <1>8 DEF ProgressInv, ProgressNeverAhead, Settled

\* The progress that is shown never exceeds the pages that were dealt with,
\* though each page stores a number it read before it waited for the database.
THEOREM ProgressIsNeverAhead == Spec => []ProgressNeverAhead
<1>1. Init => ProgressInv
  <2> SUFFICES ASSUME Init PROVE ProgressInv
    OBVIOUS
  <2>1. \A d \in Delivery : Counted(d) = {} /\ count[d] = 0
    BY DEF Init, Counted
  <2>2. CountsMatch
    BY <2>1, FS_EmptySet DEF CountsMatch
  <2>3. SettledKept /\ ValuesBehind
    BY DEF Init, SettledKept, ValuesBehind
  <2>4. ProgressNeverAhead
    BY FS_EmptySet, NewRowsFacts DEF Init, ProgressNeverAhead
  <2> QED
    BY <2>2, <2>3, <2>4 DEF ProgressInv
<1>2. TypeOK /\ TypeOK' /\ ProgressInv /\ [Next]_vars => ProgressInv'
  BY ProgressStep
<1>3. ProgressInv => ProgressNeverAhead
  BY DEF ProgressInv
<1> QED
  BY <1>1, <1>2, <1>3, JobTypeCorrect, PTL DEF Spec

-----------------------------------------------------------------------------
(* Reopening a completed job *)

\* Until the request commits there is no row, and no delivery is past the
\* moment at which it needs one; until it sends the task there is no delivery.
NeedsRow == Running \ {"missing"}
PreCommit ==
  /\ api \in {"idle", "flushed"} => \A d \in Delivery : pc[d] = "unused"
  /\ api \in {"idle", "flushed", "sent"} =>
       row = NoRow /\ \A d \in Delivery : pc[d] \notin NeedsRow
LoadedStatus ==
  \A d \in Delivery : pc[d] = "loaded" => mem[d].status \in {"queued", "crawling"}
StartInv == PreCommit /\ LoadedStatus

LEMMA StartStep ==
  ASSUME TypeOK, StartInv, [Next]_vars
  PROVE  StartInv'
<1> USE DEF StartInv, PreCommit, LoadedStatus
<1>1. CASE ApiStep \/ ApiAbort \/ UNCHANGED vars
  <2>1. ASSUME NEW d \in Delivery, ApiSend(d)
        PROVE  StartInv'
    <3>1. /\ api = "flushed" /\ api' = "sent" /\ UNCHANGED <<row, mem>>
          /\ pc' = [pc EXCEPT ![d] = "sent"]
      BY <2>1 DEF ApiSend, Goto, execVars
    <3> QED
      BY <3>1 DEF NeedsRow, Running, TypeOK
  <2>2. CASE ApiCreate \/ ApiCommit \/ ApiAbort \/ UNCHANGED vars
    BY <2>2 DEF ApiCreate, ApiCommit, ApiAbort, execVars, vars
  <2> QED
    BY <1>1, <2>1, <2>2 DEF ApiStep
<1>2. ASSUME NEW d \in Delivery, Start(d)
      PROVE  StartInv'
  <2>1. /\ api' = api /\ row' = row /\ mem' = [mem EXCEPT ![d] = row]
        /\ pc[d] = "sent"
    BY <1>2 DEF Start
  <2>2. /\ pc' = [pc EXCEPT ![d] = pc'[d]]
        /\ row = NoRow => pc'[d] = "missing"
        /\ pc'[d] = "loaded" => row.status \in {"queued", "crawling"}
    BY <1>2, NewRowsFacts DEF Start, ToBeCrawled, TypeOK
  <2> QED
    BY <2>1, <2>2 DEF NeedsRow, TypeOK
<1>3. ASSUME NEW d \in Delivery, Recreate(d)
      PROVE  StartInv'
  <2>1. /\ api' = api /\ api \notin {"flushed", "sent"} /\ pc[d] = "missing"
        /\ mem' = [mem EXCEPT ![d] = RecoveredRow]
        /\ pc' = [pc EXCEPT ![d] = "loaded"]
    BY <1>3 DEF Recreate, InsertMayRun, Goto
  <2>2. api # "idle"
    BY <2>1
  <2> QED
    BY <2>1, <2>2, NewRowsFacts DEF TypeOK
<1>4. ASSUME NEW d \in Delivery, RecreateConflicts(d) \/ Fail(d) \/ Die(d)
      PROVE  StartInv'
  <2>1. /\ UNCHANGED <<row, api, mem>> /\ pc[d] # "unused"
        /\ pc' = [pc EXCEPT ![d] = pc'[d]] /\ pc'[d] \in {"failed", "dead"}
    BY <1>4 DEF RecreateConflicts, Fail, MayRaise, Die, Goto, Running, execVars, TypeOK
  <2> QED
    BY <2>1 DEF NeedsRow, Running, TypeOK
<1>5. ASSUME NEW d \in Delivery,
             \/ MarkRunning(d) \/ SetTotal(d) \/ BeginWithSitemap(d)
             \/ BeginWithoutSitemap(d) \/ FinalCounts(d) \/ MarkCompleted(d)
             \/ RequestAnalysis(d)
      PROVE  StartInv'
  <2>1. /\ api' = api /\ pc[d] \in NeedsRow
        /\ pc' = [pc EXCEPT ![d] = pc'[d]] /\ pc'[d] # "loaded"
    BY <1>5 DEF MarkRunning, SetTotal, BeginWithSitemap, BeginWithoutSitemap,
                FinalCounts, MarkCompleted, RequestAnalysis, Goto, NeedsRow, Running, TypeOK
  <2>2. \A e \in Delivery \ {d} : mem'[e] = mem[e]
    BY <1>5 DEF MarkRunning, SetTotal, BeginWithSitemap, BeginWithoutSitemap,
                FinalCounts, MarkCompleted, RequestAnalysis, CommitJob, execVars, TypeOK
  <2>3. api' \notin {"idle", "flushed", "sent"}
    BY <2>1
  <2> QED
    BY <2>1, <2>2, <2>3 DEF TypeOK
<1>6. ASSUME NEW d \in Delivery, NEW p \in Page,
             \/ PageFetched(d, p) \/ PageFails(d, p) \/ PageCommits(d, p)
             \/ PageCommitFails(d, p) \/ PageCounted(d, p)
      PROVE  StartInv'
  <2>1. UNCHANGED <<api, pc, mem>> /\ pc[d] = "crawling"
    BY <1>6 DEF PageFetched, PageFails, PageCommits, PageCommitFails, PageCounted, SetPage
  <2>2. api' \notin {"idle", "flushed", "sent"}
    BY <2>1 DEF NeedsRow, Running
  <2> QED
    BY <2>1, <2>2
<1>7. ASSUME NEW d \in Delivery, NEW next \in Delivery,
             Retry(d, next) \/ Crash(d, next) \/ Repeat(d, next)
      PROVE  StartInv'
  <2>1. UNCHANGED <<row, api, mem>> /\ pc[d] # "unused"
    BY <1>7 DEF Retry, MayRaise, Crash, Repeat, Running, execVars
  <2>2. \A e \in Delivery : pc'[e] = pc[e] \/ pc'[e] \in {"retried", "dead", "sent"}
    BY <1>7 DEF Retry, Crash, Repeat, TypeOK
  <2> QED
    BY <2>1, <2>2 DEF NeedsRow, Running
<1> QED
  BY <1>1, <1>2, <1>3, <1>4, <1>5, <1>6, <1>7 DEF Next, TaskStep, PageStep, Failure

LEMMA StartInvariant == Spec => []StartInv
<1>1. Init => StartInv
  BY DEF Init, StartInv, PreCommit, LoadedStatus, NeedsRow, Running
<1>2. TypeOK /\ StartInv /\ [Next]_vars => StartInv'
  BY StartStep
<1> QED
  BY <1>1, <1>2, JobTypeCorrect, PTL DEF Spec

\* A step that takes a job out of "completed" is the _mark_running of a delivery
\* that loaded the row while the job was still queued.
THEOREM OnlyConcurrentStartReopens == Spec => ReopenedOnlyByConcurrentStart
<1> DEFINE Reopens == row.status = "completed" /\ row'.status # "completed"
           Stale == \E d \in Delivery : pc[d] = "loaded" /\ mem[d].status = "queued"
<1>1. ASSUME TypeOK, StartInv, [Next]_vars, Reopens
      PROVE  Stale
  <2>1. ~ApiCommit
    BY <1>1, NewRowsFacts DEF ApiCommit, StartInv, PreCommit
  <2>2. ASSUME NEW d \in Delivery, MarkRunning(d)
        PROVE  Stale
    <3>1. pc[d] = "loaded" /\ mem[d].status # "crawling"
      BY <1>1, <2>2, WritesOfMarkRunning DEF MarkRunning, Goto
    <3> QED
      BY <1>1, <3>1 DEF StartInv, LoadedStatus
  <2>3. ASSUME NEW d \in Delivery
        PROVE  /\ ~Recreate(d) /\ ~BeginWithSitemap(d) /\ ~FinalCounts(d)
               /\ ~MarkCompleted(d) /\ \A p \in Page : ~PageCommits(d, p)
    BY <1>1, NewRowsFacts, WritesOfBegin, WritesOfFinalCounts, WritesOfMarkCompleted,
       WritesOfPage DEF Recreate
  <2> QED
    BY <1>1, <2>1, <2>2, <2>3, RowWriters
<1>2. TypeOK /\ StartInv /\ [Next]_vars => [Reopens => Stale]_vars
  BY <1>1
<1> QED
  BY <1>2, JobTypeCorrect, StartInvariant, PTL DEF Spec, ReopenedOnlyByConcurrentStart

-----------------------------------------------------------------------------
(* The analysis *)

\* A completed job was analysed, or is about to be, or something failed.
Analysed ==
  row.status = "completed" /\ faults = 0 =>
    analyses > 0 \/ \E d \in Delivery : pc[d] = "completed"

LEMMA AnalysedStep ==
  ASSUME TypeOK, TypeOK', Analysed, [Next]_vars
  PROVE  Analysed'
<1>1. analyses \in Nat /\ faults \in Nat
  BY JobAssumption DEF TypeOK
<1>2. CASE Failure
  <2>1. faults' = faults + 1
    BY <1>2 DEF Failure, ApiAbort, Fail, Die, PageCommitFails, Retry, Crash, Fault
  <2> QED
    BY <1>1, <2>1 DEF Analysed
<1>3. ASSUME NEW d \in Delivery, MarkCompleted(d)
      PROVE  Analysed'
  <2>1. pc'[d] = "completed"
    BY <1>3 DEF MarkCompleted, Goto, TypeOK
  <2> QED
    BY <2>1 DEF Analysed
<1>4. ASSUME NEW d \in Delivery, RequestAnalysis(d)
      PROVE  Analysed'
  BY <1>1, <1>4 DEF RequestAnalysis, Analysed
<1>5. ASSUME row'.status = "completed" => row.status = "completed",
             UNCHANGED <<analyses, faults>>,
             \A e \in Delivery : pc[e] = "completed" => pc'[e] = "completed"
      PROVE  Analysed'
  BY <1>5 DEF Analysed
<1>6. CASE ApiStep \/ UNCHANGED vars
           \/ \E d, next \in Delivery : Repeat(d, next)
  <2>1. UNCHANGED <<analyses, faults>>
    BY <1>6 DEF ApiStep, ApiCreate, ApiSend, ApiCommit, Repeat, vars
  <2>2. row'.status = "completed" => row.status = "completed"
    BY <1>6, NewRowsFacts DEF ApiStep, ApiCreate, ApiSend, ApiCommit, Repeat, vars
  <2>3. \A e \in Delivery : pc[e] = "completed" => pc'[e] = "completed"
    BY <1>6 DEF ApiStep, ApiCreate, ApiSend, ApiCommit, Repeat, Goto, vars, TypeOK
  <2> QED
    BY <1>5, <2>1, <2>2, <2>3
<1>7. ASSUME NEW d \in Delivery,
             \/ Start(d) \/ Recreate(d) \/ RecreateConflicts(d) \/ MarkRunning(d)
             \/ SetTotal(d) \/ BeginWithSitemap(d) \/ BeginWithoutSitemap(d)
             \/ FinalCounts(d) \/ PageStep(d)
      PROVE  Analysed'
  <2>1. UNCHANGED <<analyses, faults>>
    BY <1>7 DEF Start, Recreate, RecreateConflicts, MarkRunning, SetTotal,
         BeginWithSitemap, BeginWithoutSitemap, FinalCounts, PageStep, PageFetched,
         PageFails, PageCommits, PageCounted
  <2>2. row'.status = "completed" => row.status = "completed"
    <3>1. CASE \/ Start(d) \/ RecreateConflicts(d) \/ SetTotal(d) \/ BeginWithoutSitemap(d)
               \/ \E p \in Page : PageFetched(d, p) \/ PageFails(d, p) \/ PageCounted(d, p)
      BY <3>1 DEF Start, RecreateConflicts, SetTotal, BeginWithoutSitemap, PageFetched,
                  PageFails, PageCounted
    <3>2. CASE Recreate(d)
      BY <3>2, NewRowsFacts DEF Recreate
    <3>3. CASE \/ MarkRunning(d) \/ BeginWithSitemap(d) \/ FinalCounts(d)
               \/ \E p \in Page : PageCommits(d, p)
      BY <3>3, WritesOfMarkRunning, WritesOfBegin, WritesOfFinalCounts, WritesOfPage
    <3> QED
      BY <1>7, <3>1, <3>2, <3>3 DEF PageStep
  <2>3. \A e \in Delivery : pc[e] = "completed" => pc'[e] = "completed"
    BY <1>7 DEF Start, Recreate, RecreateConflicts, MarkRunning, SetTotal,
         BeginWithSitemap, BeginWithoutSitemap, FinalCounts, PageStep, PageFetched,
         PageFails, PageCommits, PageCounted, Goto, TypeOK
  <2> QED
    BY <1>5, <2>1, <2>2, <2>3
<1> QED
  BY <1>2, <1>3, <1>4, <1>6, <1>7 DEF Next, TaskStep

\* When nothing fails, a job that is completed when every delivery has ended was
\* followed by a request for its analysis.
THEOREM OnlyFaultsLoseAnalysis == Spec => []AnalysisLostOnlyByFault
<1>1. Init => Analysed
  BY NewRowsFacts DEF Init, Analysed
<1>2. TypeOK /\ TypeOK' /\ Analysed /\ [Next]_vars => Analysed'
  BY AnalysedStep
<1>3. Analysed => AnalysisLostOnlyByFault
  BY DEF Analysed, AnalysisLostOnlyByFault, Quiet, Ended
<1> QED
  BY <1>1, <1>2, <1>3, JobTypeCorrect, PTL DEF Spec
=============================================================================
