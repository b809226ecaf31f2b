------------------------ MODULE CrawlSchedulerProofs ------------------------
(***************************************************************************)
(* Proofs about the worker pool for any set of URLs, any number of         *)
(* workers, any page budget and any depth.                                 *)
(***************************************************************************)
EXTENDS SiteCrawl, FiniteSetTheorems, SequenceTheorems, TLAPS

-----------------------------------------------------------------------------
(* Facts about the data *)

\* A set of URLs, or of workers, can be counted.
LEMMA Countable ==
  /\ \A S \in SUBSET Url : IsFiniteSet(S) /\ Cardinality(S) \in Nat
  /\ \A S \in SUBSET Worker : IsFiniteSet(S) /\ Cardinality(S) \in Nat
<1>1. ASSUME NEW S \in SUBSET Url PROVE IsFiniteSet(S) /\ Cardinality(S) \in Nat
  BY ConfigAssumption, FS_Subset, FS_CardinalityType
<1>2. ASSUME NEW S \in SUBSET Worker PROVE IsFiniteSet(S) /\ Cardinality(S) \in Nat
  BY ConfigAssumption, FS_Subset, FS_CardinalityType
<1> QED BY <1>1, <1>2

\* An order of a batch is a sequence of its URLs, each of them once.
LEMMA OrderOfBatch ==
  ASSUME NEW batch \in SUBSET Url,
         NEW order \in Bijection(1 .. Cardinality(batch), batch)
  PROVE  /\ order \in Seq(batch)
         /\ Len(order) = Cardinality(batch)
         /\ Range(order) = batch
         /\ IsInjective(order)
<1>1. Cardinality(batch) \in Nat
  BY Countable
<1>2. /\ order \in [1 .. Cardinality(batch) -> batch]
      /\ \A a, b \in 1 .. Cardinality(batch) : order[a] = order[b] => a = b
      /\ \A t \in batch : \E s \in 1 .. Cardinality(batch) : order[s] = t
  BY DEF Bijection, Injection, Surjection, IsInjective
<1>3. order \in Seq(batch) /\ Len(order) = Cardinality(batch)
  BY <1>1, <1>2
<1>4. Range(order) = batch
  BY <1>2 DEF Range
<1>5. IsInjective(order)
  BY <1>2 DEF IsInjective
<1> QED BY <1>3, <1>4, <1>5

\* What the submission of a batch accepts.
LEMMA AcceptableFacts ==
  ASSUME NEW links \in SUBSET Url, NEW d \in Int
  PROVE  /\ Acceptable(links, d) \in SUBSET Url
         /\ Acceptable(links, d) \cap visited = {}
         /\ Acceptable(links, d) # {} => d <= MaxDepth
BY ConfigAssumption DEF Acceptable, Followable

-----------------------------------------------------------------------------
(* Type correctness *)

\* A batch of URLs at a legal depth leaves the pool well typed.
LEMMA EnqueueType ==
  ASSUME TypeOK, NEW batch \in SUBSET Url, NEW d \in Nat,
         batch # {} => d <= MaxDepth, Enqueue(batch, d)
  PROVE  /\ queue' \in Seq(Url)
         /\ visited' \subseteq Url
         /\ depth' \in [Url -> -1 .. MaxDepth]
         /\ discovered' \in Nat
         /\ fate' \in [Url -> F!Fate]
<1>1. PICK order \in Bijection(1 .. Cardinality(batch), batch) :
        queue' = queue \o order
  BY DEF Enqueue
<1>2. queue' \in Seq(Url)
  <2>1. order \in Seq(Url)
    BY OrderOfBatch, SeqMonotonic
  <2> QED BY <1>1, <2>1, ConcatProperties DEF TypeOK
<1>3. depth' \in [Url -> -1 .. MaxDepth]
  <2>1. \A u \in Url : (IF u \in batch THEN d ELSE depth[u]) \in -1 .. MaxDepth
    BY ConfigAssumption DEF TypeOK
  <2> QED BY <2>1 DEF Enqueue
<1>4. discovered' \in Nat
  BY Countable DEF Enqueue, TypeOK
<1>5. visited' \subseteq Url /\ fate' \in [Url -> F!Fate]
  BY DEF Enqueue, TypeOK, F!Fate
<1> QED BY <1>2, <1>3, <1>4, <1>5

\* The initial values have their types.
LEMMA TypeHolds == Init => TypeOK
<1> SUFFICES ASSUME Init PROVE TypeOK
  OBVIOUS
<1>1. queue \in Seq(Url)
  BY EmptySeq DEF Init
<1>2. depth \in [Url -> -1 .. MaxDepth]
  BY ConfigAssumption DEF Init
<1>3. pc \in [Worker -> Location] /\ item \in [Worker -> Url \cup {NoUrl}]
  BY DEF Init, Location
<1>4. \A w \in Worker : item[w] \in Url <=> Holding(w)
  BY ConfigAssumption DEF Init, Holding
<1>5. fate \in [Url -> F!Fate]
  BY DEF Init, F!Fate
<1>6. /\ phase \in {"seed", "sitemap", "run"} /\ visited \subseteq Url
      /\ active \in Int /\ discovered \in Nat /\ crawled \in Nat
      /\ failed \in Nat /\ notifies \in Nat
  <2>1. phase = "seed" /\ visited = {} /\ active = 0 /\ discovered = 0
        /\ crawled = 0 /\ failed = 0 /\ notifies = 0
    BY DEF Init
  <2> QED BY <2>1
<1>7. cancelled \in BOOLEAN
  BY DEF Init
<1> QED BY <1>1, <1>2, <1>3, <1>4, <1>5, <1>6, <1>7 DEF TypeOK

\* No step takes a variable out of its type.
LEMMA TypeKept == TypeOK /\ [Next]_vars => TypeOK'
<1> SUFFICES ASSUME TypeOK, [Next]_vars PROVE TypeOK'
  OBVIOUS
<1>1. CASE SubmitSeed
  <2> DEFINE batch == {Seed} \ (Ignored \cup visited)
  <2>1. batch \in SUBSET Url /\ 0 \in Nat /\ 0 <= MaxDepth /\ Enqueue(batch, 0)
    BY <1>1, ConfigAssumption DEF SubmitSeed
  <2>2. /\ queue' \in Seq(Url) /\ visited' \subseteq Url
        /\ depth' \in [Url -> -1 .. MaxDepth]
        /\ discovered' \in Nat /\ fate' \in [Url -> F!Fate]
    BY <2>1, EnqueueType
  <2> QED BY <1>1, <2>2 DEF SubmitSeed, TypeOK, Holding
<1>2. ASSUME NEW urls \in SUBSET Url, SubmitSitemap(urls) PROVE TypeOK'
  <2> DEFINE batch == Acceptable(urls, 0)
  <2>1. batch \in SUBSET Url /\ 0 <= MaxDepth /\ Enqueue(batch, 0)
    BY <1>2, ConfigAssumption, AcceptableFacts DEF SubmitSitemap
  <2>2. /\ queue' \in Seq(Url) /\ visited' \subseteq Url
        /\ depth' \in [Url -> -1 .. MaxDepth]
        /\ discovered' \in Nat /\ fate' \in [Url -> F!Fate]
    BY <2>1, EnqueueType
  <2>3. notifies' \in Nat
    BY <1>2, <2>1, Countable DEF SubmitSitemap, Scheduled, TypeOK
  <2> QED BY <1>2, <2>2, <2>3 DEF SubmitSitemap, TypeOK, Holding
<1>3. CASE Notify
  <2>1. notifies' \in Nat
    BY <1>3 DEF Notify, TypeOK
  <2> QED BY <1>3, <2>1 DEF Notify, NotifyAll, TypeOK, Location, Holding, counterVars
<1>4. ASSUME NEW w \in Worker, AtLockStep(w) PROVE TypeOK'
  <2>1. CASE ExitExhausted(w)
    BY <2>1 DEF ExitExhausted, AtLock, NotifyAll, TypeOK, Location, Holding,
                poolVars, counterVars
  <2>2. CASE ExitCancelled(w)
    BY <2>2 DEF ExitCancelled, AtLock, TypeOK, Location, Holding,
                poolVars, counterVars
  <2>3. CASE Wait(w)
    BY <2>3 DEF Wait, AtLock, TypeOK, Location, Holding, poolVars, counterVars
  <2>4. CASE Drop(w)
    <3>1. Head(queue) \in Url /\ Tail(queue) \in Seq(Url)
      BY <2>4, HeadTailProperties DEF Drop, TypeOK
    <3> QED BY <2>4, <3>1 DEF Drop, TypeOK, Holding, F!Fate, counterVars
  <2>5. CASE Take(w)
    <3>1. Head(queue) \in Url /\ Tail(queue) \in Seq(Url)
      BY <2>5, HeadTailProperties DEF Take, TypeOK
    <3> QED BY <2>5, <3>1 DEF Take, AtLock, TypeOK, Location, Holding, F!Fate, counterVars
  <2> QED BY <1>4, <2>1, <2>2, <2>3, <2>4, <2>5 DEF AtLockStep
<1>5. ASSUME NEW w \in Worker, NEW found \in SUBSET Url, Discover(w, found)
      PROVE  TypeOK'
  <2> DEFINE d == depth[item[w]] + 1
             batch == Acceptable(found, d)
  <2>1. item[w] \in Url /\ d \in Nat
    BY <1>5, ConfigAssumption DEF Discover, TypeOK, Holding
  <2>2. batch \in SUBSET Url /\ (batch # {} => d <= MaxDepth) /\ Enqueue(batch, d)
    BY <1>5, <2>1, AcceptableFacts DEF Discover
  <2>3. /\ queue' \in Seq(Url) /\ visited' \subseteq Url
        /\ depth' \in [Url -> -1 .. MaxDepth]
        /\ discovered' \in Nat /\ fate' \in [Url -> F!Fate]
    BY <2>1, <2>2, EnqueueType
  <2>4. notifies' \in Nat
    BY <1>5, <2>2, Countable DEF Discover, Scheduled, TypeOK
  <2> QED BY <1>5, <2>3, <2>4 DEF Discover, TypeOK, Location, Holding
<1>6. ASSUME NEW w \in Worker, Succeed(w) PROVE TypeOK'
  BY <1>6 DEF Succeed, TypeOK, Location, Holding, F!Fate, poolVars
<1>7. ASSUME NEW w \in Worker, Fail(w) PROVE TypeOK'
  BY <1>7 DEF Fail, TypeOK, Location, Holding, F!Fate, poolVars
<1>8. ASSUME NEW w \in Worker, Settle(w) PROVE TypeOK'
  BY <1>8, ConfigAssumption
  DEF Settle, NotifyAll, TypeOK, Location, Holding, counterVars
<1>9. CASE Cancel
  BY <1>9 DEF Cancel, TypeOK, Holding, counterVars
<1>10. CASE UNCHANGED vars
  BY <1>10 DEF vars, poolVars, counterVars, TypeOK, Holding
<1> QED BY <1>1, <1>2, <1>3, <1>4, <1>5, <1>6, <1>7, <1>8, <1>9, <1>10
        DEF Next, WorkStep, Finished

\* Every variable keeps its type, for every instance of the constants.
THEOREM TypeCorrect == Spec => []TypeOK
BY TypeHolds, TypeKept, PTL DEF Spec
-----------------------------------------------------------------------------
(* How a step moves the workers *)

\* Only Take adds to the workers in flight, one at a time; a page leaves them
\* when it is counted, and its worker leaves the busy ones when it settles.
LEMMA WorkerMoves ==
  ASSUME TypeOK, [Next]_vars
  PROVE  \/ Busy' = Busy /\ InFlight' = InFlight /\ active' = active
         \/ \E w \in Worker \ Busy : /\ Take(w) /\ active' = active + 1
              /\ Busy' = Busy \cup {w} /\ InFlight' = InFlight \cup {w}
         \/ \E w \in InFlight : /\ (Succeed(w) \/ Fail(w)) /\ active' = active
              /\ Busy' = Busy /\ InFlight' = InFlight \ {w}
         \/ \E w \in Busy \ InFlight : /\ Settle(w) /\ active' = active - 1
              /\ Busy' = Busy \ {w} /\ InFlight' = InFlight
<1> USE DEF Busy, InFlight, Holding, Uncounted
<1>1. ASSUME UNCHANGED <<pc, active>>
      PROVE  Busy' = Busy /\ InFlight' = InFlight /\ active' = active
  BY <1>1
<1>2. CASE Notify
  BY <1>2 DEF Notify, NotifyAll, TypeOK
<1>3. ASSUME NEW w \in Worker, ExitExhausted(w) \/ ExitCancelled(w) \/ Wait(w)
      PROVE  Busy' = Busy /\ InFlight' = InFlight /\ active' = active
  BY <1>3 DEF ExitExhausted, ExitCancelled, Wait, AtLock, NotifyAll, TypeOK, poolVars
<1>4. ASSUME NEW w \in Worker, Take(w)
      PROVE  /\ w \in Worker \ Busy /\ active' = active + 1
             /\ Busy' = Busy \cup {w} /\ InFlight' = InFlight \cup {w}
  BY <1>4 DEF Take, AtLock, TypeOK
<1>5. ASSUME NEW w \in Worker, NEW found \in SUBSET Url, Discover(w, found)
      PROVE  Busy' = Busy /\ InFlight' = InFlight /\ active' = active
  BY <1>5 DEF Discover, TypeOK
<1>6. ASSUME NEW w \in Worker, Succeed(w) \/ Fail(w)
      PROVE  /\ w \in InFlight /\ active' = active
             /\ Busy' = Busy /\ InFlight' = InFlight \ {w}
  BY <1>6 DEF Succeed, Fail, TypeOK, poolVars
<1>7. ASSUME NEW w \in Worker, Settle(w)
      PROVE  /\ w \in Busy \ InFlight /\ active' = active - 1
             /\ Busy' = Busy \ {w} /\ InFlight' = InFlight
  BY <1>7 DEF Settle, NotifyAll, TypeOK
<1>8. CASE SubmitSeed \/ Cancel \/ UNCHANGED vars
  BY <1>1, <1>8 DEF SubmitSeed, Cancel, vars, poolVars
<1>9. ASSUME NEW urls \in SUBSET Url, SubmitSitemap(urls)
      PROVE  Busy' = Busy /\ InFlight' = InFlight /\ active' = active
  BY <1>1, <1>9 DEF SubmitSitemap
<1>10. ASSUME NEW w \in Worker, Drop(w)
       PROVE  Busy' = Busy /\ InFlight' = InFlight /\ active' = active
  BY <1>1, <1>10 DEF Drop
<1> HIDE DEF Busy, InFlight, Holding, Uncounted
<1> QED BY <1>2, <1>3, <1>4, <1>5, <1>6, <1>7, <1>8, <1>9, <1>10
        DEF Next, AtLockStep, WorkStep, Finished, Notify

-----------------------------------------------------------------------------
(* The page budget *)

\* The pool never crawls more than max_pages plus one page for every worker
\* beyond the first, however the workers interleave.
THEOREM OvershootIsBounded == Spec => []OvershootBound
<1> DEFINE N == Cardinality(Worker)
<1>0. N \in Nat /\ N >= 1 /\ MaxPages \in Nat /\ MaxPages >= 1
  BY ConfigAssumption, Countable, FS_EmptySet
<1>1. Init => OvershootBound
  <2> SUFFICES ASSUME Init PROVE OvershootBound
    OBVIOUS
  <2>1. InFlight = {} /\ crawled = 0
    BY DEF Init, InFlight, Uncounted
  <2> QED BY <2>1, <1>0, FS_EmptySet DEF OvershootBound
<1>2. TypeOK /\ OvershootBound /\ [Next]_vars => OvershootBound'
  <2> SUFFICES ASSUME TypeOK, OvershootBound, [Next]_vars PROVE OvershootBound'
    OBVIOUS
  <2> DEFINE n == Cardinality(InFlight)
             np == Cardinality(InFlight')
  <2>0. /\ IsFiniteSet(InFlight) /\ n \in Nat /\ n <= N /\ crawled \in Nat
        /\ InFlight' \subseteq Worker /\ np \in Nat /\ np <= N
    BY Countable, ConfigAssumption, FS_Subset DEF InFlight, TypeOK
  <2>1. ASSUME NEW w \in Worker, Take(w) PROVE OvershootBound'
    <3>1. crawled' = crawled /\ crawled <= MaxPages - 1
      BY <2>1, <1>0, <2>0 DEF Take, BudgetLeft, counterVars
    <3> QED BY <3>1, <2>0, <1>0 DEF OvershootBound
  <2>2. ASSUME NEW w \in InFlight, Succeed(w) \/ Fail(w), InFlight' = InFlight \ {w}
        PROVE OvershootBound'
    <3>1. np = n - 1
      BY <2>0, <2>2, FS_RemoveElement
    <3>2. crawled' = crawled \/ crawled' = crawled + 1
      BY <2>2 DEF Succeed, Fail
    <3> QED BY <3>1, <3>2, <2>0, <1>0 DEF OvershootBound
  <2>3. ASSUME InFlight' = InFlight, crawled' = crawled PROVE OvershootBound'
    BY <2>3 DEF OvershootBound
  <2>4. \/ crawled' = crawled
        \/ \E w \in Worker : Succeed(w) \/ Fail(w)
    BY DEF Next, SubmitSeed, SubmitSitemap, Notify, AtLockStep, ExitExhausted,
           ExitCancelled, Wait, Drop, Take, WorkStep, Discover, Settle, Cancel,
           Finished, vars, counterVars
  <2>5. ASSUME NEW w \in Worker, Succeed(w) \/ Fail(w)
        PROVE  w \in InFlight /\ InFlight' = InFlight \ {w}
    BY <2>5 DEF Succeed, Fail, InFlight, Uncounted, TypeOK
  <2> QED BY <2>1, <2>2, <2>3, <2>4, <2>5, WorkerMoves
<1>3. QED BY <1>1, <1>2, TypeCorrect, PTL DEF Spec
-----------------------------------------------------------------------------
(* Every URL in one place *)

\* Appending a sequence of other elements keeps a sequence without repetition.
LEMMA ConcatRange ==
  ASSUME NEW S, NEW s \in Seq(S), NEW t \in Seq(S)
  PROVE  /\ Range(s \o t) = Range(s) \cup Range(t)
         /\ IsInjective(s) /\ IsInjective(t) /\ Range(s) \cap Range(t) = {}
              => IsInjective(s \o t)
<1> DEFINE m == Len(s)
           n == Len(t)
           c == s \o t
<1>1. /\ m \in Nat /\ n \in Nat /\ DOMAIN s = 1 .. m /\ DOMAIN t = 1 .. n
      /\ c \in Seq(S) /\ Len(c) = m + n
      /\ \A i \in 1 .. (m + n) : c[i] = IF i <= m THEN s[i] ELSE t[i - m]
  BY LenProperties, ConcatProperties
<1>2. DOMAIN c = 1 .. (m + n)
  BY <1>1, LenProperties
<1> HIDE DEF m, n, c
<1>3. ASSUME NEW i \in 1 .. (m + n), i <= m
      PROVE  i \in 1 .. m /\ c[i] = s[i] /\ c[i] \in Range(s)
  <2>1. i \in 1 .. m /\ c[i] = s[i]
    BY <1>1, <1>3
  <2> QED BY <2>1, <1>1 DEF Range
<1>4. ASSUME NEW i \in 1 .. (m + n), ~(i <= m)
      PROVE  i - m \in 1 .. n /\ c[i] = t[i - m] /\ c[i] \in Range(t)
  <2>1. i - m \in 1 .. n /\ c[i] = t[i - m]
    BY <1>1, <1>4
  <2> QED BY <2>1, <1>1 DEF Range
<1>5. ASSUME NEW x \in Range(s) PROVE x \in Range(c)
  <2>1. PICK i \in 1 .. m : s[i] = x
    BY <1>1, <1>5 DEF Range
  <2>2. i \in 1 .. (m + n) /\ c[i] = x
    BY <1>1, <2>1
  <2> QED BY <2>2, <1>2 DEF Range
<1>6. ASSUME NEW x \in Range(t) PROVE x \in Range(c)
  <2>1. PICK i \in 1 .. n : t[i] = x
    BY <1>1, <1>6 DEF Range
  <2>2. m + i \in 1 .. (m + n) /\ ~(m + i <= m) /\ (m + i) - m = i
    BY <1>1, <2>1
  <2>3. c[m + i] = x
    BY <1>1, <2>1, <2>2
  <2> QED BY <2>2, <2>3, <1>2 DEF Range
<1>7. ASSUME NEW x \in Range(c) PROVE x \in Range(s) \cup Range(t)
  <2>1. PICK i \in 1 .. (m + n) : c[i] = x
    BY <1>2, <1>7 DEF Range
  <2> QED BY <2>1, <1>3, <1>4
<1>8. ASSUME IsInjective(s), IsInjective(t), Range(s) \cap Range(t) = {},
             NEW i \in 1 .. (m + n), NEW j \in 1 .. (m + n), c[i] = c[j]
      PROVE  i = j
  <2>1. CASE i <= m /\ j <= m
    BY <1>1, <1>3, <1>8, <2>1 DEF IsInjective
  <2>2. CASE ~(i <= m) /\ ~(j <= m)
    <3>1. i - m \in 1 .. n /\ j - m \in 1 .. n /\ t[i - m] = t[j - m]
      BY <1>4, <1>8, <2>2
    <3>2. i - m = j - m
      BY <3>1, <1>1, <1>8 DEF IsInjective
    <3> QED BY <3>2, <1>1
  <2>3. CASE i <= m /\ ~(j <= m)
    BY <1>3, <1>4, <1>8, <2>3
  <2>4. CASE ~(i <= m) /\ j <= m
    BY <1>3, <1>4, <1>8, <2>4
  <2> QED BY <2>1, <2>2, <2>3, <2>4
<1>9. ASSUME IsInjective(s), IsInjective(t), Range(s) \cap Range(t) = {}
      PROVE  IsInjective(c)
  BY <1>2, <1>8, <1>9 DEF IsInjective
<1> QED BY <1>5, <1>6, <1>7, <1>9 DEF c

LEMMA QueueGrows ==
  ASSUME TypeOK, IsInjective(queue), NEW batch \in SUBSET Url,
         Range(queue) \cap batch = {}, NEW d, Enqueue(batch, d)
  PROVE  Range(queue') = Range(queue) \cup batch /\ IsInjective(queue')
<1>1. PICK order \in Bijection(1 .. Cardinality(batch), batch) :
        queue' = queue \o order
  BY DEF Enqueue
<1>2. /\ order \in Seq(Url) /\ queue \in Seq(Url)
      /\ Range(order) = batch /\ IsInjective(order)
  BY OrderOfBatch, SeqMonotonic DEF TypeOK
<1> QED BY <1>1, <1>2, ConcatRange

LEMMA QueueShrinks ==
  ASSUME TypeOK, IsInjective(queue), queue # <<>>
  PROVE  /\ Head(queue) \in Range(queue)
         /\ Range(Tail(queue)) = Range(queue) \ {Head(queue)}
         /\ IsInjective(Tail(queue))
<1> DEFINE n == Len(queue)
<1>1. /\ n \in Nat /\ n >= 1 /\ DOMAIN queue = 1 .. n /\ Head(queue) = queue[1]
      /\ Tail(queue) \in Seq(Url) /\ Len(Tail(queue)) = n - 1
      /\ \A i \in 1 .. n - 1 : Tail(queue)[i] = queue[i + 1]
  BY HeadTailProperties, LenProperties, EmptySeq DEF TypeOK
<1>2. DOMAIN Tail(queue) = 1 .. n - 1
  BY <1>1, LenProperties
<1> HIDE DEF n
<1>3. \A i, j \in 1 .. n : queue[i] = queue[j] => i = j
  BY <1>1 DEF IsInjective
<1>4. IsInjective(Tail(queue))
  BY <1>1, <1>2, <1>3 DEF IsInjective
<1>5. Range(Tail(queue)) \subseteq Range(queue) \ {Head(queue)}
  BY <1>1, <1>2, <1>3 DEF Range
<1>6. ASSUME NEW u \in Range(queue) \ {Head(queue)} PROVE u \in Range(Tail(queue))
  <2>1. PICK i \in 1 .. n : u = queue[i]
    BY <1>1 DEF Range
  <2>2. i # 1
    BY <1>1, <1>6, <2>1
  <2>3. i - 1 \in 1 .. n - 1 /\ Tail(queue)[i - 1] = u
    BY <1>1, <2>1, <2>2
  <2> QED BY <2>3, <1>2 DEF Range
<1> QED BY <1>1, <1>4, <1>5, <1>6 DEF Range

\* Accepting a batch of new URLs keeps every URL in one place.
LEMMA EnqueueKeepsPlaces ==
  ASSUME TypeOK, EachUrlInOnePlace, NEW batch \in SUBSET Url,
         batch \cap visited = {}, NEW d, Enqueue(batch, d),
         InFlight' = InFlight, item' = item
  PROVE  EachUrlInOnePlace'
<1> USE DEF EachUrlInOnePlace, Queued, F!With
<1>1. Range(queue) \cap batch = {}
  BY DEF TypeOK
<1>2. Range(queue') = Range(queue) \cup batch /\ IsInjective(queue')
  BY <1>1, QueueGrows
<1>3. \A u \in Url : fate'[u] = IF u \in batch THEN "queued" ELSE fate[u]
  BY DEF Enqueue
<1>4. \A u \in batch : fate[u] = "unseen"
  BY DEF TypeOK
<1>5. visited' = {u \in Url : fate'[u] # "unseen"}
  BY <1>3, <1>4 DEF Enqueue
<1>6. {u \in Url : fate'[u] = "queued"} = {u \in Url : fate[u] = "queued"} \cup batch
  BY <1>3
<1>7. {u \in Url : fate'[u] = "fetching"} = {u \in Url : fate[u] = "fetching"}
  BY <1>3, <1>4
<1> QED BY <1>2, <1>5, <1>6, <1>7

\* No URL is lost or fetched twice: a discovered URL is in exactly one of the
\* queue, the hands of one worker, or a final fate.
THEOREM UrlsStayInOnePlace == Spec => []EachUrlInOnePlace
<1>1. Init => EachUrlInOnePlace
  <2> SUFFICES ASSUME Init PROVE EachUrlInOnePlace
    OBVIOUS
  <2>1. /\ \A u \in Url : fate[u] = "unseen"
        /\ InFlight = {} /\ visited = {} /\ DOMAIN queue = {}
    BY DEF Init, InFlight, Uncounted
  <2> QED BY <2>1 DEF EachUrlInOnePlace, Queued, Range, IsInjective, F!With
<1>2. TypeOK /\ EachUrlInOnePlace /\ [Next]_vars => EachUrlInOnePlace'
  <2> SUFFICES ASSUME TypeOK, EachUrlInOnePlace, [Next]_vars
               PROVE  EachUrlInOnePlace'
    OBVIOUS
  <2>1. CASE SubmitSeed
    <3> DEFINE batch == {Seed} \ (Ignored \cup visited)
    <3>1. /\ batch \in SUBSET Url /\ batch \cap visited = {} /\ Enqueue(batch, 0)
          /\ pc' = pc /\ item' = item
      BY <2>1, ConfigAssumption DEF SubmitSeed
    <3> QED BY <3>1, EnqueueKeepsPlaces DEF InFlight, Uncounted
  <2>2. ASSUME NEW urls \in SUBSET Url, SubmitSitemap(urls)
        PROVE  EachUrlInOnePlace'
    <3> DEFINE batch == Acceptable(urls, 0)
    <3>1. /\ batch \in SUBSET Url /\ batch \cap visited = {} /\ Enqueue(batch, 0)
          /\ pc' = pc /\ item' = item
      BY <2>2, AcceptableFacts DEF SubmitSitemap
    <3> QED BY <3>1, EnqueueKeepsPlaces DEF InFlight, Uncounted
  <2>3. ASSUME NEW w \in Worker, NEW found \in SUBSET Url, Discover(w, found)
        PROVE  EachUrlInOnePlace'
    <3> DEFINE d == depth[item[w]] + 1
               batch == Acceptable(found, d)
    <3>1. d \in Int
      BY <2>3, ConfigAssumption DEF Discover, TypeOK, Holding
    <3>2. /\ batch \in SUBSET Url /\ batch \cap visited = {} /\ Enqueue(batch, d)
          /\ item' = item
      BY <2>3, <3>1, AcceptableFacts DEF Discover
    <3>3. InFlight' = InFlight
      BY <2>3 DEF Discover, InFlight, Uncounted, TypeOK
    <3> QED BY <3>2, <3>3, EnqueueKeepsPlaces
  <2>4. ASSUME NEW w \in Worker, Drop(w) PROVE EachUrlInOnePlace'
    <3> DEFINE u == Head(queue)
    <3>1. /\ u \in Range(queue) /\ Range(queue') = Range(queue) \ {u}
          /\ IsInjective(queue')
      BY <2>4, QueueShrinks DEF Drop, EachUrlInOnePlace
    <3>2. u \in Url /\ fate[u] = "queued"
      BY <3>1 DEF EachUrlInOnePlace, Queued, F!With
    <3>3. \A v \in Url : fate'[v] = IF v = u THEN "dropped" ELSE fate[v]
      BY <2>4, <3>2 DEF Drop, TypeOK
    <3>4. InFlight' = InFlight /\ item' = item /\ visited' = visited
      BY <2>4 DEF Drop, InFlight, Uncounted
    <3> HIDE DEF u
    <3> QED BY <3>1, <3>2, <3>3, <3>4 DEF EachUrlInOnePlace, Queued, F!With
  <2>5. ASSUME NEW w \in Worker, Take(w) PROVE EachUrlInOnePlace'
    <3> DEFINE u == Head(queue)
    <3>1. /\ u \in Range(queue) /\ Range(queue') = Range(queue) \ {u}
          /\ IsInjective(queue')
      BY <2>5, QueueShrinks DEF Take, EachUrlInOnePlace
    <3>2. u \in Url /\ fate[u] = "queued"
      BY <3>1 DEF EachUrlInOnePlace, Queued, F!With
    <3>3. \A v \in Url : fate'[v] = IF v = u THEN "fetching" ELSE fate[v]
      BY <2>5, <3>2 DEF Take, TypeOK
    <3>4. /\ InFlight' = InFlight \cup {w} /\ w \notin InFlight
          /\ item' = [item EXCEPT ![w] = u] /\ visited' = visited
      BY <2>5 DEF Take, AtLock, InFlight, Uncounted, TypeOK
    <3>5. \A v \in InFlight : item[v] # u /\ item'[v] = item[v]
      BY <3>2, <3>4 DEF EachUrlInOnePlace, F!With, InFlight, TypeOK
    <3>6. item'[w] = u
      BY <3>4 DEF TypeOK
    <3> HIDE DEF u
    <3>7. {item'[v] : v \in InFlight'} = {item[v] : v \in InFlight} \cup {u}
      BY <3>4, <3>5, <3>6
    <3> QED BY <3>1, <3>2, <3>3, <3>4, <3>5, <3>6, <3>7
            DEF EachUrlInOnePlace, Queued, F!With
  <2>6. ASSUME NEW w \in Worker, Succeed(w) \/ Fail(w) PROVE EachUrlInOnePlace'
    <3> DEFINE u == item[w]
    <3>1. /\ w \in InFlight /\ InFlight' = InFlight \ {w}
          /\ queue' = queue /\ item' = item /\ visited' = visited
      BY <2>6 DEF Succeed, Fail, InFlight, Uncounted, TypeOK, poolVars
    <3>2. u \in Url /\ fate[u] = "fetching"
      BY <3>1 DEF EachUrlInOnePlace, F!With
    <3>3. PICK f \in {"crawled", "failed"} : fate' = [fate EXCEPT ![u] = f]
      BY <2>6 DEF Succeed, Fail
    <3>4. \A v \in Url : fate'[v] = IF v = u THEN f ELSE fate[v]
      BY <3>2, <3>3 DEF TypeOK
    <3>5. {item'[v] : v \in InFlight'} = {item[v] : v \in InFlight} \ {u}
      BY <3>1 DEF EachUrlInOnePlace
    <3> HIDE DEF u
    <3> QED BY <3>1, <3>2, <3>4, <3>5 DEF EachUrlInOnePlace, Queued, F!With
  <2>7. ASSUME NEW w \in Worker, Settle(w) PROVE EachUrlInOnePlace'
    <3>1. InFlight' = InFlight /\ w \notin InFlight
      BY <2>7 DEF Settle, NotifyAll, InFlight, Uncounted, TypeOK
    <3>2. /\ \A v \in InFlight : item'[v] = item[v]
          /\ fate' = fate /\ queue' = queue /\ visited' = visited
      BY <2>7, <3>1 DEF Settle, TypeOK, InFlight
    <3> QED BY <3>1, <3>2 DEF EachUrlInOnePlace, Queued, F!With
  <2>8. ASSUME UNCHANGED <<fate, queue, visited, item>>, InFlight' = InFlight
        PROVE  EachUrlInOnePlace'
    BY <2>8 DEF EachUrlInOnePlace, Queued, F!With
  <2>9. CASE Notify \/ Cancel \/ UNCHANGED vars
    BY <2>8, <2>9 DEF Notify, NotifyAll, Cancel, vars, poolVars, InFlight,
                      Uncounted, TypeOK
  <2>10. ASSUME NEW w \in Worker, ExitExhausted(w) \/ ExitCancelled(w) \/ Wait(w)
         PROVE  EachUrlInOnePlace'
    BY <2>8, <2>10 DEF ExitExhausted, ExitCancelled, Wait, AtLock, NotifyAll,
                       poolVars, InFlight, Uncounted, TypeOK
  <2> QED BY <2>1, <2>2, <2>3, <2>4, <2>5, <2>6, <2>7, <2>9, <2>10
          DEF Next, AtLockStep, WorkStep, Finished
<1>3. QED BY <1>1, <1>2, TypeCorrect, PTL DEF Spec
-----------------------------------------------------------------------------
(* The counters *)

\* The counters of the pool agree with what happened to the URLs and with what
\* the workers are doing.
THEOREM CountersAgree == Spec => []CountersReconcile
<1>1. Init => CountersReconcile
  <2> SUFFICES ASSUME Init PROVE CountersReconcile
    OBVIOUS
  <2>1. /\ Busy = {} /\ visited = {} /\ F!With("crawled") = {} /\ F!With("failed") = {}
    BY DEF Init, Busy, Holding, F!With
  <2>2. discovered = 0 /\ crawled = 0 /\ failed = 0 /\ active = 0
    BY DEF Init
  <2> QED BY <2>1, <2>2, FS_EmptySet DEF CountersReconcile
<1>2. TypeOK /\ EachUrlInOnePlace /\ CountersReconcile /\ [Next]_vars
        => CountersReconcile'
  <2> SUFFICES ASSUME TypeOK, EachUrlInOnePlace, CountersReconcile, [Next]_vars
               PROVE  CountersReconcile'
    OBVIOUS
  <2>0. /\ IsFiniteSet(Busy) /\ IsFiniteSet(visited)
        /\ IsFiniteSet(F!With("crawled")) /\ IsFiniteSet(F!With("failed"))
    BY Countable DEF TypeOK, Busy, F!With
  <2>1. active' = Cardinality(Busy')
    <3>1. ASSUME NEW w \in Worker \ Busy, Busy' = Busy \cup {w}, active' = active + 1
          PROVE  active' = Cardinality(Busy')
      BY <2>0, <3>1, FS_AddElement DEF CountersReconcile
    <3>2. ASSUME NEW w \in Busy, Busy' = Busy \ {w}, active' = active - 1
          PROVE  active' = Cardinality(Busy')
      BY <2>0, <3>2, FS_RemoveElement DEF CountersReconcile
    <3>3. ASSUME Busy' = Busy, active' = active
          PROVE  active' = Cardinality(Busy')
      BY <3>3 DEF CountersReconcile
    <3> QED BY <3>1, <3>2, <3>3, WorkerMoves
  \* A submission counts what it marks visited.
  <2>2. ASSUME NEW batch \in SUBSET Url, NEW d, Enqueue(batch, d),
               batch \cap visited = {}, UNCHANGED <<crawled, failed>>
        PROVE  /\ discovered' = Cardinality(visited')
               /\ crawled' = Cardinality(F!With("crawled")')
               /\ failed' = Cardinality(F!With("failed")')
    <3>1. Cardinality(visited \cup batch) = Cardinality(visited) + Cardinality(batch)
      <4>1. IsFiniteSet(batch) /\ Cardinality(batch) \in Nat /\ Cardinality(visited) \in Nat
        BY Countable DEF TypeOK
      <4>2. visited \cap batch = {}
        BY <2>2
      <4>3. Cardinality(visited \cup batch)
              = Cardinality(visited) + Cardinality(batch) - Cardinality(visited \cap batch)
        BY <2>0, <4>1, FS_Union
      <4>4. Cardinality(visited \cap batch) = 0
        BY <4>2, FS_EmptySet
      <4> QED BY <4>1, <4>3, <4>4
    <3>2. \A u \in batch : fate[u] = "unseen"
      BY <2>2 DEF EachUrlInOnePlace
    <3>3. F!With("crawled")' = F!With("crawled") /\ F!With("failed")' = F!With("failed")
      BY <2>2, <3>2 DEF Enqueue, F!With
    <3> QED BY <2>2, <3>1, <3>3 DEF Enqueue, CountersReconcile
  <2>3. ASSUME SubmitSeed PROVE CountersReconcile'
    <3> DEFINE batch == {Seed} \ (Ignored \cup visited)
    <3>1. /\ batch \in SUBSET Url /\ batch \cap visited = {} /\ Enqueue(batch, 0)
          /\ UNCHANGED <<crawled, failed>>
      BY <2>3, ConfigAssumption DEF SubmitSeed
    <3> HIDE DEF batch
    <3> QED BY <2>1, <2>2, <3>1 DEF CountersReconcile
  <2>4. ASSUME NEW urls \in SUBSET Url, SubmitSitemap(urls) PROVE CountersReconcile'
    <3> DEFINE batch == Acceptable(urls, 0)
    <3>1. /\ batch \in SUBSET Url /\ batch \cap visited = {} /\ Enqueue(batch, 0)
          /\ UNCHANGED <<crawled, failed>>
      BY <2>4, AcceptableFacts DEF SubmitSitemap
    <3> HIDE DEF batch
    <3> QED BY <2>1, <2>2, <3>1 DEF CountersReconcile
  <2>5. ASSUME NEW w \in Worker, NEW found \in SUBSET Url, Discover(w, found)
        PROVE  CountersReconcile'
    <3> DEFINE d == depth[item[w]] + 1
               batch == Acceptable(found, d)
    <3>1. d \in Int
      BY <2>5, ConfigAssumption DEF Discover, TypeOK, Holding
    <3>2. /\ batch \in SUBSET Url /\ batch \cap visited = {} /\ Enqueue(batch, d)
          /\ UNCHANGED <<crawled, failed>>
      BY <2>5, <3>1, AcceptableFacts DEF Discover
    <3> HIDE DEF batch, d
    <3> QED BY <2>1, <2>2, <3>2 DEF CountersReconcile
  <2>6. ASSUME NEW w \in Worker, Succeed(w) \/ Fail(w) PROVE CountersReconcile'
    <3> DEFINE u == item[w]
    <3>1. /\ u \in Url /\ fate[u] = "fetching" /\ discovered' = discovered
          /\ visited' = visited
      BY <2>6 DEF Succeed, Fail, EachUrlInOnePlace, InFlight, Uncounted, F!With,
                  poolVars
    <3>2. /\ u \notin F!With("crawled") /\ u \notin F!With("failed")
      BY <3>1 DEF F!With
    <3>3. CASE Succeed(w)
      <4>1. \A v \in Url : fate'[v] = IF v = u THEN "crawled" ELSE fate[v]
        BY <3>1, <3>3 DEF Succeed, TypeOK
      <4>2. /\ F!With("crawled")' = F!With("crawled") \cup {u}
            /\ F!With("failed")' = F!With("failed")
        BY <3>1, <4>1 DEF F!With
      <4>3. crawled' = Cardinality(F!With("crawled")')
        BY <2>0, <3>2, <3>3, <4>2, FS_AddElement DEF Succeed, CountersReconcile
      <4> QED BY <2>1, <3>1, <3>3, <4>2, <4>3 DEF Succeed, CountersReconcile
    <3>4. CASE Fail(w)
      <4>1. \A v \in Url : fate'[v] = IF v = u THEN "failed" ELSE fate[v]
        BY <3>1, <3>4 DEF Fail, TypeOK
      <4>2. /\ F!With("failed")' = F!With("failed") \cup {u}
            /\ F!With("crawled")' = F!With("crawled")
        BY <3>1, <4>1 DEF F!With
      <4>3. failed' = Cardinality(F!With("failed")')
        BY <2>0, <3>2, <3>4, <4>2, FS_AddElement DEF Fail, CountersReconcile
      <4> QED BY <2>1, <3>1, <3>4, <4>2, <4>3 DEF Fail, CountersReconcile
    <3> QED BY <2>6, <3>3, <3>4
  \* Drop and Take move a URL out of the queue, neither crawled nor failed.
  <2>7. ASSUME NEW w \in Worker, Drop(w) \/ Take(w) PROVE CountersReconcile'
    <3> DEFINE u == Head(queue)
    <3>1. u \in Range(queue)
      BY <2>7, QueueShrinks DEF Drop, Take, EachUrlInOnePlace
    <3>2. u \in Url /\ fate[u] = "queued"
      BY <3>1 DEF EachUrlInOnePlace, Queued, F!With
    <3>3. PICK f \in {"dropped", "fetching"} :
            \A v \in Url : fate'[v] = IF v = u THEN f ELSE fate[v]
      BY <2>7, <3>2 DEF Drop, Take, TypeOK
    <3>4. F!With("crawled")' = F!With("crawled") /\ F!With("failed")' = F!With("failed")
      BY <3>2, <3>3 DEF F!With
    <3>5. visited' = visited /\ UNCHANGED counterVars
      BY <2>7 DEF Drop, Take
    <3> QED BY <2>1, <3>4, <3>5 DEF CountersReconcile, counterVars
  <2>8. ASSUME UNCHANGED <<fate, visited, discovered, crawled, failed>>
        PROVE  CountersReconcile'
    BY <2>1, <2>8 DEF CountersReconcile, F!With
  <2>9. \/ UNCHANGED <<fate, visited, discovered, crawled, failed>>
        \/ SubmitSeed
        \/ \E urls \in SUBSET Url : SubmitSitemap(urls)
        \/ \E w \in Worker : \/ Drop(w) \/ Take(w) \/ Succeed(w) \/ Fail(w)
                            \/ \E found \in SUBSET Url : Discover(w, found)
    BY DEF Next, Notify, AtLockStep, ExitExhausted, ExitCancelled, Wait, WorkStep,
           Settle, Cancel, Finished, vars, poolVars, counterVars
  <2> QED BY <2>3, <2>4, <2>5, <2>6, <2>7, <2>8, <2>9
<1>3. QED BY <1>1, <1>2, TypeCorrect, UrlsStayInOnePlace, PTL DEF Spec
-----------------------------------------------------------------------------
(* Termination only when exhausted *)

\* ExitOnlyWhenExhausted is not inductive: it has to know that the pool does
\* nothing before run(), and that active counts every busy worker.
BeforeRun ==
  phase # "run" => /\ \A w \in Worker : pc[w] = "ready"
                   /\ \A u \in Url : fate[u] \in {"unseen", "queued"}

NothingLeft ==
  (\E w \in Worker : pc[w] = "exited") /\ ~cancelled => queue = <<>> /\ Busy = {}

ExitInv == BeforeRun /\ NothingLeft

LEMMA BusyIsActive ==
  ASSUME TypeOK, CountersReconcile
  PROVE  /\ active \in Nat /\ (active = 0 <=> Busy = {})
         /\ InFlight \subseteq Busy
<1>1. IsFiniteSet(Busy) /\ Cardinality(Busy) \in Nat
  BY Countable DEF Busy
<1> QED BY <1>1, FS_EmptySet
        DEF CountersReconcile, InFlight, Busy, Holding, Uncounted

LEMMA ExitInvariance == Spec => []ExitInv
<1>1. Init => ExitInv
  BY DEF Init, ExitInv, BeforeRun, NothingLeft
<1>2. TypeOK /\ EachUrlInOnePlace /\ CountersReconcile /\ ExitInv /\ [Next]_vars
        => ExitInv'
  <2> SUFFICES ASSUME TypeOK, EachUrlInOnePlace, CountersReconcile, ExitInv,
                      [Next]_vars
               PROVE  ExitInv'
    OBVIOUS
  <2>1. ASSUME NEW batch, NEW d, Enqueue(batch, d), pc' = pc, phase # "run"
        PROVE  ExitInv'
    <3>1. \A u \in Url : fate'[u] \in {"unseen", "queued"}
      BY <2>1 DEF Enqueue, ExitInv, BeforeRun
    <3> QED BY <2>1, <3>1 DEF ExitInv, BeforeRun, NothingLeft
  <2>2. CASE SubmitSeed
    BY <2>1, <2>2 DEF SubmitSeed
  <2>3. ASSUME NEW urls \in SUBSET Url, SubmitSitemap(urls) PROVE ExitInv'
    BY <2>1, <2>3 DEF SubmitSitemap
  <2>4. CASE Notify
    <3>1. \A w \in Worker : /\ pc[w] = "ready" => pc'[w] = "ready"
                            /\ pc'[w] = "exited" <=> pc[w] = "exited"
      BY <2>4 DEF Notify, NotifyAll, TypeOK
    <3>2. Busy' = Busy
      BY <2>4 DEF Notify, NotifyAll, TypeOK, Busy, Holding
    <3> QED BY <2>4, <3>1, <3>2 DEF Notify, ExitInv, BeforeRun, NothingLeft
  <2>5. ASSUME NEW w \in Worker, ExitExhausted(w) PROVE ExitInv'
    <3>1. queue = <<>> /\ Busy = {}
      BY <2>5, BusyIsActive DEF ExitExhausted, Exhausted
    <3>2. Busy' = Busy
      BY <2>5 DEF ExitExhausted, AtLock, NotifyAll, TypeOK, Busy, Holding
    <3> QED BY <2>5, <3>1, <3>2
            DEF ExitExhausted, AtLock, ExitInv, BeforeRun, NothingLeft, poolVars
  <2>6. ASSUME NEW w \in Worker, ExitCancelled(w) PROVE ExitInv'
    BY <2>6 DEF ExitCancelled, AtLock, ExitInv, BeforeRun, NothingLeft, poolVars
  <2>7. ASSUME NEW w \in Worker, Wait(w) PROVE ExitInv'
    <3>1. Busy' = Busy /\ \A v \in Worker : pc'[v] = "exited" => pc[v] = "exited"
      BY <2>7 DEF Wait, AtLock, TypeOK, Busy, Holding
    <3> QED BY <2>7, <3>1
            DEF Wait, AtLock, ExitInv, BeforeRun, NothingLeft, poolVars
  <2>8. ASSUME NEW w \in Worker, Drop(w) \/ Take(w) PROVE ExitInv'
    <3>1. queue # <<>> /\ ~cancelled /\ ~cancelled' /\ phase' = "run"
      BY <2>8 DEF Drop, Take, AtLock
    <3>2. \A v \in Worker : pc[v] # "exited" /\ pc'[v] # "exited"
      BY <2>8, <3>1 DEF Drop, Take, ExitInv, NothingLeft, TypeOK
    <3> QED BY <3>1, <3>2 DEF ExitInv, BeforeRun, NothingLeft
  \* A step of a busy worker: it runs, and nobody has left unless cancelled.
  <2>9. ASSUME NEW w \in Worker,
               \/ Succeed(w) \/ Fail(w) \/ Settle(w)
               \/ \E found \in SUBSET Url : Discover(w, found)
        PROVE  ExitInv'
    <3>1. w \in Busy /\ pc[w] # "ready" /\ phase' = phase /\ cancelled' = cancelled
      BY <2>9 DEF Succeed, Fail, Settle, Discover, Busy, Holding, poolVars
    <3>2. phase = "run"
      BY <3>1 DEF ExitInv, BeforeRun
    <3>3. \A v \in Worker : pc'[v] = "exited" => pc[v] = "exited"
      BY <2>9 DEF Succeed, Fail, Settle, Discover, NotifyAll, TypeOK
    <3> QED BY <3>1, <3>2, <3>3 DEF ExitInv, BeforeRun, NothingLeft
  <2>10. CASE Cancel \/ UNCHANGED vars
    BY <2>10 DEF Cancel, vars, poolVars, ExitInv, BeforeRun, NothingLeft, Busy,
                 Holding
  <2> QED BY <2>2, <2>3, <2>4, <2>5, <2>6, <2>7, <2>8, <2>9, <2>10
          DEF Next, AtLockStep, WorkStep, Finished
<1>3. QED BY <1>1, <1>2, TypeCorrect, UrlsStayInOnePlace, CountersAgree, PTL DEF Spec

\* "Terminates ONLY when queue is empty AND active_workers == 0", as long as
\* nobody cancels the crawl.
THEOREM ExitsOnlyWhenExhausted == Spec => []ExitOnlyWhenExhausted
<1>1. TypeOK /\ CountersReconcile /\ ExitInv => ExitOnlyWhenExhausted
  BY BusyIsActive DEF ExitInv, NothingLeft, ExitOnlyWhenExhausted
<1> QED BY <1>1, ExitInvariance, TypeCorrect, CountersAgree, PTL

\* A discovered URL is given up only once max_pages pages were crawled.
THEOREM DropsOnlyAtCap == Spec => []DroppedOnlyAtCap
<1>1. Init => DroppedOnlyAtCap
  BY DEF Init, DroppedOnlyAtCap, F!With
<1>2. TypeOK /\ DroppedOnlyAtCap /\ [Next]_vars => DroppedOnlyAtCap'
  <2> SUFFICES ASSUME TypeOK, DroppedOnlyAtCap, [Next]_vars PROVE DroppedOnlyAtCap'
    OBVIOUS
  <2>0. crawled' = crawled \/ crawled' = crawled + 1
    BY DEF Next, SubmitSeed, SubmitSitemap, Notify, AtLockStep, ExitExhausted,
           ExitCancelled, Wait, Drop, Take, WorkStep, Discover, Succeed, Fail,
           Settle, Cancel, Finished, vars, counterVars
  <2>1. crawled \in Nat /\ crawled' \in Nat /\ crawled' >= crawled /\ MaxPages \in Nat
    BY <2>0, ConfigAssumption DEF TypeOK
  <2>2. CASE \E w \in Worker : Drop(w)
    BY <2>1, <2>2 DEF Drop, BudgetLeft, DroppedOnlyAtCap, counterVars
  <2>3. CASE \A u \in Url : fate'[u] = "dropped" => fate[u] = "dropped"
    BY <2>1, <2>3 DEF DroppedOnlyAtCap, F!With
  <2>4. \/ \E w \in Worker : Drop(w)
        \/ \A u \in Url : fate'[u] = "dropped" => fate[u] = "dropped"
    BY DEF TypeOK, Next, SubmitSeed, SubmitSitemap, Enqueue, Notify, AtLockStep,
           ExitExhausted, ExitCancelled, Wait, Take, WorkStep, Discover, Succeed,
           Fail, Settle, Cancel, Finished, vars
  <2> QED BY <2>2, <2>3, <2>4
<1>3. QED BY <1>1, <1>2, TypeCorrect, PTL DEF Spec
-----------------------------------------------------------------------------
(* Refinement *)

Closed == (\E w \in Worker : pc[w] = "exited") /\ queue = <<>> /\ active = 0

PoolInv == TypeOK /\ EachUrlInOnePlace /\ CountersReconcile /\ ExitInv

LEMMA PoolInvariance == Spec => []PoolInv
BY TypeCorrect, UrlsStayInOnePlace, CountersAgree, ExitInvariance, PTL DEF PoolInv

\* A worker step that adds a batch of new URLs is a discovery of the frontier.
LEMMA EnqueueIsDiscover ==
  ASSUME PoolInv, NEW batch \in SUBSET Url, batch \cap visited = {},
         NEW d, Enqueue(batch, d), ~Closed, ~Closed',
         F!With("fetching") # {} \/ \A u \in Url : fate[u] \in {"unseen", "queued"}
  PROVE  F!Discover \/ fate' = fate
<1>1. CASE batch = {}
  <2>1. \A u \in Url : fate'[u] = fate[u]
    BY <1>1 DEF Enqueue
  <2> QED BY <1>1, <2>1 DEF Enqueue, PoolInv, TypeOK
<1>2. CASE batch # {}
  <2>1. batch \subseteq F!With("unseen")
    BY DEF PoolInv, EachUrlInOnePlace, F!With
  <2>2. fate' = [u \in Url |-> IF u \in batch THEN "queued" ELSE fate[u]]
    BY DEF Enqueue
  <2>3. F!Discovered = batch
    BY <2>1, <2>2 DEF F!Discovered, F!With
  <2> HIDE DEF F!Discovered
  <2> QED BY <1>2, <2>2, <2>3 DEF F!Discover, Closed
<1> QED BY <1>1, <1>2

LEMMA Stutter ==
  ASSUME fate' = fate, Closed' <=> Closed
  PROVE  [F!Next]_(F!frontierVars)
<1>1. Closed' = Closed
  BY DEF Closed
<1> QED BY <1>1 DEF F!frontierVars, Closed

\* The crawl may close when the queue is empty and no page is in flight.
LEMMA CloseStep ==
  ASSUME PoolInv, fate' = fate, queue = <<>>, InFlight = {}, Closed'
  PROVE  [F!Next]_(F!frontierVars)
<1>1. Range(queue) = {}
  BY DEF Range
<1>2. F!With("queued") \cup F!With("fetching") = {}
  BY <1>1 DEF PoolInv, EachUrlInOnePlace, Queued
<1> QED BY <1>2 DEF F!Next, F!Close, Closed

\* The worker pool implements the frontier: every step of a worker is a step of
\* the life of one URL, a discovery, the closing of the crawl, or invisible.
THEOREM PoolImplementsFrontier == Spec => ImplementsFrontier
<1>1. Init => F!Init
  <2> SUFFICES ASSUME Init PROVE F!Init
    OBVIOUS
  <2>1. fate = [u \in Url |-> "unseen"] /\ ~Closed
    BY ConfigAssumption DEF Init, Closed
  <2> QED BY <2>1 DEF F!Init, Closed
<1>2. PoolInv /\ [Next]_vars => [F!Next]_(F!frontierVars)
  <2> SUFFICES ASSUME PoolInv, [Next]_vars PROVE [F!Next]_(F!frontierVars)
    OBVIOUS
  <2>0. /\ active \in Nat /\ (active = 0 <=> Busy = {}) /\ InFlight \subseteq Busy
    BY BusyIsActive DEF PoolInv
  <2>1. ASSUME NEW batch \in SUBSET Url, F!Discover \/ fate' = fate,
               ~Closed, ~Closed'
        PROVE  [F!Next]_(F!frontierVars)
    BY <2>1, Stutter DEF F!Next
  <2>2. CASE SubmitSeed
    <3> DEFINE batch == {Seed} \ (Ignored \cup visited)
    <3>1. /\ batch \in SUBSET Url /\ batch \cap visited = {} /\ Enqueue(batch, 0)
          /\ pc' = pc /\ phase # "run"
      BY <2>2, ConfigAssumption DEF SubmitSeed
    <3>2. /\ ~Closed /\ ~Closed'
          /\ \A u \in Url : fate[u] \in {"unseen", "queued"}
      BY <3>1 DEF PoolInv, ExitInv, BeforeRun, Closed
    <3> HIDE DEF batch
    <3> QED BY <2>1, <3>1, <3>2, EnqueueIsDiscover
  <2>3. ASSUME NEW urls \in SUBSET Url, SubmitSitemap(urls)
        PROVE  [F!Next]_(F!frontierVars)
    <3> DEFINE batch == Acceptable(urls, 0)
    <3>1. /\ batch \in SUBSET Url /\ batch \cap visited = {} /\ Enqueue(batch, 0)
          /\ pc' = pc /\ phase # "run"
      BY <2>3, AcceptableFacts DEF SubmitSitemap
    <3>2. /\ ~Closed /\ ~Closed'
          /\ \A u \in Url : fate[u] \in {"unseen", "queued"}
      BY <3>1 DEF PoolInv, ExitInv, BeforeRun, Closed
    <3> HIDE DEF batch
    <3> QED BY <2>1, <3>1, <3>2, EnqueueIsDiscover
  <2>4. ASSUME NEW w \in Worker, NEW found \in SUBSET Url, Discover(w, found)
        PROVE  [F!Next]_(F!frontierVars)
    <3> DEFINE d == depth[item[w]] + 1
               batch == Acceptable(found, d)
    <3>1. d \in Int /\ w \in InFlight /\ active' = active
      BY <2>4, ConfigAssumption
      DEF Discover, PoolInv, TypeOK, Holding, InFlight, Uncounted
    <3>2. /\ batch \in SUBSET Url /\ batch \cap visited = {} /\ Enqueue(batch, d)
      BY <2>4, <3>1, AcceptableFacts DEF Discover
    <3>3. ~Closed /\ ~Closed'
      BY <2>0, <3>1 DEF Closed
    <3>4. F!With("fetching") # {}
      BY <3>1 DEF PoolInv, EachUrlInOnePlace
    <3> HIDE DEF batch, d
    <3> QED BY <2>1, <3>2, <3>3, <3>4, EnqueueIsDiscover
  <2>5. ASSUME NEW w \in Worker, Drop(w) PROVE [F!Next]_(F!frontierVars)
    <3> DEFINE u == Head(queue)
    <3>1. /\ queue # <<>> /\ ~cancelled /\ pc' = pc /\ u \in Range(queue)
          /\ fate' = [fate EXCEPT ![u] = "dropped"]
      BY <2>5, QueueShrinks DEF Drop, PoolInv, EachUrlInOnePlace
    <3>2. u \in Url /\ fate[u] = "queued"
      BY <3>1 DEF PoolInv, EachUrlInOnePlace, Queued, F!With
    <3>3. ~Closed /\ ~Closed'
      BY <3>1 DEF PoolInv, ExitInv, NothingLeft, Closed
    <3>4. Cardinality(F!With("crawled")) >= MaxPages
      BY <2>5, ConfigAssumption
      DEF Drop, BudgetLeft, PoolInv, TypeOK, CountersReconcile
    <3>5. F!Move(u, "queued", "dropped")
      BY <3>1, <3>2, <3>3 DEF F!Move, Closed
    <3>6. F!Cardinality(F!With("crawled")) = Cardinality(F!With("crawled"))
      BY DEF F!Cardinality, Cardinality
    <3>7. F!GiveUp(u)
      BY <3>3, <3>4, <3>5, <3>6 DEF F!GiveUp, Closed
    <3> QED BY <3>2, <3>7 DEF F!Next
  <2>6. ASSUME NEW w \in Worker, Take(w) PROVE [F!Next]_(F!frontierVars)
    <3> DEFINE u == Head(queue)
    <3>1. /\ queue # <<>> /\ active' = active + 1 /\ u \in Range(queue)
          /\ fate' = [fate EXCEPT ![u] = "fetching"]
      BY <2>6, QueueShrinks DEF Take, PoolInv, EachUrlInOnePlace
    <3>2. u \in Url /\ fate[u] = "queued"
      BY <3>1 DEF PoolInv, EachUrlInOnePlace, Queued, F!With
    <3>3. ~Closed /\ ~Closed'
      BY <2>0, <3>1 DEF Closed
    <3>4. F!Fetch(u)
      BY <3>1, <3>2, <3>3 DEF F!Fetch, F!Move, Closed
    <3> QED BY <3>2, <3>4 DEF F!Next
  <2>7. ASSUME NEW w \in Worker, Succeed(w) \/ Fail(w) PROVE [F!Next]_(F!frontierVars)
    <3> DEFINE u == item[w]
    <3>1. /\ w \in InFlight /\ active' = active
          /\ \/ fate' = [fate EXCEPT ![u] = "crawled"]
             \/ fate' = [fate EXCEPT ![u] = "failed"]
      BY <2>7 DEF Succeed, Fail, InFlight, Uncounted, poolVars
    <3>2. u \in Url /\ fate[u] = "fetching"
      BY <3>1 DEF PoolInv, EachUrlInOnePlace, F!With
    <3>3. ~Closed /\ ~Closed'
      BY <2>0, <3>1 DEF Closed
    <3>4. F!Settle(u)
      BY <3>1, <3>2, <3>3 DEF F!Settle, F!Move, Closed
    <3> QED BY <3>2, <3>4 DEF F!Next
  <2>8. ASSUME NEW w \in Worker, Settle(w) PROVE [F!Next]_(F!frontierVars)
    <3>1. /\ w \in Busy \ InFlight /\ Busy' = Busy \ {w} /\ active' = active - 1
          /\ queue' = queue /\ fate' = fate
      BY <2>8 DEF Settle, NotifyAll, PoolInv, TypeOK, Busy, InFlight, Holding, Uncounted
    <3>2. ~Closed
      BY <2>0, <3>1 DEF Closed
    <3>3. CASE Closed'
      <4>1. queue = <<>> /\ active = 1
        BY <2>0, <3>1, <3>3 DEF Closed
      <4>2. Busy = {w}
        <5>1. IsFiniteSet(Busy) /\ Cardinality(Busy) = 1
          BY <4>1, Countable DEF PoolInv, CountersReconcile, Busy
        <5>2. PICK v : Busy = {v}
          BY <5>1, FS_Singleton
        <5> QED BY <3>1, <5>2
      <4> QED BY <2>0, <3>1, <3>3, <4>1, <4>2, CloseStep
    <3> QED BY <3>1, <3>2, <3>3, Stutter
  <2>9. ASSUME NEW w \in Worker, ExitExhausted(w) PROVE [F!Next]_(F!frontierVars)
    <3>1. /\ queue = <<>> /\ active = 0 /\ fate' = fate /\ queue' = queue
          /\ active' = active /\ pc'[w] = "exited"
      BY <2>9 DEF ExitExhausted, Exhausted, NotifyAll, PoolInv, TypeOK, poolVars
    <3> QED BY <2>0, <3>1, CloseStep DEF Closed
  <2>10. ASSUME NEW w \in Worker, ExitCancelled(w) PROVE [F!Next]_(F!frontierVars)
    <3>1. fate' = fate /\ queue' = queue /\ active' = active
      BY <2>10 DEF ExitCancelled, poolVars
    <3>2. CASE queue = <<>> /\ active = 0
      <4>1. CASE Closed'
        BY <2>0, <3>1, <3>2, <4>1, CloseStep
      <4>2. CASE ~Closed'
        <5>1. \A v \in Worker : pc[v] = "exited" => pc'[v] = "exited"
          BY <2>10 DEF ExitCancelled, PoolInv, TypeOK
        <5>2. ~Closed
          BY <3>1, <4>2, <5>1 DEF Closed
        <5> QED BY <3>1, <4>2, <5>2, Stutter
      <4> QED BY <4>1, <4>2
    <3>3. CASE ~(queue = <<>> /\ active = 0)
      BY <3>1, <3>3, Stutter DEF Closed
    <3> QED BY <3>2, <3>3
  <2>11. ASSUME fate' = fate, queue' = queue, active' = active,
                \A v \in Worker : pc'[v] = "exited" <=> pc[v] = "exited"
         PROVE  [F!Next]_(F!frontierVars)
    BY <2>11, Stutter DEF Closed
  <2>12. CASE Notify \/ Cancel \/ UNCHANGED vars
    BY <2>11, <2>12 DEF Notify, NotifyAll, Cancel, vars, poolVars, PoolInv, TypeOK
  <2>13. ASSUME NEW w \in Worker, Wait(w) PROVE [F!Next]_(F!frontierVars)
    BY <2>11, <2>13 DEF Wait, AtLock, poolVars, PoolInv, TypeOK
  <2> QED BY <2>2, <2>3, <2>4, <2>5, <2>6, <2>7, <2>8, <2>9, <2>10, <2>12, <2>13
          DEF Next, AtLockStep, WorkStep, Finished
<1>3. QED BY <1>1, <1>2, PoolInvariance, PTL DEF Spec, ImplementsFrontier, F!Spec
-----------------------------------------------------------------------------
(* The pool on a site *)

\* A step on a site is a step of the pool: what the site gives is a set of URLs.
LEMMA SiteStep ==
  ASSUME TypeOK, site \in Site, [SiteNext]_siteVars
  PROVE  [Next]_vars /\ site' = site
<1>1. Starting[site] \in SUBSET Url
  BY DEF Starting, Named
<1>2. ASSUME NEW w \in Worker, pc[w] = "fetching"
      PROVE  Found[site][item[w]] \in SUBSET Url
  <2>1. item[w] \in Url
    BY <1>2 DEF TypeOK, Holding
  <2>2. Found[site][item[w]] =
          LET page == Page[site.links][item[w]]
          IN  IF page.is_html
              THEN Permitted[site.robots] \cap
                     Named({normalize_url_canonical(url) : url \in Enqueued(page, Chosen[site.choice])})
              ELSE {}
    BY <2>1 DEF Found
  <2> QED BY <2>2 DEF Named
<1>3. CASE UNCHANGED siteVars
  BY <1>3 DEF siteVars
<1>4. CASE SitemapsRead
  BY <1>1, <1>4 DEF SitemapsRead, Alone, Next
<1>5. ASSUME NEW w \in Worker, LinksRead(w) PROVE [Next]_vars /\ site' = site
  <2>1. pc[w] = "fetching"
    BY <1>5 DEF LinksRead, Alone, Discover
  <2> QED BY <1>2, <1>5, <2>1 DEF LinksRead, Alone, Next, WorkStep
<1>6. ASSUME NEW w \in Worker, Alone(Fail(w)) \/ Alone(Succeed(w)) \/ Alone(AtLockStep(w)) \/ Alone(Settle(w))
      PROVE  [Next]_vars /\ site' = site
  BY <1>6 DEF Alone, Next, WorkStep
<1>7. CASE Alone(SubmitSeed) \/ Alone(Notify) \/ Alone(Cancel) \/ Alone(Finished)
  BY <1>7 DEF Alone, Next
<1> QED BY <1>3, <1>4, <1>5, <1>6, <1>7 DEF SiteNext, SiteWork

LEMMA SiteTypes == SiteSpec => [](TypeOK /\ site \in Site)
<1>1. SiteInit => TypeOK /\ site \in Site
  BY TypeHolds DEF SiteInit
<1>2. TypeOK /\ site \in Site /\ [SiteNext]_siteVars => (TypeOK /\ site \in Site)'
  BY SiteStep, TypeKept
<1> QED BY <1>1, <1>2, PTL DEF SiteSpec

\* A crawl of a site is a crawl of the pool, so that what holds of the pool holds on every
\* site.
THEOREM SiteImplementsPool == SiteSpec => Spec
<1>1. SiteInit => Init
  BY DEF SiteInit
<1>2. TypeOK /\ site \in Site /\ [SiteNext]_siteVars => [Next]_vars
  BY SiteStep
<1> QED BY <1>1, <1>2, SiteTypes, PTL DEF SiteSpec, Spec

Begun == {"fetching", "crawled", "failed"}

\* New URLs leave the depth and the fate of the others alone.
LEMMA EnqueueKeeps ==
  ASSUME TypeOK, EachUrlInOnePlace, NEW batch \in SUBSET Url, batch \cap visited = {},
         NEW d, Enqueue(batch, d)
  PROVE  /\ visited \subseteq visited'
         /\ \A u \in visited : depth'[u] = depth[u]
         /\ \A u \in Url : fate[u] \in Begun => fate'[u] = fate[u]
         /\ \A u \in Url : fate'[u] = "crawled" => fate[u] = "crawled"
<1>1. visited \subseteq Url /\ visited = {u \in Url : fate[u] # "unseen"}
  BY DEF TypeOK, EachUrlInOnePlace
<1>2. /\ visited' = visited \cup batch
      /\ \A u \in Url : /\ depth'[u] = IF u \in batch THEN d ELSE depth[u]
                        /\ fate'[u] = IF u \in batch THEN "queued" ELSE fate[u]
  BY DEF Enqueue
<1>3. \A u \in Url : fate[u] \in Begun => u \in visited
  BY <1>1 DEF Begun
<1> QED BY <1>1, <1>2, <1>3

\* A page that a worker has had in hand stays one, URLs stay known at their depth, and a
\* page becomes crawled only when its worker succeeds.
LEMMA PoolMoves ==
  ASSUME TypeOK, EachUrlInOnePlace, [Next]_vars
  PROVE  /\ visited \subseteq visited'
         /\ \A u \in visited : depth'[u] = depth[u]
         /\ \A u \in Url : fate[u] \in Begun => fate'[u] \in Begun
         /\ cancelled => cancelled'
         /\ \A u \in Url : fate'[u] = "crawled" =>
              fate[u] = "crawled" \/ \E w \in Worker : Succeed(w) /\ item[w] = u
<1> DEFINE Keeps == /\ visited \subseteq visited'
                    /\ \A u \in visited : depth'[u] = depth[u]
                    /\ \A u \in Url : fate[u] \in Begun => fate'[u] = fate[u]
                    /\ \A u \in Url : fate'[u] = "crawled" => fate[u] = "crawled"
<1>1. CASE SubmitSeed
  <2> DEFINE batch == {Seed} \ (Ignored \cup visited)
  <2>1. batch \in SUBSET Url /\ batch \cap visited = {} /\ Enqueue(batch, 0) /\ cancelled' = cancelled
    BY <1>1, ConfigAssumption DEF SubmitSeed
  <2> QED BY <2>1, EnqueueKeeps
<1>2. ASSUME NEW urls \in SUBSET Url, SubmitSitemap(urls) PROVE Keeps /\ cancelled' = cancelled
  <2>1. /\ Acceptable(urls, 0) \in SUBSET Url /\ Acceptable(urls, 0) \cap visited = {}
        /\ Enqueue(Acceptable(urls, 0), 0) /\ cancelled' = cancelled
    BY <1>2, AcceptableFacts DEF SubmitSitemap
  <2> QED BY <2>1, EnqueueKeeps
<1>3. ASSUME NEW w \in Worker, NEW found \in SUBSET Url, Discover(w, found)
      PROVE  Keeps /\ cancelled' = cancelled
  <2> DEFINE d == depth[item[w]] + 1
             batch == Acceptable(found, d)
  <2>1. d \in Int
    BY <1>3, ConfigAssumption DEF Discover, TypeOK, Holding
  <2>2. batch \in SUBSET Url /\ batch \cap visited = {}
    BY <2>1, AcceptableFacts
  <2>3. Enqueue(batch, d) /\ cancelled' = cancelled
    BY <1>3 DEF Discover
  <2> QED BY <2>2, <2>3, EnqueueKeeps
<1>4. ASSUME NEW w \in Worker, Take(w) \/ Drop(w)
      PROVE  /\ UNCHANGED <<visited, depth, cancelled>>
             /\ \A u \in Url : fate[u] \in Begun => fate'[u] \in Begun
             /\ \A u \in Url : fate'[u] = "crawled" => fate[u] = "crawled"
  <2>1. queue # <<>> /\ queue \in Seq(Url)
    BY <1>4 DEF Take, Drop, TypeOK
  <2>2. Head(queue) \in Range(queue)
    BY <2>1, HeadTailProperties, LenProperties DEF Range
  <2>3. Head(queue) \in Url /\ fate[Head(queue)] = "queued"
    BY <2>2 DEF EachUrlInOnePlace, Queued, F!With
  <2>4. /\ UNCHANGED <<visited, depth, cancelled>>
        /\ \E f \in {"fetching", "dropped"} : fate' = [fate EXCEPT ![Head(queue)] = f]
    BY <1>4 DEF Take, Drop
  <2> QED BY <2>3, <2>4 DEF Begun, TypeOK
<1>5. ASSUME NEW w \in Worker, Succeed(w) \/ Fail(w)
      PROVE  /\ UNCHANGED <<visited, depth, cancelled>>
             /\ \A u \in Url : fate[u] \in Begun => fate'[u] \in Begun
             /\ \A u \in Url : fate'[u] = "crawled" => fate[u] = "crawled" \/ (Succeed(w) /\ item[w] = u)
  <2>1. UNCHANGED <<visited, depth, cancelled>> /\ fate \in [Url -> F!Fate]
    BY <1>5 DEF Succeed, Fail, TypeOK, poolVars
  <2>2. CASE Succeed(w)
    BY <2>1, <2>2 DEF Succeed, Begun
  <2>3. CASE Fail(w)
    BY <2>1, <2>3 DEF Fail, Begun
  <2> QED BY <1>5, <2>1, <2>2, <2>3
<1>6. ASSUME NEW w \in Worker, ExitExhausted(w) \/ ExitCancelled(w) \/ Wait(w) \/ Settle(w)
      PROVE  UNCHANGED <<visited, depth, fate, cancelled>>
  BY <1>6 DEF ExitExhausted, ExitCancelled, Wait, Settle, poolVars
<1>7. CASE Notify \/ Cancel \/ UNCHANGED vars
  BY <1>7 DEF Notify, Cancel, vars, poolVars
<1> QED BY <1>1, <1>2, <1>3, <1>4, <1>5, <1>6, <1>7 DEF Next, AtLockStep, WorkStep, Finished

\* The page that a worker still has in hand has had its links taken.
HandsFollow ==
  ~cancelled => \A w \in Worker : pc[w] = "persisting" /\ depth[item[w]] < MaxDepth
                                    => Followable(Found[site][item[w]]) \subseteq visited

\* The page in the hands of a worker is known and at work.
LEMMA PageInHand ==
  ASSUME TypeOK, EachUrlInOnePlace, NEW w \in Worker, pc[w] \in {"fetching", "persisting"}
  PROVE  item[w] \in visited /\ fate[item[w]] = "fetching" /\ depth[item[w]] \in -1 .. MaxDepth
<1>1. w \in InFlight
  BY DEF InFlight, Uncounted
<1>2. item[w] \in F!With("fetching")
  BY <1>1 DEF EachUrlInOnePlace
<1> QED BY <1>2 DEF F!With, EachUrlInOnePlace, TypeOK

\* What a worker takes from its page: all links that pass, but for the known ones.
LEMMA LinksTaken ==
  ASSUME TypeOK, EachUrlInOnePlace, site \in Site, NEW w \in Worker, LinksRead(w)
  PROVE  LET p == item[w] IN
         /\ pc[w] = "fetching" /\ p \in visited /\ fate[p] = "fetching" /\ depth[p] \in Int
         /\ \A u \in visited' \ visited :
              /\ u \in Found[site][p] /\ u \in Eligible \ Ignored
              /\ depth'[u] = depth[p] + 1 /\ depth'[u] <= MaxDepth
         /\ ~cancelled /\ depth[p] < MaxDepth => Followable(Found[site][p]) \subseteq visited'
         /\ item' = item /\ pc' = [pc EXCEPT ![w] = "persisting"]
<1> DEFINE p == item[w]
           d == depth[p] + 1
           batch == Acceptable(Found[site][p], d)
<1>1. pc[w] = "fetching" /\ Enqueue(batch, d) /\ item' = item /\ pc' = [pc EXCEPT ![w] = "persisting"]
  BY DEF LinksRead, Alone, Discover
<1>2. p \in visited /\ fate[p] = "fetching" /\ depth[p] \in -1 .. MaxDepth
  BY <1>1, PageInHand
<1>3. p \in Url /\ MaxDepth \in Nat /\ depth[p] \in Int /\ visited \subseteq Url
  BY <1>2, ConfigAssumption DEF TypeOK
<1>4. visited' = visited \cup batch /\ \A u \in Url : u \in batch => depth'[u] = d
  BY <1>1 DEF Enqueue
<1>5. \A u \in batch : u \in Found[site][p] /\ u \in Eligible \ Ignored /\ d <= MaxDepth
  BY <1>3 DEF Acceptable, Followable
<1>6. Eligible \subseteq Url
  BY ConfigAssumption
<1>7. ~cancelled /\ depth[p] < MaxDepth => batch = Followable(Found[site][p]) \ visited
  BY <1>3 DEF Acceptable
<1> QED BY <1>1, <1>2, <1>3, <1>4, <1>5, <1>6, <1>7

\* What the start takes: all that is listed and passes.
LEMMA SitemapsTaken ==
  ASSUME TypeOK, EachUrlInOnePlace, site \in Site, SitemapsRead
  PROVE  /\ \A u \in visited' \ visited :
              u \in Starting[site] /\ u \in Eligible \ Ignored /\ depth'[u] = 0
         /\ ~cancelled => Followable(Starting[site]) \subseteq visited'
         /\ item' = item /\ pc' = pc
<1> DEFINE batch == Acceptable(Starting[site], 0)
<1>1. Enqueue(batch, 0) /\ item' = item /\ pc' = pc
  BY DEF SitemapsRead, Alone, SubmitSitemap
<1>2. visited' = visited \cup batch /\ \A u \in Url : u \in batch => depth'[u] = 0
  BY <1>1 DEF Enqueue
<1>3. \A u \in batch : u \in Starting[site] /\ u \in Eligible \ Ignored
  BY DEF Acceptable, Followable
<1>4. Eligible \subseteq Url /\ ~(0 > MaxDepth)
  BY ConfigAssumption
<1>5. ~cancelled => batch = Followable(Starting[site]) \ visited
  BY <1>4 DEF Acceptable
<1> QED BY <1>1, <1>2, <1>3, <1>4, <1>5

\* Every other step knows the URLs it knew, or the seed besides, and leaves the workers'
\* pages alone.
LEMMA OtherSteps ==
  ASSUME TypeOK, site \in Site, [SiteNext]_siteVars, ~SitemapsRead,
         ~\E w \in Worker : LinksRead(w)
  PROVE  /\ visited' \subseteq visited \cup {Seed}
         /\ phase' = "run" => phase = "run"
         /\ \A w \in Worker : pc'[w] = "persisting" => pc[w] = "persisting" /\ item'[w] = item[w]
<1>1. CASE Alone(SubmitSeed)
  BY <1>1 DEF Alone, SubmitSeed, Enqueue
<1>2. CASE Alone(Notify)
  BY <1>2 DEF Alone, Notify, NotifyAll, TypeOK
<1>3. CASE Alone(Cancel) \/ Alone(Finished) \/ UNCHANGED siteVars
  BY <1>3 DEF Alone, Cancel, Finished, siteVars, vars, poolVars
<1>4. ASSUME NEW v \in Worker, ExitExhausted(v) \/ ExitCancelled(v) \/ Wait(v) \/ Drop(v) \/ Take(v)
      PROVE  /\ visited' = visited /\ phase' = phase
             /\ \A w \in Worker : pc'[w] = "persisting" => pc[w] = "persisting" /\ item'[w] = item[w]
  BY <1>4 DEF ExitExhausted, ExitCancelled, Wait, Drop, Take, AtLock, NotifyAll, poolVars, TypeOK
<1>5. ASSUME NEW v \in Worker, Fail(v) \/ Succeed(v) \/ Settle(v)
      PROVE  /\ visited' = visited /\ phase' = phase
             /\ \A w \in Worker : pc'[w] = "persisting" => pc[w] = "persisting" /\ item'[w] = item[w]
  BY <1>5 DEF Fail, Succeed, Settle, NotifyAll, poolVars, TypeOK
<1> QED BY <1>1, <1>2, <1>3, <1>4, <1>5 DEF SiteNext, SiteWork, Alone, AtLockStep

LEMMA FollowStep ==
  ASSUME TypeOK, EachUrlInOnePlace, site \in Site, CrawlFollowsSite, HandsFollow,
         [SiteNext]_siteVars
  PROVE  (CrawlFollowsSite /\ HandsFollow)'
<1>1. [Next]_vars /\ site' = site
  BY SiteStep
<1>2. /\ visited \subseteq visited' /\ visited \subseteq Url /\ visited' \subseteq Url
      /\ \A u \in visited : depth'[u] = depth[u]
      /\ \A u \in Url : fate[u] \in Begun => fate'[u] \in Begun
      /\ ~cancelled' => ~cancelled
      /\ \A u \in Url : fate'[u] = "crawled" =>
           fate[u] = "crawled" \/ \E w \in Worker : Succeed(w) /\ item[w] = u
  BY <1>1, PoolMoves, TypeKept DEF TypeOK
<1>3. \A u \in Url : fate[u] \in Begun => u \in visited
  BY DEF EachUrlInOnePlace, Begun
\* Known URLs
<1>4. ASSUME NEW u \in visited, ComesFrom(u) PROVE ComesFrom(u)'
  <2>1. CASE depth[u] = 0 /\ u \in Starting[site]
    BY <1>1, <1>2, <2>1 DEF ComesFrom
  <2>2. ASSUME NEW p \in visited, fate[p] \in Begun, u \in Found[site][p],
               depth[u] = depth[p] + 1, depth[u] <= MaxDepth
        PROVE  ComesFrom(u)'
    BY <1>1, <1>2, <2>2 DEF ComesFrom, Begun
  <2> QED BY <1>4, <2>1, <2>2 DEF ComesFrom, Begun
\* New URLs
<1>5. ASSUME NEW u \in visited', u \notin visited, u # Seed
      PROVE  u \in Eligible \ Ignored /\ ComesFrom(u)'
  <2>1. CASE SitemapsRead
    BY <1>1, <1>5, <2>1, SitemapsTaken DEF ComesFrom
  <2>2. ASSUME NEW w \in Worker, LinksRead(w) PROVE u \in Eligible \ Ignored /\ ComesFrom(u)'
    <3> DEFINE p == item[w]
    <3>1. /\ p \in visited /\ fate[p] \in Begun
          /\ u \in Found[site][p] /\ u \in Eligible \ Ignored
          /\ depth'[u] = depth[p] + 1 /\ depth'[u] <= MaxDepth
      BY <1>5, <2>2, LinksTaken DEF Begun
    <3>2. p \in visited' /\ fate'[p] \in Begun /\ depth'[p] = depth[p]
      BY <1>2, <3>1
    <3> HIDE DEF p
    <3> QED BY <1>1, <3>1, <3>2 DEF ComesFrom, Begun
  <2> QED BY <1>5, <2>1, <2>2, OtherSteps
<1>6. \A u \in visited' \ {Seed} : u \in Eligible \ Ignored /\ ComesFrom(u)'
  BY <1>4, <1>5 DEF CrawlFollowsSite
\* The start
<1>7. ASSUME ~cancelled', phase' = "run" PROVE Followable(Starting[site]) \subseteq visited'
  <2>1. CASE SitemapsRead
    BY <1>2, <1>7, <2>1, SitemapsTaken
  <2>2. ASSUME NEW w \in Worker, LinksRead(w) PROVE phase' = phase
    BY <2>2 DEF LinksRead, Alone, Discover
  <2>3. CASE phase = "run"
    BY <1>2, <1>7, <2>3 DEF CrawlFollowsSite
  <2> QED BY <1>7, <2>1, <2>2, <2>3, OtherSteps
\* Crawled pages
<1>8. ASSUME ~cancelled', NEW u \in Url, fate'[u] = "crawled", depth'[u] < MaxDepth
      PROVE  Followable(Found[site][u]) \subseteq visited'
  <2>1. CASE fate[u] = "crawled"
    <3>1. depth'[u] = depth[u]
      BY <1>2, <1>3, <2>1 DEF Begun
    <3> QED BY <1>2, <1>8, <2>1, <3>1 DEF CrawlFollowsSite
  <2>2. ASSUME NEW w \in Worker, Succeed(w), item[w] = u PROVE Followable(Found[site][u]) \subseteq visited'
    <3>1. pc[w] = "persisting" /\ u \in visited
      BY <2>2, PageInHand DEF Succeed
    <3> QED BY <1>2, <1>8, <2>2, <3>1 DEF HandsFollow
  <2> QED BY <1>2, <1>8, <2>1, <2>2
\* Pages at hand
<1>9. ASSUME ~cancelled', NEW w \in Worker, pc'[w] = "persisting", depth'[item'[w]] < MaxDepth
      PROVE  Followable(Found[site][item'[w]]) \subseteq visited'
  <2>1. CASE pc[w] = "persisting" /\ item'[w] = item[w]
    <3>1. item[w] \in visited
      BY <2>1, PageInHand
    <3> QED BY <1>2, <1>9, <2>1, <3>1 DEF HandsFollow
  <2>2. CASE LinksRead(w)
    <3>1. item[w] \in visited /\ item' = item
      BY <2>2, LinksTaken
    <3> QED BY <1>2, <1>9, <2>2, <3>1, LinksTaken
  <2>3. ASSUME NEW v \in Worker, v # w, LinksRead(v) PROVE pc[w] = "persisting" /\ item'[w] = item[w]
    BY <1>9, <2>3, LinksTaken DEF TypeOK
  <2>4. ASSUME SitemapsRead PROVE pc[w] = "persisting" /\ item'[w] = item[w]
    BY <1>9, <2>4, SitemapsTaken
  <2> QED BY <1>9, <2>1, <2>2, <2>3, <2>4, OtherSteps
<1> QED BY <1>1, <1>6, <1>7, <1>8, <1>9 DEF CrawlFollowsSite, HandsFollow, Followable

\* The crawl follows the site: nothing is queued that the start or a page at hand does not
\* lead to through every filter, at the right depth; and nothing that they lead to within the
\* depth limit is left out, unless the crawl is cancelled.  Known depths do not change and
\* links are queued before a page counts as crawled, however the workers interleave.
THEOREM CrawlIsTheSites == SiteSpec => []CrawlFollowsSite
<1>1. SiteInit => CrawlFollowsSite /\ HandsFollow
  <2> SUFFICES ASSUME SiteInit PROVE CrawlFollowsSite /\ HandsFollow
    OBVIOUS
  <2>1. /\ visited = {} /\ phase = "seed" /\ \A u \in Url : fate[u] = "unseen"
        /\ \A w \in Worker : pc[w] = "ready"
    BY DEF SiteInit, Init
  <2> QED BY <2>1 DEF CrawlFollowsSite, HandsFollow
<1>2. TypeOK /\ site \in Site /\ EachUrlInOnePlace /\ (CrawlFollowsSite /\ HandsFollow) /\ [SiteNext]_siteVars
        => (CrawlFollowsSite /\ HandsFollow)'
  BY FollowStep
<1> QED BY <1>1, <1>2, SiteTypes, SiteImplementsPool, UrlsStayInOnePlace, PTL DEF SiteSpec
=============================================================================
