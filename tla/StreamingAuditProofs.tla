------------------------ MODULE StreamingAuditProofs ------------------------
(***************************************************************************)
(* What holds of StreamingAudit for any site, any number of workers, slots *)
(* and pages, and any number of errors and deaths: a slot is never given   *)
(* twice, a page is in one place, and the budget and the counters drift    *)
(* from the truth by no more than the incidents account for.               *)
(***************************************************************************)
EXTENDS StreamingAudit, RedirectDiscovery, FiniteSetTheorems, SequenceTheorems, TLAPS

-----------------------------------------------------------------------------
(* Types *)

\* A task looks at links only below max_depth, and marks a link that is there.
Descends ==
  \A w \in Worker :
    /\ task[w].pc \in {"look", "mark", "pay", "send"} => task[w].msg.depth < MaxDepth
    /\ task[w].pc = "mark" => task[w].todo # <<>>

\* Nothing is queued or executed before the request has sent the seed's task.
NothingBeforeTheSeed ==
  api \in {"row", "redis", "send"} =>
    /\ queue = {} /\ results = {}
    /\ \A w \in Worker : task[w].pc = "idle"
    /\ api \in {"row", "redis"} => seen = {} /\ active = 0 /\ remaining = 0
    /\ api = "send" => seen = {Seed}
    /\ run.ended = 0

TypeInv == TypeOK /\ Descends /\ NothingBeforeTheSeed

LEMMA IdleFacts == Idle \in Task /\ Idle.pc = "idle"
  BY StreamingAssumption DEF Idle, Task, Message

\* A task that changes for one worker.
LEMMA TaskFacts ==
  ASSUME task \in [Worker -> Task], NEW w \in Worker, NEW t \in Task,
         task' = [task EXCEPT ![w] = t]
  PROVE  /\ task' \in [Worker -> Task] /\ task'[w] = t
         /\ \A v \in Worker \ {w} : task'[v] = task[v]
  OBVIOUS

LEMMA RetriedFacts ==
  ASSUME NEW m \in Message
  PROVE  /\ Retried(m) \subseteq Message
         /\ \A n \in Retried(m) : n.page = m.page
         /\ \A n, o \in Retried(m) : n = o
<1> DEFINE n == [m EXCEPT !.retries = @ + 1]
<1>1. CASE m.retries < MaxRetries
  <2>1. m.retries + 1 \in 0 .. MaxRetries
    BY <1>1, StreamingAssumption DEF Message
  <2>2. n \in Message /\ n.page = m.page
    BY <2>1 DEF Message
  <2>3. Retried(m) = {n}
    BY <1>1 DEF Retried
  <2> HIDE DEF n
  <2> QED
    BY <2>2, <2>3
<1>2. CASE ~(m.retries < MaxRetries)
  BY <1>2 DEF Retried
<1> QED
  BY <1>1, <1>2

\* Goto changes the place of one worker.
LEMMA GotoFacts ==
  ASSUME task \in [Worker -> Task], NEW w \in Worker, NEW from,
         NEW to \in {"idle", "reserve", "begin", "page", "look", "mark", "pay", "send", "save",
                     "count", "release"},
         Goto(w, from, to)
  PROVE  /\ task[w].pc = from
         /\ task' \in [Worker -> Task] /\ task'[w].pc = to /\ task'[w].msg = task[w].msg
         /\ task'[w].todo = task[w].todo /\ task'[w].kids = task[w].kids
         /\ \A v \in Worker \ {w} : task'[v] = task[v]
<1> DEFINE t == [task[w] EXCEPT !.pc = to]
<1>1. t \in Task /\ t.pc = to /\ t.msg = task[w].msg /\ t.todo = task[w].todo
      /\ t.kids = task[w].kids
  BY DEF Task
<1>2. task' = [task EXCEPT ![w] = t]
  BY DEF Goto
<1> QED
  BY <1>1, <1>2, TaskFacts DEF Goto

LEMMA InitTypes == Init => TypeInv
<1> SUFFICES ASSUME Init PROVE TypeInv
  OBVIOUS
<1>1. \A w \in Worker : task[w] = Idle /\ task[w].pc = "idle"
  BY IdleFacts DEF Init
<1>2. task \in [Worker -> Task]
  BY IdleFacts DEF Init
<1>3. 0 \in 0 .. MaxIncidents
  BY StreamingAssumption
<1>4. TypeOK
  <2>1. run \in [status : {"queued", "processing", "partial", "completed"},
                 processing : Nat, ended : Nat]
    BY DEF Init
  <2>2. remaining \in Int /\ active \in Nat
    BY DEF Init
  <2> QED
    BY <1>2, <1>3, <2>1, <2>2 DEF Init, TypeOK
<1>5. Descends
  BY <1>1 DEF Descends
<1>6. NothingBeforeTheSeed
  BY <1>1 DEF Init, NothingBeforeTheSeed
<1> QED
  BY <1>4, <1>5, <1>6 DEF TypeInv

\* What each operation of a page task does to its record.
LEMMA TakeFacts ==
  ASSUME TypeOK, NEW w \in Worker, Take(w)
  PROVE  \E m \in queue :
           /\ queue' = queue \ {m} /\ task[w].pc = "idle"
           /\ task' = [task EXCEPT ![w] = [Idle EXCEPT !.pc = "reserve", !.msg = m]]
           /\ task' \in [Worker -> Task] /\ task'[w].pc = "reserve" /\ task'[w].msg = m
           /\ task'[w].kids = <<>>
           /\ \A v \in Worker \ {w} : task'[v] = task[v]
<1>1. PICK m \in queue :
        /\ queue' = queue \ {m}
        /\ task' = [task EXCEPT ![w] = [Idle EXCEPT !.pc = "reserve", !.msg = m]]
  BY DEF Take
<1> DEFINE t == [Idle EXCEPT !.pc = "reserve", !.msg = m]
<1>2. m \in Message
  BY DEF TypeOK
<1>3. t \in Task /\ t.pc = "reserve" /\ t.msg = m /\ t.kids = <<>>
  BY <1>2, IdleFacts DEF Task, Idle
<1>4. task \in [Worker -> Task] /\ task' = [task EXCEPT ![w] = t]
  BY <1>1 DEF TypeOK
<1>5. /\ task' \in [Worker -> Task] /\ task'[w] = t
      /\ \A v \in Worker \ {w} : task'[v] = task[v]
  BY <1>3, <1>4, TaskFacts
<1> QED
  BY <1>1, <1>3, <1>5 DEF Take

\* The worker has nothing any more.
LEMMA IdleAgain ==
  ASSUME TypeOK, NEW w \in Worker, task' = [task EXCEPT ![w] = Idle]
  PROVE  /\ task' \in [Worker -> Task] /\ task'[w] = Idle /\ task'[w].pc = "idle"
         /\ \A v \in Worker \ {w} : task'[v] = task[v]
  BY IdleFacts DEF TypeOK

LEMMA ProcessPageFacts ==
  ASSUME TypeOK, NEW w \in Worker, ProcessPage(w)
  PROVE  /\ task[w].pc = "page" /\ task'[w].pc \in {"look", "save"}
         /\ task'[w].pc = "look" => task[w].msg.depth < MaxDepth
         /\ task' \in [Worker -> Task] /\ task'[w].msg = task[w].msg
         /\ task'[w].kids = task[w].kids
         /\ \A v \in Worker \ {w} : task'[v] = task[v]
<1>1. PICK found \in {<<>>, Links[task[w].msg.page]} :
       task' = [task EXCEPT
         ![w].pc   = IF task[w].msg.depth < MaxDepth THEN "look" ELSE "save",
         ![w].todo = IF task[w].msg.depth < MaxDepth THEN found ELSE <<>>]
  BY DEF ProcessPage
<1> DEFINE t == [task[w] EXCEPT !.pc   = IF task[w].msg.depth < MaxDepth THEN "look" ELSE "save",
                                !.todo = IF task[w].msg.depth < MaxDepth THEN found ELSE <<>>]
<1>2. task[w] \in Task /\ task[w].msg.page \in Page
  BY DEF TypeOK, Task, Message
<1>3. found \in Seq(Page) /\ <<>> \in Seq(Page)
  <2>1. Links[task[w].msg.page] \in Seq(Page)
    BY <1>2, StreamingAssumption
  <2>2. <<>> \in Seq(Page)
    OBVIOUS
  <2> QED
    BY <1>1, <2>1, <2>2
<1>4. t \in Task /\ t.msg = task[w].msg /\ t.kids = task[w].kids
      /\ t.pc = IF task[w].msg.depth < MaxDepth THEN "look" ELSE "save"
  <2>1. CASE task[w].msg.depth < MaxDepth
    BY <1>2, <1>3, <2>1 DEF Task
  <2>2. CASE ~(task[w].msg.depth < MaxDepth)
    BY <1>2, <1>3, <2>2 DEF Task
  <2> QED
    BY <2>1, <2>2
<1>5. task' = [task EXCEPT ![w] = t]
  BY <1>1
<1> HIDE DEF t
<1>6. task'[w] = t /\ task' \in [Worker -> Task] /\ \A v \in Worker \ {w} : task'[v] = task[v]
  BY <1>4, <1>5, TaskFacts DEF TypeOK
<1> QED
  BY <1>4, <1>6 DEF ProcessPage

LEMMA LookFacts ==
  ASSUME TypeOK, NEW w \in Worker, Look(w)
  PROVE  /\ task[w].pc = "look"
         /\ \/ /\ task'[w].pc = "send" /\ task'[w].todo = task[w].kids
            \/ /\ task'[w].pc = "look"
            \/ /\ task'[w].pc = "mark" /\ task[w].todo # <<>> /\ remaining > 0
               /\ task'[w].todo = task[w].todo
         /\ task'[w].kids = task[w].kids
         /\ task' \in [Worker -> Task] /\ task'[w].msg = task[w].msg
         /\ \A v \in Worker \ {w} : task'[v] = task[v]
<1> DEFINE t == task[w]
           u == IF t.todo = <<>> \/ remaining <= 0 THEN [t EXCEPT !.pc = "send", !.todo = t.kids]
                ELSE IF Head(t.todo) \in seen THEN [t EXCEPT !.todo = Tail(@)]
                ELSE [t EXCEPT !.pc = "mark"]
<1>1. t \in Task /\ t.todo \in Seq(Page) /\ t.kids \in Seq(Page) /\ t.pc = "look"
  BY DEF TypeOK, Task, Look
<1>2. task' = [task EXCEPT ![w] = u]
  BY DEF Look
<1>3. u \in Task /\ u.msg = t.msg /\ u.kids = t.kids
      /\ \/ u.pc = "send" /\ u.todo = t.kids
         \/ u.pc = "look"
         \/ u.pc = "mark" /\ t.todo # <<>> /\ remaining > 0 /\ u.todo = t.todo
  <2>1. CASE t.todo = <<>> \/ remaining <= 0
    BY <1>1, <2>1 DEF Task
  <2>2. CASE t.todo # <<>> /\ ~(remaining <= 0)
    <3>1. Tail(t.todo) \in Seq(Page) /\ remaining > 0
      BY <1>1, <2>2 DEF TypeOK
    <3> QED
      BY <1>1, <2>2, <3>1 DEF Task
  <2> QED
    BY <2>1, <2>2
<1> HIDE DEF u
<1>4. task'[w] = u /\ task' \in [Worker -> Task] /\ \A v \in Worker \ {w} : task'[v] = task[v]
  BY <1>2, <1>3, TaskFacts DEF TypeOK
<1> QED
  BY <1>1, <1>3, <1>4

\* The link that is marked is new, and is kept; or was marked by another task meanwhile.
LEMMA MarkFacts ==
  ASSUME TypeOK, Descends, NEW w \in Worker, Mark(w)
  PROVE  \E child \in Page :
           /\ task[w].pc = "mark" /\ seen' = seen \cup {child}
           /\ \/ /\ child \in seen /\ task'[w].pc = "look" /\ task'[w].kids = task[w].kids
              \/ /\ child \notin seen /\ task'[w].pc = "pay"
                 /\ task'[w].kids = Append(task[w].kids, child)
           /\ task' \in [Worker -> Task] /\ task'[w].msg = task[w].msg
           /\ \A v \in Worker \ {w} : task'[v] = task[v]
<1> DEFINE t == task[w]
           child == Head(t.todo)
           u == [t EXCEPT !.pc = "look", !.todo = Tail(@)]
           n == [t EXCEPT !.pc = "pay", !.todo = Tail(@), !.kids = Append(@, child)]
<1>1. t \in Task /\ t.todo \in Seq(Page) /\ t.kids \in Seq(Page) /\ t.pc = "mark" /\ t.todo # <<>>
  BY DEF TypeOK, Task, Mark, Descends
<1>2. child \in Page /\ Tail(t.todo) \in Seq(Page)
  BY <1>1
<1>3. /\ u \in Task /\ u.pc = "look" /\ u.kids = t.kids /\ u.msg = t.msg
      /\ n \in Task /\ n.pc = "pay" /\ n.kids = Append(t.kids, child) /\ n.msg = t.msg
  <2>1. Append(t.kids, child) \in Seq(Page)
    BY <1>1, <1>2
  <2> HIDE DEF child
  <2> QED
    BY <1>1, <1>2, <2>1 DEF Task
<1>4. task' = IF child \in seen THEN [task EXCEPT ![w] = u] ELSE [task EXCEPT ![w] = n]
  BY DEF Mark
<1>5. seen' = seen \cup {child}
  BY DEF Mark
<1> HIDE DEF u, n
<1>6. task \in [Worker -> Task]
  BY DEF TypeOK
<1>7. CASE child \in seen
  BY <1>1, <1>2, <1>3, <1>4, <1>5, <1>6, <1>7, TaskFacts
<1>8. CASE child \notin seen
  BY <1>1, <1>2, <1>3, <1>4, <1>5, <1>6, <1>8, TaskFacts
<1> QED
  BY <1>7, <1>8

LEMMA SendFacts ==
  ASSUME TypeOK, Descends, NEW w \in Worker, Send(w)
  PROVE  \E m \in Message :
           /\ task[w].pc = "send" /\ task[w].todo # <<>> /\ m.page = Head(task[w].todo)
           /\ queue' = queue \cup {m}
           /\ task' \in [Worker -> Task] /\ task'[w].pc = "send"
           /\ task'[w].msg = task[w].msg /\ task'[w].todo = Tail(task[w].todo)
           /\ \A v \in Worker \ {w} : task'[v] = task[v]
<1> DEFINE t == task[w]
           u == [t EXCEPT !.todo = Tail(@)]
           m == [page |-> Head(t.todo), depth |-> t.msg.depth + 1, retries |-> 0]
<1>1. t \in Task /\ t.todo \in Seq(Page) /\ t.pc = "send" /\ t.todo # <<>>
      /\ t.msg \in Message /\ t.msg.depth < MaxDepth
  BY DEF TypeOK, Task, Send, Descends
<1>2. m \in Message
  <2>1. t.msg.depth + 1 \in 0 .. MaxDepth /\ 0 \in 0 .. MaxRetries
    <3>1. t.msg.depth \in 0 .. MaxDepth /\ MaxDepth \in Nat /\ MaxRetries \in Nat /\ t.msg.depth < MaxDepth
      BY <1>1, StreamingAssumption DEF Message
    <3> HIDE DEF t
    <3> QED
      BY <3>1
  <2> QED
    BY <1>1, <2>1 DEF Message
<1>3. u \in Task /\ u.pc = "send" /\ u.msg = t.msg /\ u.todo = Tail(t.todo)
  <2>1. Tail(t.todo) \in Seq(Page)
    BY <1>1
  <2> QED
    BY <1>1, <2>1 DEF Task
<1>4. task' = [task EXCEPT ![w] = u] /\ queue' = queue \cup {m}
  BY DEF Send
<1> HIDE DEF u
<1>5. task'[w] = u /\ task' \in [Worker -> Task] /\ \A v \in Worker \ {w} : task'[v] = task[v]
  BY <1>3, <1>4, TaskFacts DEF TypeOK
<1> QED
  BY <1>1, <1>2, <1>3, <1>4, <1>5

\* Workers have work only after the request has sent the seed's task.
LEMMA WorkIsAfterTheSeed ==
  ASSUME TypeInv, NEW w \in Worker, Take(w) \/ Step(w) \/ Raise(w) \/ Crash(w)
  PROVE  api \notin {"row", "redis", "send"} /\ api' = api
<1>1. ASSUME api \in {"row", "redis", "send"} PROVE queue = {} /\ task[w].pc = "idle"
  BY <1>1 DEF TypeInv, NothingBeforeTheSeed
<1>2. CASE Take(w)
  BY <1>1, <1>2 DEF Take
<1>3. CASE Step(w)
  <2>1. task[w].pc # "idle"
    BY <1>3 DEF Step, Reserve, Refused, Begin, ProcessPage, Look, Mark, Pay, Send, Sent, Save,
                Count, Release, Goto
  <2>2. api' = api
    BY <1>3 DEF Step, Reserve, Refused, Begin, ProcessPage, Look, Mark, Pay, Send, Sent, Save,
                Count, Release
  <2> QED
    BY <1>1, <2>1, <2>2
<1>4. CASE Raise(w)
  BY <1>1, <1>4 DEF Raise, Holding
<1>5. CASE Crash(w)
  BY <1>1, <1>5 DEF Crash
<1> QED
  BY <1>2, <1>3, <1>4, <1>5

LEMMA StepTypes ==
  ASSUME TypeInv, NEW w \in Worker, Step(w)
  PROVE  TypeOK' /\ Descends'
<1> USE DEF TypeInv
<1>1. task \in [Worker -> Task] /\ task[w] \in Task /\ task[w].msg \in Message
      /\ task[w].todo \in Seq(Page) /\ active \in Nat /\ Freed \in Nat
  BY DEF TypeOK, Task, Freed
<1>2. ASSUME task' \in [Worker -> Task],
             \A v \in Worker \ {w} : task'[v] = task[v],
             task'[w].pc \in {"look", "mark", "pay", "send"} => task'[w].msg.depth < MaxDepth,
             task'[w].pc = "mark" => task'[w].todo # <<>>
      PROVE  Descends'
  BY <1>2 DEF Descends
<1>3. CASE Reserve(w)
  <2>1. /\ task' \in [Worker -> Task] /\ task'[w].pc = "begin"
        /\ \A v \in Worker \ {w} : task'[v] = task[v]
    BY <1>1, <1>3, GotoFacts DEF Reserve
  <2>2. Descends'
    BY <1>2, <2>1
  <2> QED
    BY <1>1, <1>3, <2>1, <2>2 DEF Reserve, TypeOK
<1>4. CASE Refused(w)
  <2>1. /\ task' \in [Worker -> Task] /\ task'[w].pc = "idle"
        /\ \A v \in Worker \ {w} : task'[v] = task[v]
    BY <1>4, IdleAgain DEF Refused
  <2>2. Descends'
    BY <1>2, <2>1
  <2>3. Retried(task[w].msg) \subseteq Message
    BY <1>1, RetriedFacts
  <2> QED
    BY <1>1, <1>4, <2>1, <2>2, <2>3 DEF Refused, TypeOK, redis
<1>5. CASE Begin(w)
  <2>1. /\ task' \in [Worker -> Task] /\ task'[w].pc = "page"
        /\ \A v \in Worker \ {w} : task'[v] = task[v]
    BY <1>1, <1>5, GotoFacts DEF Begin
  <2>2. Descends'
    BY <1>2, <2>1
  <2>3. run' \in [status : {"queued", "processing", "partial", "completed"},
                  processing : Nat, ended : Nat]
    <3>1. run \in [status : {"queued", "processing", "partial", "completed"},
                   processing : Nat, ended : Nat]
      BY DEF TypeOK
    <3> DEFINE n == run.processing + 1
    <3>2. run' = [run EXCEPT !.status = "processing", !.processing = n]
      BY <1>5 DEF Begin
    <3>3. n \in Nat
      BY <3>1
    <3> HIDE DEF n
    <3> QED
      BY <3>1, <3>2, <3>3
  <2> QED
    BY <1>1, <1>5, <2>1, <2>2, <2>3 DEF Begin, TypeOK, redis
<1>6. CASE ProcessPage(w)
  <2>1. /\ task' \in [Worker -> Task] /\ task'[w].pc \in {"look", "save"}
        /\ task'[w].pc = "look" => task[w].msg.depth < MaxDepth
        /\ task'[w].msg = task[w].msg
        /\ \A v \in Worker \ {w} : task'[v] = task[v]
    BY <1>6, ProcessPageFacts
  <2>2. Descends'
    BY <1>2, <2>1
  <2> QED
    BY <1>1, <1>6, <2>1, <2>2 DEF ProcessPage, TypeOK, redis
<1>7. CASE Look(w)
  <2>1. /\ task[w].pc = "look" /\ task' \in [Worker -> Task]
        /\ task'[w].pc \in {"send", "look", "mark"} /\ task'[w].msg = task[w].msg
        /\ task'[w].pc = "mark" => task'[w].todo # <<>>
        /\ \A v \in Worker \ {w} : task'[v] = task[v]
    BY <1>7, LookFacts
  <2>2. task[w].msg.depth < MaxDepth
    BY <2>1 DEF Descends
  <2>3. Descends'
    BY <1>2, <2>1, <2>2
  <2> QED
    BY <1>1, <1>7, <2>1, <2>3 DEF Look, TypeOK, redis
<1>8. CASE Mark(w)
  <2>1. PICK child \in Page :
        /\ task[w].pc = "mark" /\ seen' = seen \cup {child}
        /\ task' \in [Worker -> Task] /\ task'[w].pc \in {"look", "pay"}
        /\ task'[w].msg = task[w].msg
        /\ \A v \in Worker \ {w} : task'[v] = task[v]
    BY <1>8, MarkFacts
  <2>2. task[w].msg.depth < MaxDepth
    BY <2>1 DEF Descends
  <2>3. Descends'
    BY <1>2, <2>1, <2>2
  <2> QED
    BY <1>1, <1>8, <2>1, <2>3 DEF Mark, TypeOK
<1>9. CASE Pay(w)
  <2>1. /\ task[w].pc = "pay" /\ task' \in [Worker -> Task] /\ task'[w].pc = "look"
        /\ task'[w].msg = task[w].msg
        /\ \A v \in Worker \ {w} : task'[v] = task[v]
    BY <1>1, <1>9, GotoFacts DEF Pay
  <2>2. task[w].msg.depth < MaxDepth
    BY <2>1 DEF Descends
  <2>3. Descends'
    BY <1>2, <2>1, <2>2
  <2>4. remaining' \in Int
    BY <1>9 DEF Pay, TypeOK
  <2> QED
    BY <1>1, <1>9, <2>1, <2>3, <2>4 DEF Pay, TypeOK
<1>10. CASE Send(w)
  <2>1. PICK m \in Message :
        /\ task[w].pc = "send" /\ queue' = queue \cup {m}
        /\ task' \in [Worker -> Task] /\ task'[w].pc = "send"
        /\ task'[w].msg = task[w].msg
        /\ \A v \in Worker \ {w} : task'[v] = task[v]
    BY <1>10, SendFacts
  <2>2. task[w].msg.depth < MaxDepth
    BY <2>1 DEF Descends
  <2>3. Descends'
    BY <1>2, <2>1, <2>2
  <2> QED
    BY <1>1, <1>10, <2>1, <2>3 DEF Send, TypeOK, redis
<1>11. CASE Sent(w)
  <2>1. /\ task' \in [Worker -> Task] /\ task'[w].pc = "save"
        /\ \A v \in Worker \ {w} : task'[v] = task[v]
    BY <1>1, <1>11, GotoFacts DEF Sent
  <2>2. Descends'
    BY <1>2, <2>1
  <2> QED
    BY <1>1, <1>11, <2>1, <2>2 DEF Sent, TypeOK, redis
<1>12. CASE Save(w)
  <2>1. /\ task' \in [Worker -> Task] /\ task'[w].pc = "count"
        /\ \A v \in Worker \ {w} : task'[v] = task[v]
    BY <1>1, <1>12, GotoFacts DEF Save
  <2>2. Descends'
    BY <1>2, <2>1
  <2>3. task[w].msg.page \in Page
    BY <1>1 DEF Message
  <2> QED
    BY <1>1, <1>12, <2>1, <2>2, <2>3 DEF Save, TypeOK, redis
<1>13. CASE Count(w)
  <2>1. /\ task' \in [Worker -> Task] /\ task'[w].pc = "release"
        /\ \A v \in Worker \ {w} : task'[v] = task[v]
    BY <1>1, <1>13, GotoFacts DEF Count
  <2>2. Descends'
    BY <1>2, <2>1
  <2>3. run' \in [status : {"queued", "processing", "partial", "completed"},
                  processing : Nat, ended : Nat]
    <3> DEFINE s == IF run.ended + 1 >= MaxPages THEN "completed" ELSE "partial"
               n == IF run.processing > 0 THEN run.processing - 1 ELSE 0
               m == run.ended + 1
    <3>1. run.processing \in Nat /\ run.ended \in Nat
      BY DEF TypeOK
    <3>2. n \in Nat /\ m \in Nat
      BY <3>1
    <3>3. s \in {"queued", "processing", "partial", "completed"}
      OBVIOUS
    <3>4. run' = [status |-> s, processing |-> n, ended |-> m]
      BY <1>13 DEF Count
    <3> HIDE DEF s, n, m
    <3> QED
      BY <3>2, <3>3, <3>4
  <2> QED
    BY <1>1, <1>13, <2>1, <2>2, <2>3 DEF Count, TypeOK, redis
<1>14. CASE Release(w)
  <2>1. /\ task' \in [Worker -> Task] /\ task'[w].pc = "idle"
        /\ \A v \in Worker \ {w} : task'[v] = task[v]
    BY <1>14, IdleAgain DEF Release
  <2>2. Descends'
    BY <1>2, <2>1
  <2> QED
    BY <1>1, <1>14, <2>1, <2>2 DEF Release, TypeOK
<1> QED
  BY <1>3, <1>4, <1>5, <1>6, <1>7, <1>8, <1>9, <1>10, <1>11, <1>12, <1>13, <1>14 DEF Step

\* What an error or a death leaves of a task: a worker with nothing, and at most one
\* message for its page.
LEMMA IncidentFacts ==
  ASSUME TypeOK, NEW w \in Worker, Raise(w) \/ Crash(w)
  PROVE  /\ task[w].pc # "idle" /\ incidents' = incidents + 1 /\ incidents < MaxIncidents
         /\ task' \in [Worker -> Task] /\ task'[w] = Idle /\ task'[w].pc = "idle"
         /\ \A v \in Worker \ {w} : task'[v] = task[v]
         /\ \E again \in SUBSET Message :
              /\ queue' = queue \cup again
              /\ \A n \in again : n.page = task[w].msg.page
              /\ \A n, o \in again : n = o
         /\ UNCHANGED <<api, seen, remaining, run, results, refused>>
<1>1. task[w].msg \in Message
  BY DEF TypeOK, Task
<1>2. CASE Raise(w)
  <2>1. task' = [task EXCEPT ![w] = Idle] /\ task[w].pc # "idle"
    BY <1>2 DEF Raise, Holding
  <2>2. queue' = queue \cup Retried(task[w].msg)
    BY <1>2 DEF Raise
  <2>3. UNCHANGED <<api, seen, remaining, run, results, refused>>
        /\ incidents' = incidents + 1 /\ incidents < MaxIncidents
    BY <1>2 DEF Raise, Incident
  <2>4. /\ Retried(task[w].msg) \in SUBSET Message
        /\ \A n \in Retried(task[w].msg) : n.page = task[w].msg.page
        /\ \A n, o \in Retried(task[w].msg) : n = o
    BY <1>1, RetriedFacts
  <2>5. /\ task' \in [Worker -> Task] /\ task'[w] = Idle /\ task'[w].pc = "idle"
        /\ \A v \in Worker \ {w} : task'[v] = task[v]
    BY <2>1, IdleAgain
  <2> QED
    BY <2>1, <2>2, <2>3, <2>4, <2>5
<1>3. CASE Crash(w)
  <2>1. task' = [task EXCEPT ![w] = Idle] /\ task[w].pc # "idle"
    BY <1>3 DEF Crash
  <2>2. PICK again \in {{}, {task[w].msg}} : queue' = queue \cup again
    BY <1>3 DEF Crash
  <2>3. UNCHANGED <<api, seen, remaining, run, results, refused>>
        /\ incidents' = incidents + 1 /\ incidents < MaxIncidents
    BY <1>3 DEF Crash, Incident, redis
  <2>4. again \in SUBSET Message /\ (\A n \in again : n.page = task[w].msg.page)
        /\ \A n, o \in again : n = o
    BY <1>1, <2>2
  <2> QED
    BY <2>1, <2>2, <2>3, <2>4, IdleAgain
<1> QED
  BY <1>2, <1>3

LEMMA IncidentTypes ==
  ASSUME TypeInv, NEW w \in Worker, Raise(w) \/ Crash(w)
  PROVE  TypeOK' /\ Descends'
<1> USE DEF TypeInv
<1>1. active' \in Nat
  <2>1. active \in Nat /\ Freed \in Nat
    BY DEF TypeOK, Freed
  <2>2. CASE Raise(w)
    BY <2>1, <2>2 DEF Raise
  <2>3. CASE Crash(w)
    BY <2>1, <2>3 DEF Crash, redis
  <2> QED
    BY <2>2, <2>3
<1>2. incidents' \in 0 .. MaxIncidents
  BY StreamingAssumption, IncidentFacts DEF TypeOK
<1>3. queue' \subseteq Message
  BY IncidentFacts DEF TypeOK
<1>4. task' \in [Worker -> Task]
  BY IncidentFacts
<1>5. UNCHANGED <<api, seen, remaining, run, results, refused>>
  BY IncidentFacts
<1>6. TypeOK'
  BY <1>1, <1>2, <1>3, <1>4, <1>5 DEF TypeOK
<1>7. task'[w].pc = "idle" /\ \A v \in Worker \ {w} : task'[v] = task[v]
  BY IncidentFacts
<1>8. Descends'
  BY <1>7 DEF Descends
<1> QED
  BY <1>6, <1>8

LEMMA TakeTypes ==
  ASSUME TypeInv, NEW w \in Worker, Take(w)
  PROVE  TypeOK' /\ Descends'
<1> USE DEF TypeInv
<1>1. PICK m \in queue :
        /\ queue' = queue \ {m}
        /\ task' \in [Worker -> Task] /\ task'[w].pc = "reserve"
        /\ \A v \in Worker \ {w} : task'[v] = task[v]
  BY TakeFacts
<1>2. TypeOK'
  BY <1>1 DEF Take, TypeOK, redis
<1>3. Descends'
  BY <1>1 DEF Descends
<1> QED
  BY <1>2, <1>3

LEMMA RequestTypes ==
  ASSUME TypeInv, Request \/ RequestFails
  PROVE  TypeInv'
<1> USE DEF TypeInv
<1>1. CASE CreateRun
  BY <1>1 DEF CreateRun, TypeOK, Descends, NothingBeforeTheSeed, redis
<1>2. CASE InitializeRun
  <2>1. {Seed} \subseteq Page /\ MaxPages - 1 \in Int
    BY StreamingAssumption
  <2>2. TypeOK'
    BY <1>2, <2>1 DEF InitializeRun, TypeOK
  <2> QED
    BY <1>2, <2>2 DEF InitializeRun, Descends, NothingBeforeTheSeed
<1>3. CASE SendSeed
  <2>1. [page |-> Seed, depth |-> 0, retries |-> 0] \in Message
    BY StreamingAssumption DEF Message
  <2>2. TypeOK'
    BY <1>3, <2>1 DEF SendSeed, TypeOK, redis
  <2> QED
    BY <1>3, <2>2 DEF SendSeed, Descends, NothingBeforeTheSeed
<1>4. CASE RequestFails
  <2>1. incidents' \in 0 .. MaxIncidents
    BY <1>4, StreamingAssumption DEF RequestFails, Incident, TypeOK
  <2> QED
    BY <1>4, <2>1 DEF RequestFails, TypeOK, Descends, NothingBeforeTheSeed, redis
<1> QED
  BY <1>1, <1>2, <1>3, <1>4 DEF Request

\* Every reachable state has its types, and workers work only on what was sent.
THEOREM Types == Spec => []TypeInv
<1>1. TypeInv /\ [Next]_vars => TypeInv'
  <2> SUFFICES ASSUME TypeInv, [Next]_vars PROVE TypeInv'
    OBVIOUS
  <2>1. CASE Request \/ RequestFails
    BY <2>1, RequestTypes
  <2>2. ASSUME NEW w \in Worker, Take(w) \/ Step(w) \/ Raise(w) \/ Crash(w)
        PROVE  TypeInv'
    <3>1. TypeOK' /\ Descends'
      BY <2>2, TakeTypes, StepTypes, IncidentTypes
    <3>2. NothingBeforeTheSeed'
      BY <2>2, WorkIsAfterTheSeed DEF NothingBeforeTheSeed
    <3> QED
      BY <3>1, <3>2 DEF TypeInv
  <2>3. CASE UNCHANGED vars
    BY <2>3 DEF vars, redis, TypeInv, TypeOK, Descends, NothingBeforeTheSeed
  <2> QED
    BY <2>1, <2>2, <2>3 DEF Next
<1> QED
  BY <1>1, InitTypes, PTL DEF Spec

-----------------------------------------------------------------------------
(* Slots *)

\* One worker moves: the number of workers at given places changes by that worker.
LEMMA OnFacts ==
  ASSUME NEW w \in Worker, NEW pcs, \A v \in Worker \ {w} : task'[v] = task[v]
  PROVE  /\ Cardinality(On(pcs)) \in Nat
         /\ Cardinality(On(pcs)') \in Nat
         /\ task[w].pc \in pcs <=> task'[w].pc \in pcs =>
              Cardinality(On(pcs)') = Cardinality(On(pcs))
         /\ task[w].pc \notin pcs /\ task'[w].pc \in pcs =>
              Cardinality(On(pcs)') = Cardinality(On(pcs)) + 1
         /\ task[w].pc \in pcs /\ task'[w].pc \notin pcs =>
              Cardinality(On(pcs)') = Cardinality(On(pcs)) - 1
<1>1. IsFiniteSet(On(pcs)) /\ IsFiniteSet(On(pcs)')
  BY StreamingAssumption, FS_Subset DEF On
<1>2. Cardinality(On(pcs)) \in Nat /\ Cardinality(On(pcs)') \in Nat
  BY <1>1, FS_CardinalityType
<1>3. (task[w].pc \in pcs <=> task'[w].pc \in pcs) => On(pcs)' = On(pcs)
  BY DEF On
<1>4. ASSUME task[w].pc \notin pcs, task'[w].pc \in pcs
      PROVE  Cardinality(On(pcs)') = Cardinality(On(pcs)) + 1
  <2>1. On(pcs)' = On(pcs) \cup {w} /\ w \notin On(pcs)
    BY <1>4 DEF On
  <2> QED
    BY <1>1, <2>1, FS_AddElement
<1>5. ASSUME task[w].pc \in pcs, task'[w].pc \notin pcs
      PROVE  Cardinality(On(pcs)') = Cardinality(On(pcs)) - 1
  <2>1. On(pcs)' = On(pcs) \ {w} /\ w \in On(pcs)
    BY <1>5 DEF On
  <2> QED
    BY <1>1, <2>1, FS_RemoveElement
<1> QED
  BY <1>2, <1>3, <1>4, <1>5

\* Where an operation of a page task takes it.
LEMMA StepMoves ==
  ASSUME TypeInv, NEW w \in Worker, Step(w)
  PROVE  /\ \A v \in Worker \ {w} : task'[v] = task[v]
         /\ \/ Reserve(w) /\ task[w].pc = "reserve" /\ task'[w].pc = "begin"
            \/ Refused(w) /\ task[w].pc = "reserve" /\ task'[w].pc = "idle"
            \/ Begin(w) /\ task[w].pc = "begin" /\ task'[w].pc = "page"
            \/ ProcessPage(w) /\ task[w].pc = "page" /\ task'[w].pc \in {"look", "save"}
            \/ Look(w) /\ task[w].pc = "look" /\ task'[w].pc \in {"look", "send"}
            \/ Look(w) /\ task[w].pc = "look" /\ task'[w].pc = "mark" /\ remaining > 0
            \/ Mark(w) /\ task[w].pc = "mark" /\ task'[w].pc = "look" /\ seen' = seen
            \/ Mark(w) /\ task[w].pc = "mark" /\ task'[w].pc = "pay"
            \/ Pay(w) /\ task[w].pc = "pay" /\ task'[w].pc = "look"
            \/ Send(w) /\ task[w].pc = "send" /\ task'[w].pc = "send"
            \/ Sent(w) /\ task[w].pc = "send" /\ task'[w].pc = "save"
            \/ Save(w) /\ task[w].pc = "save" /\ task'[w].pc = "count"
            \/ Count(w) /\ task[w].pc = "count" /\ task'[w].pc = "release"
            \/ Release(w) /\ task[w].pc = "release" /\ task'[w].pc = "idle"
<1>1. TypeOK /\ Descends /\ task \in [Worker -> Task]
  BY DEF TypeInv, TypeOK
<1>2. CASE Reserve(w)
  BY <1>1, <1>2, GotoFacts DEF Reserve
<1>3. CASE Refused(w)
  BY <1>1, <1>3, IdleAgain DEF Refused
<1>4. CASE Begin(w)
  BY <1>1, <1>4, GotoFacts DEF Begin
<1>5. CASE ProcessPage(w)
  BY <1>1, <1>5, ProcessPageFacts
<1>6. CASE Look(w)
  BY <1>1, <1>6, LookFacts
<1>7. CASE Mark(w)
  BY <1>1, <1>7, MarkFacts
<1>8. CASE Pay(w)
  BY <1>1, <1>8, GotoFacts DEF Pay
<1>9. CASE Send(w)
  BY <1>1, <1>9, SendFacts
<1>10. CASE Sent(w)
  BY <1>1, <1>10, GotoFacts DEF Sent
<1>11. CASE Save(w)
  BY <1>1, <1>11, GotoFacts DEF Save
<1>12. CASE Count(w)
  BY <1>1, <1>12, GotoFacts DEF Count
<1>13. CASE Release(w)
  BY <1>1, <1>13, IdleAgain DEF Release
<1> QED
  BY <1>2, <1>3, <1>4, <1>5, <1>6, <1>7, <1>8, <1>9, <1>10, <1>11, <1>12, <1>13 DEF Step

LEMMA SlotsKept ==
  ASSUME TypeInv, SlotNeverGivenTwice, [Next]_vars
  PROVE  SlotNeverGivenTwice'
<1>1. active \in Nat /\ Cardinality(On(Holding)) <= active /\ active <= Limit
  BY DEF TypeInv, TypeOK, SlotNeverGivenTwice
<1>2. CASE Request \/ RequestFails
  <2>1. CASE InitializeRun
    <3>1. On(Holding)' = {} /\ active' = 0
      BY <2>1 DEF InitializeRun, TypeInv, NothingBeforeTheSeed, On, Holding
    <3> QED
      BY <3>1, FS_EmptySet, StreamingAssumption DEF SlotNeverGivenTwice
  <2>2. CASE CreateRun \/ SendSeed \/ RequestFails
    BY <2>2 DEF CreateRun, SendSeed, RequestFails, redis, SlotNeverGivenTwice, On
  <2> QED
    BY <1>2, <2>1, <2>2 DEF Request
<1>3. ASSUME NEW w \in Worker, Take(w)
      PROVE  SlotNeverGivenTwice'
  <2>1. /\ task[w].pc = "idle" /\ task'[w].pc = "reserve"
        /\ \A v \in Worker \ {w} : task'[v] = task[v]
    BY <1>3, TakeFacts DEF TypeInv
  <2>2. Cardinality(On(Holding)') = Cardinality(On(Holding))
    BY <2>1, OnFacts DEF Holding
  <2> QED
    BY <1>1, <1>3, <2>2 DEF SlotNeverGivenTwice, Take, redis
<1>4. ASSUME NEW w \in Worker, Step(w)
      PROVE  SlotNeverGivenTwice'
  <2> DEFINE c == Cardinality(On(Holding))
             d == Cardinality(On(Holding)')
  <2>1. /\ c \in Nat /\ d \in Nat
        /\ (task[w].pc \in Holding <=> task'[w].pc \in Holding) => d = c
        /\ task[w].pc \notin Holding /\ task'[w].pc \in Holding => d = c + 1
        /\ task[w].pc \in Holding /\ task'[w].pc \notin Holding => d = c - 1
    BY <1>4, StepMoves, OnFacts
  <2> HIDE DEF c, d
  <2>2. CASE Reserve(w)
    <3>1. active < Limit /\ active' = active + 1 /\ task[w].pc = "reserve"
          /\ task'[w].pc = "begin"
      BY <1>4, <2>2, GotoFacts DEF Reserve, TypeInv, TypeOK
    <3>2. d = c + 1
      BY <2>1, <3>1 DEF Holding
    <3> QED
      BY <1>1, <2>1, <3>1, <3>2, StreamingAssumption DEF SlotNeverGivenTwice, c, d
  <2>3. CASE Release(w)
    <3>1. active' = Freed /\ task[w].pc = "release" /\ task'[w].pc = "idle"
      BY <1>4, <2>3, IdleAgain DEF Release, TypeInv
    <3>2. d = c - 1
      BY <2>1, <3>1 DEF Holding
    <3> QED
      BY <1>1, <2>1, <3>1, <3>2, StreamingAssumption DEF SlotNeverGivenTwice, Freed, c, d
  <2>4. CASE ~Reserve(w) /\ ~Release(w)
    <3>1. active' = active
      BY <1>4, <2>4 DEF Step, Refused, Begin, ProcessPage, Look, Mark, Pay, Send, Sent, Save,
                        Count, redis
    <3>2. task[w].pc \in Holding <=> task'[w].pc \in Holding
      BY <1>4, <2>4, StepMoves DEF Holding
    <3>3. d = c
      BY <2>1, <3>2
    <3> QED
      BY <1>1, <3>1, <3>3 DEF SlotNeverGivenTwice, c, d
  <2> QED
    BY <2>2, <2>3, <2>4
<1>5. ASSUME NEW w \in Worker, Raise(w) \/ Crash(w)
      PROVE  SlotNeverGivenTwice'
  <2> DEFINE c == Cardinality(On(Holding))
             d == Cardinality(On(Holding)')
  <2>1. task'[w].pc = "idle" /\ \A v \in Worker \ {w} : task'[v] = task[v]
    BY <1>5, IncidentFacts DEF TypeInv
  <2>2. /\ c \in Nat /\ d \in Nat /\ d <= c
        /\ task[w].pc \in Holding => d = c - 1
    <3>1. "idle" \notin Holding
      BY DEF Holding
    <3> QED
      BY <2>1, <3>1, OnFacts
  <2> HIDE DEF c, d
  <2>3. \/ active' = active
        \/ task[w].pc \in Holding /\ active' = Freed
        \/ active < Limit /\ active' = active + 1
    BY <1>5 DEF Raise, Crash, redis
  <2> QED
    BY <1>1, <2>2, <2>3, StreamingAssumption DEF SlotNeverGivenTwice, Freed, c, d
<1>6. CASE UNCHANGED vars
  BY <1>6 DEF vars, redis, SlotNeverGivenTwice, On
<1> QED
  BY <1>2, <1>3, <1>4, <1>5, <1>6 DEF Next

\* No more tasks hold a slot than the counter in Redis says, and the counter never
\* passes the limit, whatever raises or dies.
THEOREM SlotGivenOnce == Spec => []SlotNeverGivenTwice
<1>1. Init => SlotNeverGivenTwice
  <2> SUFFICES ASSUME Init PROVE SlotNeverGivenTwice
    OBVIOUS
  <2>1. On(Holding) = {} /\ active = 0
    BY DEF Init, Idle, On, Holding
  <2> QED
    BY <2>1, FS_EmptySet, StreamingAssumption DEF SlotNeverGivenTwice
<1>2. TypeInv /\ SlotNeverGivenTwice /\ [Next]_vars => SlotNeverGivenTwice'
  BY SlotsKept
<1> QED
  BY <1>1, <1>2, Types, PTL DEF Spec

-----------------------------------------------------------------------------
(* The budget *)

\* What is claimed is paid, about to be paid, or lost with an incident; and the tasks
\* that claim saw a budget that was not used up, each in a slot of its own.
BudgetInv ==
  /\ IsFiniteSet(seen)
  /\ Cardinality(seen) + remaining <= MaxPages + Cardinality(On({"pay"})) + incidents
  /\ remaining >= 1 - Limit + Cardinality(On({"mark", "pay"}))

LEMMA BudgetKept ==
  ASSUME TypeInv, BudgetInv, SlotNeverGivenTwice, SlotNeverGivenTwice', [Next]_vars
  PROVE  BudgetInv'
<1> DEFINE p == Cardinality(On({"pay"}))
           q == Cardinality(On({"pay"})')
           m == Cardinality(On({"mark", "pay"}))
           n == Cardinality(On({"mark", "pay"})')
           s == Cardinality(seen)
<1>1. /\ remaining \in Int /\ incidents \in Nat /\ s \in Nat /\ Limit \in Nat /\ MaxPages \in Nat
      /\ s + remaining <= MaxPages + p + incidents
      /\ remaining >= 1 - Limit + m
  BY StreamingAssumption, FS_CardinalityType DEF TypeInv, TypeOK, BudgetInv
<1>2. CASE Request \/ RequestFails
  <2>1. p \in Nat /\ m \in Nat
    <3>1. IsFiniteSet(On({"pay"})) /\ IsFiniteSet(On({"mark", "pay"}))
      BY StreamingAssumption, FS_Subset DEF On
    <3> QED
      BY <3>1, FS_CardinalityType
  <2>2. CASE InitializeRun
    <3>1. On({"pay"})' = {} /\ On({"mark", "pay"})' = {}
      BY <2>2 DEF InitializeRun, TypeInv, NothingBeforeTheSeed, On
    <3>2. seen' = {Seed} /\ remaining' = MaxPages - 1 /\ incidents' = incidents
      BY <2>2 DEF InitializeRun
    <3>3. IsFiniteSet(seen') /\ Cardinality(seen') = 1 /\ q = 0 /\ n = 0
      BY <3>1, <3>2, FS_EmptySet, FS_Singleton
    <3> QED
      BY <1>1, <3>2, <3>3, StreamingAssumption DEF BudgetInv
  <2>3. CASE CreateRun \/ SendSeed \/ RequestFails
    <3>1. seen' = seen /\ remaining' = remaining /\ task' = task
          /\ incidents' \in {incidents, incidents + 1}
      BY <2>3 DEF CreateRun, SendSeed, RequestFails, Incident, redis
    <3>2. q = p /\ n = m
      BY <3>1 DEF On
    <3>3. s + remaining <= MaxPages + p + incidents'
      <4>1. incidents' \in Nat /\ incidents <= incidents'
        BY <1>1, <3>1
      <4> QED
        BY <1>1, <2>1, <4>1
    <3> QED
      BY <1>1, <3>1, <3>2, <3>3 DEF BudgetInv
  <2> QED
    BY <1>2, <2>2, <2>3 DEF Request
<1>3. ASSUME NEW w \in Worker, Take(w)
      PROVE  BudgetInv'
  <2>1. /\ task[w].pc = "idle" /\ task'[w].pc = "reserve"
        /\ \A v \in Worker \ {w} : task'[v] = task[v]
    BY <1>3, TakeFacts DEF TypeInv
  <2>2. p = q /\ m = n
    BY <2>1, OnFacts
  <2> QED
    BY <1>1, <1>3, <2>2 DEF BudgetInv, Take, redis
<1>4. ASSUME NEW w \in Worker, Step(w)
      PROVE  BudgetInv'
  <2>1. \A v \in Worker \ {w} : task'[v] = task[v]
    BY <1>4, StepMoves
  <2>2. /\ p \in Nat /\ q \in Nat /\ m \in Nat /\ n \in Nat
        /\ (task[w].pc = "pay" <=> task'[w].pc = "pay") => q = p
        /\ task[w].pc # "pay" /\ task'[w].pc = "pay" => q = p + 1
        /\ task[w].pc = "pay" /\ task'[w].pc # "pay" => q = p - 1
    BY <2>1, OnFacts
  <2>3. /\ (task[w].pc \in {"mark", "pay"} <=> task'[w].pc \in {"mark", "pay"}) => n = m
        /\ task[w].pc \notin {"mark", "pay"} /\ task'[w].pc \in {"mark", "pay"} => n = m + 1
        /\ task[w].pc \in {"mark", "pay"} /\ task'[w].pc \notin {"mark", "pay"} => n = m - 1
    BY <2>1, OnFacts
  <2>4. incidents' = incidents
    BY <1>4 DEF Step, Reserve, Refused, Begin, ProcessPage, Look, Mark, Pay, Send, Sent, Save,
                Count, Release
  <2>5. n <= Limit
    <3>1. On({"mark", "pay"})' \subseteq On(Holding)' /\ IsFiniteSet(On(Holding)')
      BY StreamingAssumption, FS_Subset DEF On, Holding
    <3>2. n <= Cardinality(On(Holding)') /\ Cardinality(On(Holding)') \in Nat
      BY <3>1, FS_Subset, FS_CardinalityType
    <3>3. active' \in Nat
      BY <1>4, StepTypes DEF TypeOK
    <3>4. Cardinality(On(Holding)') <= active' /\ active' <= Limit
      BY DEF SlotNeverGivenTwice
    <3> QED
      BY <1>1, <2>2, <3>2, <3>3, <3>4
  <2> HIDE DEF p, q, m, n, s
  <2>6. CASE Look(w) /\ task[w].pc = "look" /\ task'[w].pc = "mark" /\ remaining > 0
    <3>1. seen' = seen /\ remaining' = remaining
      BY <2>6 DEF Look, redis
    <3>2. q = p /\ 1 - Limit + n <= remaining
      BY <1>1, <2>2, <2>5, <2>6
    <3> QED
      BY <1>1, <2>4, <3>1, <3>2 DEF BudgetInv, p, q, m, n, s
  <2>7. CASE Mark(w) /\ task[w].pc = "mark" /\ task'[w].pc = "look" /\ seen' = seen
    <3>1. remaining' = remaining
      BY <2>7 DEF Mark
    <3>2. q = p /\ n = m - 1
      BY <2>2, <2>3, <2>7
    <3>3. remaining >= 1 - Limit + n
      BY <1>1, <2>2, <3>2
    <3> QED
      BY <1>1, <2>4, <2>7, <3>1, <3>2, <3>3 DEF BudgetInv, p, q, m, n, s
  <2>8. CASE Mark(w) /\ task[w].pc = "mark" /\ task'[w].pc = "pay"
    <3>1. remaining' = remaining
      BY <2>8 DEF Mark
    <3>2. IsFiniteSet(seen') /\ Cardinality(seen') <= s + 1 /\ Cardinality(seen') \in Nat
      <4>1. PICK child \in Page : seen' = seen \cup {child}
        BY <2>8, MarkFacts DEF TypeInv
      <4>2. IsFiniteSet(seen)
        BY DEF BudgetInv
      <4>3. IsFiniteSet(seen \cup {child})
            /\ Cardinality(seen \cup {child}) \in {s, s + 1}
        BY <4>2, FS_AddElement DEF s
      <4> QED
        BY <1>1, <4>1, <4>3
    <3>3. q = p + 1 /\ n = m
      BY <2>2, <2>3, <2>8
    <3>4. Cardinality(seen') + remaining <= MaxPages + q + incidents
      BY <1>1, <2>2, <3>2, <3>3
    <3> QED
      BY <1>1, <2>4, <3>1, <3>2, <3>3, <3>4 DEF BudgetInv, p, q, m, n, s
  <2>9. CASE Pay(w) /\ task[w].pc = "pay" /\ task'[w].pc = "look"
    <3>1. remaining' = remaining - 1 /\ seen' = seen
      BY <2>9 DEF Pay
    <3>2. q = p - 1 /\ n = m - 1
      BY <2>2, <2>3, <2>9
    <3>3. s + remaining' <= MaxPages + q + incidents /\ remaining' >= 1 - Limit + n
      BY <1>1, <2>2, <3>1, <3>2
    <3> QED
      BY <1>1, <2>4, <3>1, <3>2, <3>3 DEF BudgetInv, p, q, m, n, s
  <2>10. CASE /\ task[w].pc \notin {"mark", "pay"} /\ task'[w].pc \notin {"mark", "pay"}
              /\ ~Mark(w) /\ ~Pay(w)
    <3>1. remaining' = remaining /\ seen' = seen
      BY <1>4, <2>10 DEF Step, Reserve, Refused, Begin, ProcessPage, Look, Send, Sent, Save,
                         Count, Release, redis
    <3>2. q = p /\ n = m
      BY <2>2, <2>3, <2>10
    <3> QED
      BY <1>1, <2>4, <3>1, <3>2 DEF BudgetInv, p, q, m, n, s
  <2>11. CASE task[w].pc \notin {"mark", "pay"} /\ (Mark(w) \/ Pay(w))
    BY <2>11 DEF Mark, Pay, Goto
  <2> QED
    BY <1>4, <2>6, <2>7, <2>8, <2>9, <2>10, <2>11, StepMoves
<1>5. ASSUME NEW w \in Worker, Raise(w) \/ Crash(w)
      PROVE  BudgetInv'
  <2>1. /\ task'[w].pc = "idle" /\ \A v \in Worker \ {w} : task'[v] = task[v]
        /\ seen' = seen /\ remaining' = remaining /\ incidents' = incidents + 1
    BY <1>5, IncidentFacts DEF TypeInv
  <2>2. p \in Nat /\ q \in Nat /\ q \in {p, p - 1}
    BY <2>1, OnFacts
  <2>3. m \in Nat /\ n \in Nat /\ n \in {m, m - 1}
    BY <2>1, OnFacts
  <2> HIDE DEF p, q, m, n, s
  <2>4. s + remaining <= MaxPages + q + incidents' /\ remaining >= 1 - Limit + n
    BY <1>1, <2>1, <2>2, <2>3
  <2> QED
    BY <1>1, <2>1, <2>4 DEF BudgetInv, p, q, m, n, s
<1>6. CASE UNCHANGED vars
  BY <1>6 DEF vars, redis, BudgetInv, On
<1> QED
  BY <1>2, <1>3, <1>4, <1>5, <1>6 DEF Next

\* The pages claimed pass max_pages by at most one per other slot and one per incident.
THEOREM BudgetOvershoot == Spec => []PageBudgetOvershoot
<1>1. Init => BudgetInv
  <2> SUFFICES ASSUME Init PROVE BudgetInv
    OBVIOUS
  <2>1. On({"pay"}) = {} /\ On({"mark", "pay"}) = {}
    BY DEF Init, Idle, On
  <2>2. /\ IsFiniteSet(seen) /\ Cardinality(seen) = 0 /\ remaining = 0 /\ incidents = 0
        /\ Cardinality(On({"pay"})) = 0 /\ Cardinality(On({"mark", "pay"})) = 0
    BY <2>1, FS_EmptySet DEF Init
  <2>3. MaxPages \in Nat /\ Limit \in Nat /\ Limit >= 1
    BY StreamingAssumption
  <2> QED
    BY <2>2, <2>3 DEF BudgetInv
<1>2. TypeInv /\ BudgetInv /\ SlotNeverGivenTwice /\ SlotNeverGivenTwice' /\ [Next]_vars
        => BudgetInv'
  BY BudgetKept
<1>3. TypeInv /\ BudgetInv => PageBudgetOvershoot
  <2> SUFFICES ASSUME TypeInv, BudgetInv PROVE PageBudgetOvershoot
    OBVIOUS
  <2> DEFINE p == Cardinality(On({"pay"}))
             m == Cardinality(On({"mark", "pay"}))
             s == Cardinality(seen)
  <2>1. IsFiniteSet(On({"mark", "pay"})) /\ On({"pay"}) \subseteq On({"mark", "pay"})
    BY StreamingAssumption, FS_Subset DEF On
  <2>2. p \in Nat /\ m \in Nat /\ p <= m
    BY <2>1, FS_Subset, FS_CardinalityType
  <2>3. s \in Nat /\ remaining \in Int /\ incidents \in Nat
    BY StreamingAssumption, FS_CardinalityType DEF TypeInv, TypeOK, BudgetInv
  <2>4. s + remaining <= MaxPages + p + incidents /\ remaining >= 1 - Limit + m
    BY DEF BudgetInv
  <2> HIDE DEF p, m, s
  <2>5. s <= MaxPages + Limit - 1 + incidents
    BY <2>2, <2>3, <2>4, StreamingAssumption
  <2> QED
    BY <2>5 DEF PageBudgetOvershoot, s
<1> QED
  BY <1>1, <1>2, <1>3, Types, SlotGivenOnce, PTL DEF Spec

-----------------------------------------------------------------------------
(* Places *)

Busy == {"reserve"} \cup Holding

\* The links that worker w has claimed and not sent yet.
Unsent(w) ==
  IF task[w].pc = "send" THEN task[w].todo
  ELSE IF task[w].pc \in {"look", "mark", "pay"} THEN task[w].kids ELSE <<>>

Elements(s) == {s[i] : i \in 1 .. Len(s)}
Distinct(s) == \A i, j \in 1 .. Len(s) : s[i] = s[j] => i = j

\* A task has claimed nothing before it looks at its links.
FreshTasks ==
  \A w \in Worker : task[w].pc \in {"reserve", "begin", "page"} => task[w].kids = <<>>

\* The kinds of step of worker w, by what they do to the places of pages.
Takes(w) ==
  /\ task[w].pc = "idle" /\ task'[w].pc = "reserve" /\ Unsent(w)' = <<>>
  /\ \E m \in queue : queue' = queue \ {m} /\ task'[w].msg = m
  /\ UNCHANGED <<seen, results>>

Keeps(w) ==
  /\ task[w].pc \in Busy \ {"save"} /\ task'[w].pc \in Busy /\ task'[w].msg = task[w].msg
  /\ Unsent(w)' = Unsent(w)
  /\ UNCHANGED <<queue, seen, results>>

Claims(w) ==
  /\ task[w].pc = "mark" /\ task'[w].pc = "pay" /\ task'[w].msg = task[w].msg
  /\ \E child \in Page \ seen :
       seen' = seen \cup {child} /\ Unsent(w)' = Append(Unsent(w), child)
  /\ UNCHANGED <<queue, results>>

Sends(w) ==
  /\ task[w].pc = "send" /\ task'[w].pc = "send" /\ task'[w].msg = task[w].msg
  /\ Unsent(w) # <<>> /\ Unsent(w)' = Tail(Unsent(w))
  /\ \E m \in Message : m.page = Head(Unsent(w)) /\ queue' = queue \cup {m}
  /\ UNCHANGED <<seen, results>>

Saves(w) ==
  /\ task[w].pc = "save" /\ task'[w].pc = "count" /\ task'[w].msg = task[w].msg
  /\ Unsent(w) = <<>> /\ Unsent(w)' = <<>>
  /\ results' = results \cup {task[w].msg.page}
  /\ UNCHANGED <<queue, seen>>

Leaves(w) ==
  /\ task[w].pc \in Busy /\ task'[w].pc = "idle" /\ Unsent(w)' = <<>>
  /\ \E again \in SUBSET Message :
       /\ queue' = queue \cup again
       /\ \A n \in again : n.page = task[w].msg.page
       /\ \A n, o \in again : n = o
       /\ task[w].pc = "release" /\ incidents' = incidents => again = {}
  /\ UNCHANGED <<seen, results>>

LEMMA StepKinds ==
  ASSUME TypeInv, FreshTasks, NEW w \in Worker, Take(w) \/ Step(w) \/ Raise(w) \/ Crash(w)
  PROVE  /\ \A v \in Worker \ {w} : task'[v] = task[v]
         /\ task'[w].pc \in {"reserve", "begin", "page"} => task'[w].kids = <<>>
         /\ Takes(w) \/ Keeps(w) \/ Claims(w) \/ Sends(w) \/ Saves(w) \/ Leaves(w)
<1>1. TypeOK /\ Descends /\ task \in [Worker -> Task] /\ task[w] \in Task
      /\ task[w].msg \in Message
  BY DEF TypeInv, TypeOK, Task
<1>2. CASE Take(w)
  <2>1. PICK m \in queue :
           /\ queue' = queue \ {m} /\ task[w].pc = "idle"
           /\ task'[w].pc = "reserve" /\ task'[w].msg = m /\ task'[w].kids = <<>>
           /\ \A v \in Worker \ {w} : task'[v] = task[v]
    BY <1>1, <1>2, TakeFacts
  <2>2. UNCHANGED <<seen, results>>
    BY <1>2 DEF Take, redis
  <2>3. Takes(w)
    BY <2>1, <2>2 DEF Takes, Unsent
  <2> QED
    BY <2>1, <2>3
<1>3. CASE Reserve(w)
  BY <1>1, <1>3, GotoFacts DEF Reserve, Keeps, Unsent, Busy, Holding, FreshTasks
<1>4. CASE Refused(w)
  <2>1. /\ Retried(task[w].msg) \in SUBSET Message
        /\ \A n \in Retried(task[w].msg) : n.page = task[w].msg.page
        /\ \A n, o \in Retried(task[w].msg) : n = o
    BY <1>1, RetriedFacts
  <2>2. /\ task[w].pc = "reserve" /\ queue' = queue \cup Retried(task[w].msg)
        /\ task'[w].pc = "idle" /\ \A v \in Worker \ {w} : task'[v] = task[v]
        /\ UNCHANGED <<seen, results>>
    BY <1>1, <1>4, IdleAgain DEF Refused, redis
  <2>3. Leaves(w)
    BY <2>1, <2>2 DEF Leaves, Unsent, Busy
  <2> QED
    BY <2>2, <2>3
<1>5. CASE Begin(w)
  BY <1>1, <1>5, GotoFacts DEF Begin, Keeps, Unsent, Busy, Holding, FreshTasks, redis
<1>6. CASE ProcessPage(w)
  <2>1. UNCHANGED <<queue, seen, results>>
    BY <1>6 DEF ProcessPage, redis
  <2>2. /\ task[w].pc = "page" /\ task'[w].pc \in {"look", "save"} /\ task'[w].msg = task[w].msg
        /\ task'[w].kids = task[w].kids /\ task[w].kids = <<>>
        /\ \A v \in Worker \ {w} : task'[v] = task[v]
    BY <1>1, <1>6, ProcessPageFacts DEF FreshTasks
  <2> QED
    BY <2>1, <2>2 DEF Keeps, Unsent, Busy, Holding
<1>7. CASE Look(w)
  <2>1. UNCHANGED <<queue, seen, results>>
    BY <1>7 DEF Look, redis
  <2>2. /\ task[w].pc = "look" /\ task'[w].msg = task[w].msg /\ task'[w].kids = task[w].kids
        /\ \/ task'[w].pc = "send" /\ task'[w].todo = task[w].kids
           \/ task'[w].pc = "look" \/ task'[w].pc = "mark"
        /\ \A v \in Worker \ {w} : task'[v] = task[v]
    BY <1>1, <1>7, LookFacts
  <2> QED
    BY <2>1, <2>2 DEF Keeps, Unsent, Busy, Holding
<1>8. CASE Mark(w)
  <2>1. UNCHANGED <<queue, results>>
    BY <1>8 DEF Mark
  <2>2. PICK child \in Page :
           /\ task[w].pc = "mark" /\ seen' = seen \cup {child}
           /\ \/ /\ child \in seen /\ task'[w].pc = "look" /\ task'[w].kids = task[w].kids
              \/ /\ child \notin seen /\ task'[w].pc = "pay"
                 /\ task'[w].kids = Append(task[w].kids, child)
           /\ task'[w].msg = task[w].msg
           /\ \A v \in Worker \ {w} : task'[v] = task[v]
    BY <1>1, <1>8, MarkFacts
  <2>3. CASE child \in seen
    <3>1. seen' = seen
      BY <2>2, <2>3
    <3> QED
      BY <2>1, <2>2, <2>3, <3>1 DEF Keeps, Unsent, Busy, Holding
  <2>4. CASE child \notin seen
    BY <2>1, <2>2, <2>4 DEF Claims, Unsent
  <2> QED
    BY <2>3, <2>4
<1>9. CASE Pay(w)
  BY <1>1, <1>9, GotoFacts DEF Pay, Keeps, Unsent, Busy, Holding
<1>10. CASE Send(w)
  <2>1. UNCHANGED <<seen, results>>
    BY <1>10 DEF Send, redis
  <2>2. PICK m \in Message :
           /\ task[w].pc = "send" /\ task[w].todo # <<>> /\ m.page = Head(task[w].todo)
           /\ queue' = queue \cup {m}
           /\ task'[w].pc = "send"
           /\ task'[w].msg = task[w].msg /\ task'[w].todo = Tail(task[w].todo)
           /\ \A v \in Worker \ {w} : task'[v] = task[v]
    BY <1>1, <1>10, SendFacts
  <2> QED
    BY <2>1, <2>2 DEF Sends, Unsent
<1>11. CASE Sent(w)
  BY <1>1, <1>11, GotoFacts DEF Sent, Keeps, Unsent, Busy, Holding, redis
<1>12. CASE Save(w)
  BY <1>1, <1>12, GotoFacts DEF Save, Saves, Unsent, redis
<1>13. CASE Count(w)
  BY <1>1, <1>13, GotoFacts DEF Count, Keeps, Unsent, Busy, Holding, redis
<1>14. CASE Release(w)
  <2>1. /\ task[w].pc = "release" /\ task'[w].pc = "idle"
        /\ \A v \in Worker \ {w} : task'[v] = task[v]
        /\ UNCHANGED <<queue, seen, results>>
    BY <1>1, <1>14, IdleAgain DEF Release
  <2>2. queue' = queue \cup {} /\ {} \in SUBSET Message
    BY <2>1
  <2> QED
    BY <2>1, <2>2 DEF Leaves, Unsent, Busy, Holding
<1>15. CASE Raise(w) \/ Crash(w)
  <2>1. /\ task[w].pc # "idle" /\ incidents' = incidents + 1 /\ task'[w].pc = "idle"
        /\ \A v \in Worker \ {w} : task'[v] = task[v]
        /\ UNCHANGED <<seen, results>>
    BY <1>1, <1>15, IncidentFacts
  <2>2. PICK again \in SUBSET Message :
          /\ queue' = queue \cup again
          /\ \A n \in again : n.page = task[w].msg.page
          /\ \A n, o \in again : n = o
    BY <1>1, <1>15, IncidentFacts
  <2>3. task[w].pc \in Busy
    BY <1>1, <2>1 DEF Busy, Holding, Task
  <2>4. incidents' # incidents
    BY <1>1, <2>1, StreamingAssumption DEF TypeOK
  <2> QED
    BY <2>1, <2>2, <2>3, <2>4 DEF Leaves, Unsent
<1> QED
  BY <1>2, <1>3, <1>4, <1>5, <1>6, <1>7, <1>8, <1>9, <1>10, <1>11, <1>12, <1>13, <1>14, <1>15
  DEF Step

LEMMA EmptySeqFacts == Elements(<<>>) = {} /\ Distinct(<<>>)
  BY DEF Elements, Distinct

LEMMA AppendFacts ==
  ASSUME NEW s \in Seq(Page), NEW e \in Page, Distinct(s), e \notin Elements(s)
  PROVE  Elements(Append(s, e)) = Elements(s) \cup {e} /\ Distinct(Append(s, e))
<1> DEFINE t == Append(s, e)
<1>1. Len(t) = Len(s) + 1 /\ Len(s) \in Nat /\ t[Len(s) + 1] = e
      /\ \A i \in 1 .. Len(s) : t[i] = s[i]
  OBVIOUS
<1> HIDE DEF t
<1>2. Elements(t) = Elements(s) \cup {e}
  <2>1. ASSUME NEW x \in Elements(t) PROVE x \in Elements(s) \cup {e}
    BY <1>1, <2>1 DEF Elements
  <2>2. ASSUME NEW x \in Elements(s) PROVE x \in Elements(t)
    BY <1>1, <2>2 DEF Elements
  <2>3. e \in Elements(t)
    BY <1>1 DEF Elements
  <2> QED
    BY <2>1, <2>2, <2>3
<1>3. Distinct(t)
  BY <1>1 DEF Distinct, Elements
<1> QED
  BY <1>2, <1>3 DEF t

LEMMA TailFacts ==
  ASSUME NEW s \in Seq(Page), s # <<>>, Distinct(s)
  PROVE  /\ Head(s) \in Elements(s) /\ Elements(Tail(s)) = Elements(s) \ {Head(s)}
         /\ Distinct(Tail(s))
<1> DEFINE t == Tail(s)
<1>1. Len(s) \in Nat /\ Len(s) > 0 /\ Len(t) = Len(s) - 1 /\ Head(s) = s[1]
      /\ \A i \in 1 .. Len(t) : t[i] = s[i + 1]
  OBVIOUS
<1> HIDE DEF t
<1>2. Head(s) \in Elements(s)
  BY <1>1 DEF Elements
<1>3. Elements(t) = Elements(s) \ {Head(s)}
  <2>1. ASSUME NEW x \in Elements(t) PROVE x \in Elements(s) /\ x # Head(s)
    <3>1. PICK i \in 1 .. Len(t) : x = s[i + 1]
      BY <1>1, <2>1 DEF Elements
    <3> QED
      BY <1>1, <3>1 DEF Elements, Distinct
  <2>2. ASSUME NEW x \in Elements(s), x # Head(s) PROVE x \in Elements(t)
    <3>1. PICK i \in 1 .. Len(s) : x = s[i]
      BY <2>2 DEF Elements
    <3>2. i # 1 /\ i - 1 \in 1 .. Len(t) /\ t[i - 1] = x
      BY <1>1, <2>2, <3>1
    <3> QED
      BY <3>2 DEF Elements
  <2> QED
    BY <2>1, <2>2
<1>4. Distinct(t)
  <2> SUFFICES ASSUME NEW i \in 1 .. Len(t), NEW j \in 1 .. Len(t), t[i] = t[j] PROVE i = j
    BY DEF Distinct
  <2>1. i + 1 \in 1 .. Len(s) /\ j + 1 \in 1 .. Len(s) /\ s[i + 1] = s[j + 1]
    BY <1>1
  <2> QED
    BY <2>1 DEF Distinct
<1> QED
  BY <1>2, <1>3, <1>4 DEF t

\* A page is in one place, which is a page claimed before: waiting, executed, or a link
\* that a task has claimed and not sent yet.  Those links have no result yet.
PlacesInv ==
  /\ FreshTasks
  /\ \A m, n \in queue : m.page = n.page => m = n
  /\ \A v, w \in Worker :
       task[v].pc \in Busy /\ task[w].pc \in Busy /\ v # w => task[v].msg.page # task[w].msg.page
  /\ \A m \in queue, w \in Worker : task[w].pc \in Busy => m.page # task[w].msg.page
  /\ results \subseteq seen /\ \A m \in queue : m.page \in seen
  /\ \A w \in Worker : task[w].pc \in Busy => task[w].msg.page \in seen
  /\ \A w \in Worker :
       /\ Distinct(Unsent(w)) /\ Elements(Unsent(w)) \subseteq seen
       /\ Elements(Unsent(w)) \cap results = {}
       /\ \A m \in queue : m.page \notin Elements(Unsent(w))
       /\ \A v \in Worker : task[v].pc \in Busy => task[v].msg.page \notin Elements(Unsent(w))
       /\ \A v \in Worker : v # w => Elements(Unsent(v)) \cap Elements(Unsent(w)) = {}

LEMMA PlacesKeptByWorker ==
  ASSUME TypeInv, PlacesInv, NEW w \in Worker, Take(w) \/ Step(w) \/ Raise(w) \/ Crash(w)
  PROVE  PlacesInv'
<1>1. /\ \A v \in Worker \ {w} : task'[v] = task[v]
      /\ task'[w].pc \in {"reserve", "begin", "page"} => task'[w].kids = <<>>
      /\ Takes(w) \/ Keeps(w) \/ Claims(w) \/ Sends(w) \/ Saves(w) \/ Leaves(w)
  BY StepKinds DEF PlacesInv
<1>2. FreshTasks'
  BY <1>1 DEF FreshTasks, PlacesInv
<1>3. \A v \in Worker \ {w} : Unsent(v)' = Unsent(v)
  BY <1>1 DEF Unsent
<1>4. Unsent(w) \in Seq(Page)
  BY DEF TypeInv, TypeOK, Task, Unsent
<1>5. "idle" \notin Busy /\ {"reserve", "mark", "pay", "send", "save", "count"} \subseteq Busy
  BY DEF Busy, Holding
<1> DEFINE E(v) == Elements(Unsent(v))
<1>6. CASE Takes(w)
  <2>1. PICK m \in queue : queue' = queue \ {m} /\ task'[w].msg = m
    BY <1>6 DEF Takes
  <2>2. Unsent(w)' = <<>> /\ Elements(<<>>) = {} /\ Distinct(<<>>)
    BY <1>6, EmptySeqFacts DEF Takes
  <2> QED
    BY <1>1, <1>2, <1>3, <1>5, <1>6, <2>1, <2>2 DEF Takes, PlacesInv
<1>7. CASE Keeps(w)
  BY <1>1, <1>2, <1>3, <1>5, <1>7 DEF Keeps, PlacesInv
<1>8. CASE Claims(w)
  <2>1. PICK child \in Page \ seen :
          seen' = seen \cup {child} /\ Unsent(w)' = Append(Unsent(w), child)
    BY <1>8 DEF Claims
  <2>2. Elements(Unsent(w)') = Elements(Unsent(w)) \cup {child} /\ Distinct(Unsent(w)')
    BY <1>4, <2>1, AppendFacts DEF PlacesInv
  <2>3. /\ child \notin results /\ \A m \in queue : m.page # child
        /\ \A v \in Worker : task[v].pc \in Busy => task[v].msg.page # child
        /\ \A v \in Worker : child \notin Elements(Unsent(v))
    BY <2>1 DEF PlacesInv
  <2>4. /\ queue' = queue /\ results' = results /\ task[w].pc \in Busy /\ task'[w].pc \in Busy
        /\ task'[w].msg = task[w].msg
    BY <1>5, <1>8 DEF Claims
  <2>5. \A v \in Worker : task'[v].msg = task[v].msg /\ (task'[v].pc \in Busy <=> task[v].pc \in Busy)
    BY <1>1, <2>4
  <2>6. ASSUME NEW v \in Worker
        PROVE  /\ Distinct(Unsent(v)')
               /\ Elements(Unsent(v)') = IF v = w THEN Elements(Unsent(v)) \cup {child}
                                         ELSE Elements(Unsent(v))
    BY <1>3, <2>2 DEF PlacesInv
  <2> QED
    BY <1>2, <2>1, <2>3, <2>4, <2>5, <2>6 DEF PlacesInv
<1>9. CASE Sends(w)
  <2>1. PICK m \in Message : m.page = Head(Unsent(w)) /\ queue' = queue \cup {m}
    BY <1>9 DEF Sends
  <2>2. /\ m.page \in Elements(Unsent(w))
        /\ Elements(Unsent(w)') = Elements(Unsent(w)) \ {m.page} /\ Distinct(Unsent(w)')
    BY <1>4, <1>9, <2>1, TailFacts DEF Sends, PlacesInv
  <2>3. /\ m.page \in seen /\ m.page \notin results /\ \A n \in queue : n.page # m.page
        /\ \A v \in Worker : task[v].pc \in Busy => task[v].msg.page # m.page
        /\ \A v \in Worker \ {w} : m.page \notin Elements(Unsent(v))
    BY <2>2 DEF PlacesInv
  <2>4. /\ seen' = seen /\ results' = results /\ task[w].pc \in Busy /\ task'[w].pc \in Busy
        /\ task'[w].msg = task[w].msg
    BY <1>5, <1>9 DEF Sends
  <2>5. \A v \in Worker : task'[v].msg = task[v].msg /\ (task'[v].pc \in Busy <=> task[v].pc \in Busy)
    BY <1>1, <2>4
  <2>6. ASSUME NEW v \in Worker
        PROVE  /\ Distinct(Unsent(v)') /\ m.page \notin Elements(Unsent(v)')
               /\ Elements(Unsent(v)') \subseteq Elements(Unsent(v))
    BY <1>3, <2>2, <2>3 DEF PlacesInv
  <2> QED
    BY <1>2, <2>1, <2>3, <2>4, <2>5, <2>6 DEF PlacesInv
<1>10. CASE Saves(w)
  BY <1>1, <1>2, <1>3, <1>5, <1>10, EmptySeqFacts DEF Saves, PlacesInv
<1>11. CASE Leaves(w)
  <2>1. PICK again \in SUBSET Message :
       /\ queue' = queue \cup again
       /\ \A n \in again : n.page = task[w].msg.page
       /\ \A n, o \in again : n = o
    BY <1>11 DEF Leaves
  <2>2. Unsent(w)' = <<>> /\ Elements(<<>>) = {} /\ Distinct(<<>>)
    BY <1>11, EmptySeqFacts DEF Leaves
  <2> QED
    BY <1>1, <1>2, <1>3, <1>5, <1>11, <2>1, <2>2 DEF Leaves, PlacesInv
<1> QED
  BY <1>1, <1>6, <1>7, <1>8, <1>9, <1>10, <1>11

LEMMA PlacesKept ==
  ASSUME TypeInv, PlacesInv, [Next]_vars
  PROVE  PlacesInv'
<1>1. CASE Request \/ RequestFails
  <2>1. task' = task /\ results' = results
    BY <1>1 DEF Request, CreateRun, InitializeRun, SendSeed, RequestFails
  <2>2. \A v \in Worker : Unsent(v)' = Unsent(v)
    BY <2>1 DEF Unsent
  <2>3. CASE InitializeRun \/ SendSeed
    <3>1. /\ queue = {} /\ results = {} /\ \A v \in Worker : task[v].pc = "idle"
          /\ api = "redis" => seen = {}
          /\ api = "send" => seen = {Seed}
      BY <2>3 DEF InitializeRun, SendSeed, TypeInv, NothingBeforeTheSeed
    <3>2. \A v \in Worker : Unsent(v) = <<>> /\ Elements(<<>>) = {} /\ Distinct(<<>>)
      BY <3>1, EmptySeqFacts DEF Unsent
    <3>3. "idle" \notin Busy
      BY DEF Busy, Holding
    <3>4. /\ queue' \in {{}, {[page |-> Seed, depth |-> 0, retries |-> 0]}}
          /\ queue' # {} => seen' = {Seed}
      BY <2>3, <3>1 DEF InitializeRun, SendSeed, redis
    <3>5. \A m \in queue' : m.page = Seed
      BY <3>4
    <3>6. \A m, n \in queue' : m = n
      BY <3>4
    <3> QED
      BY <2>1, <2>2, <3>1, <3>2, <3>3, <3>4, <3>5, <3>6 DEF PlacesInv, FreshTasks
  <2>4. CASE CreateRun \/ RequestFails
    <3>1. UNCHANGED <<queue, seen, results, task>>
      BY <2>4 DEF CreateRun, RequestFails, redis
    <3> QED
      BY <2>2, <3>1 DEF PlacesInv, FreshTasks
  <2> QED
    BY <1>1, <2>3, <2>4 DEF Request
<1>2. ASSUME NEW w \in Worker, Take(w) \/ Step(w) \/ Raise(w) \/ Crash(w)
      PROVE  PlacesInv'
  BY <1>2, PlacesKeptByWorker
<1>3. CASE UNCHANGED vars
  BY <1>3 DEF vars, redis, PlacesInv, FreshTasks, Unsent
<1> QED
  BY <1>1, <1>2, <1>3 DEF Next

LEMMA Places == Spec => []PlacesInv
<1>1. Init => PlacesInv
  <2> SUFFICES ASSUME Init PROVE PlacesInv
    OBVIOUS
  <2>1. \A v \in Worker : task[v].pc = "idle" /\ Unsent(v) = <<>>
    BY DEF Init, Idle, Unsent
  <2>2. Elements(<<>>) = {} /\ Distinct(<<>>) /\ "idle" \notin Busy
    BY EmptySeqFacts DEF Busy, Holding
  <2> QED
    BY <2>1, <2>2 DEF Init, PlacesInv, FreshTasks
<1> QED
  BY <1>1, PlacesKept, Types, PTL DEF Spec

\* A page is waiting at the broker or executed by one worker, however many pages link to
\* it and however often its task is sent again.
THEOREM OnePlace == Spec => []EachPageInOnePlace
<1>1. PlacesInv => EachPageInOnePlace
  BY DEF PlacesInv, EachPageInOnePlace, On, Busy
<1> QED
  BY <1>1, Places, PTL

-----------------------------------------------------------------------------
(* Counters *)

Early == {"reserve", "begin", "page", "look", "mark", "pay", "send", "save"}

\* Pages with a result, whose task is to be executed again.
Again ==
  {p \in results : \/ \E m \in queue : m.page = p
                   \/ \E w \in Worker : task[w].pc \in Early /\ task[w].msg.page = p}

Counted == run.ended + Cardinality(On({"count"}))

\* What will be counted again has its incident.
CountInv ==
  /\ IsFiniteSet(results)
  /\ Counted + Cardinality(Again) <= Cardinality(results) + incidents
  /\ Counted + incidents >= Cardinality(results)

\* How a step of a task changes the number of counted pages and of incidents.
LEMMA CountedFacts ==
  ASSUME TypeInv, FreshTasks, NEW w \in Worker, Take(w) \/ Step(w) \/ Raise(w) \/ Crash(w)
  PROVE  /\ Counted \in Nat /\ Counted' \in Nat
         /\ Saves(w) => Counted' = Counted + 1 /\ incidents' = incidents
         /\ Takes(w) \/ Keeps(w) \/ Claims(w) \/ Sends(w) =>
              Counted' = Counted /\ incidents' = incidents
         /\ Leaves(w) =>
              \/ Counted' = Counted /\ incidents' = incidents /\ task[w].pc \in {"reserve", "release"}
              \/ Counted' = Counted /\ incidents' = incidents + 1 /\ task[w].pc # "count"
              \/ Counted' = Counted - 1 /\ incidents' = incidents + 1 /\ task[w].pc = "count"
         /\ Keeps(w) => (task[w].pc \in Early <=> task'[w].pc \in Early)
<1> DEFINE p == Cardinality(On({"count"}))
           q == Cardinality(On({"count"})')
<1>1. run.ended \in Nat
  BY DEF TypeInv, TypeOK
<1>2. \A v \in Worker \ {w} : task'[v] = task[v]
  BY StepKinds
<1>3. /\ p \in Nat /\ q \in Nat
      /\ (task[w].pc = "count" <=> task'[w].pc = "count") => q = p
      /\ task[w].pc # "count" /\ task'[w].pc = "count" => q = p + 1
      /\ task[w].pc = "count" /\ task'[w].pc # "count" => q = p - 1
  BY <1>2, OnFacts
<1>4. Counted = run.ended + p /\ Counted' = run'.ended + q
  BY DEF Counted
<1> HIDE DEF p, q
<1>5. CASE Take(w)
  <2>1. run' = run /\ incidents' = incidents /\ task[w].pc = "idle" /\ task'[w].pc = "reserve"
    BY <1>5, TakeFacts DEF Take, TypeInv
  <2> QED
    BY <1>1, <1>3, <1>4, <2>1 DEF Saves, Keeps, Leaves, Busy, Holding
<1>6. CASE Step(w)
  <2>1. incidents' = incidents
    BY <1>6 DEF Step, Reserve, Refused, Begin, ProcessPage, Look, Mark, Pay, Send, Sent, Save,
                Count, Release
  <2>2. CASE Count(w)
    <3>1. run'.ended = run.ended + 1 /\ task[w].pc = "count" /\ task'[w].pc = "release"
      <4>1. task[w].pc = "count" /\ task'[w].pc = "release"
        BY <2>2, GotoFacts DEF Count, TypeInv, TypeOK
      <4> QED
        BY <2>2, <4>1 DEF Count
    <3> QED
      BY <1>1, <1>3, <1>4, <2>1, <3>1 DEF Takes, Saves, Leaves, Claims, Sends, Early
  <2>3. CASE ~Count(w)
    <3>1. run'.ended = run.ended
      BY <1>6, <2>3 DEF Step, Reserve, Refused, Begin, ProcessPage, Look, Mark, Pay, Send, Sent,
                        Save, Release, TypeInv, TypeOK
    <3>2. /\ task[w].pc # "count"
          /\ task'[w].pc = "count" => task[w].pc = "save"
          /\ task[w].pc \in Early /\ task'[w].pc \notin Early =>
               task'[w].pc \in {"idle", "count"}
          /\ task[w].pc \notin Early => task'[w].pc \notin Early
          /\ task'[w].pc = "idle" => task[w].pc \in {"reserve", "release"}
          /\ task[w].pc = "save" => task'[w].pc = "count"
      BY <1>6, <2>3, StepMoves DEF Early
    <3>3. /\ Counted \in Nat /\ Counted' \in Nat
          /\ task[w].pc = "save" => Counted' = Counted + 1
          /\ task[w].pc # "save" => Counted' = Counted
      BY <1>1, <1>3, <1>4, <3>1, <3>2
    <3> QED
      BY <2>1, <3>2, <3>3 DEF Takes, Saves, Leaves, Claims, Sends, Keeps, Busy, Holding
  <2> QED
    BY <2>2, <2>3
<1>7. CASE Raise(w) \/ Crash(w)
  <2>1. run' = run /\ incidents' = incidents + 1 /\ task'[w].pc = "idle" /\ task[w].pc # "idle"
    BY <1>7, IncidentFacts DEF TypeInv
  <2> QED
    BY <1>1, <1>3, <1>4, <2>1 DEF Takes, Saves, Leaves, Claims, Sends, Keeps, Busy, Holding
<1> QED
  BY <1>5, <1>6, <1>7

\* How a step changes the results and the pages that are to be executed again.
LEMMA AgainFacts ==
  ASSUME TypeInv, PlacesInv, PlacesInv', IsFiniteSet(results),
         NEW w \in Worker, Take(w) \/ Step(w) \/ Raise(w) \/ Crash(w)
  PROVE  /\ IsFiniteSet(Again) /\ IsFiniteSet(Again') /\ IsFiniteSet(results')
         /\ Takes(w) \/ Keeps(w) \/ Claims(w) \/ Sends(w) => Again' \subseteq Again /\ results' = results
         /\ Saves(w) =>
              \/ /\ task[w].msg.page \in Again /\ results' = results
                 /\ Again' \subseteq Again \ {task[w].msg.page}
              \/ /\ task[w].msg.page \notin results
                 /\ results' = results \cup {task[w].msg.page} /\ Again' \subseteq Again
         /\ Leaves(w) =>
              /\ results' = results /\ Again' \subseteq Again \cup {task[w].msg.page}
              /\ task[w].pc \in Early => Again' \subseteq Again
              /\ task[w].pc = "release" /\ incidents' = incidents => Again' \subseteq Again
<1> DEFINE p == task[w].msg.page
<1>1. /\ \A v \in Worker \ {w} : task'[v] = task[v]
      /\ Takes(w) \/ Keeps(w) \/ Claims(w) \/ Sends(w) \/ Saves(w) \/ Leaves(w)
  BY StepKinds DEF PlacesInv
<1>2. IsFiniteSet(results')
  <2>1. results' \subseteq results \cup {p}
    BY <1>1 DEF Takes, Keeps, Claims, Sends, Saves, Leaves
  <2>2. IsFiniteSet(results \cup {p})
    BY FS_AddElement
  <2> QED
    BY <2>1, <2>2, FS_Subset
<1>3. IsFiniteSet(Again) /\ IsFiniteSet(Again')
  <2>1. Again \subseteq results /\ Again' \subseteq results'
    BY DEF Again
  <2> QED
    BY <1>2, <2>1, FS_Subset
<1>4. Takes(w) => Again' \subseteq Again /\ results' = results
  BY <1>1 DEF Takes, Again, Early
<1>5. Keeps(w) => Again' \subseteq Again /\ results' = results
  <2>1. Keeps(w) => (task[w].pc \in Early <=> task'[w].pc \in Early)
    BY CountedFacts DEF PlacesInv
  <2> QED
    BY <1>1, <2>1 DEF Keeps, Again
<1>6. Claims(w) => Again' \subseteq Again /\ results' = results
  BY <1>1 DEF Claims, Again, Early
<1>7. Sends(w) => Again' \subseteq Again /\ results' = results
  <2> SUFFICES ASSUME Sends(w) PROVE Again' \subseteq Again /\ results' = results
    OBVIOUS
  <2>1. PICK m \in Message : m.page = Head(Unsent(w)) /\ queue' = queue \cup {m}
    BY DEF Sends
  <2>2. Unsent(w) \in Seq(Page) /\ Unsent(w) # <<>>
    BY DEF TypeInv, TypeOK, Task, Unsent, Sends
  <2>3. m.page \in Elements(Unsent(w))
    BY <2>1, <2>2, TailFacts DEF PlacesInv
  <2>4. m.page \notin results
    BY <2>3 DEF PlacesInv
  <2> QED
    BY <1>1, <2>1, <2>4 DEF Sends, Again, Early
<1>8. ASSUME Saves(w)
      PROVE  \/ p \in Again /\ results' = results /\ Again' \subseteq Again \ {p}
             \/ p \notin results /\ results' = results \cup {p} /\ Again' \subseteq Again
  <2>1. /\ task[w].pc = "save" /\ task'[w].pc = "count" /\ task'[w].msg = task[w].msg
        /\ queue' = queue /\ results' = results \cup {p}
    BY <1>8 DEF Saves
  <2>2. task[w].pc \in Busy /\ "count" \notin Early
    BY <2>1 DEF Busy, Holding, Early
  <2>3. /\ \A m \in queue : m.page # p
        /\ \A v \in Worker \ {w} : task[v].pc \in Early => task[v].msg.page # p
    <3>1. Early \subseteq Busy
      BY DEF Early, Busy, Holding
    <3> QED
      BY <2>2, <3>1 DEF PlacesInv
  <2>4. p \notin Again' /\ Again' \subseteq Again
    BY <1>1, <2>1, <2>2, <2>3 DEF Again
  <2>5. p \in results => p \in Again
    BY <2>1 DEF Again, Early
  <2> QED
    BY <2>1, <2>4, <2>5
<1>9. ASSUME Leaves(w)
      PROVE  /\ results' = results /\ Again' \subseteq Again \cup {p}
             /\ task[w].pc \in Early => Again' \subseteq Again
             /\ task[w].pc = "release" /\ incidents' = incidents => Again' \subseteq Again
  <2>1. PICK again \in SUBSET Message :
       /\ queue' = queue \cup again
       /\ \A n \in again : n.page = p
       /\ task[w].pc = "release" /\ incidents' = incidents => again = {}
    BY <1>9 DEF Leaves
  <2>2. task'[w].pc = "idle" /\ results' = results /\ "idle" \notin Early
    BY <1>9 DEF Leaves, Early
  <2>3. Again' \subseteq Again \cup {p}
    BY <1>1, <2>1, <2>2 DEF Again
  <2>4. ASSUME task[w].pc \in Early PROVE Again' \subseteq Again
    BY <2>2, <2>3, <2>4 DEF Again
  <2>5. ASSUME task[w].pc = "release", incidents' = incidents PROVE Again' \subseteq Again
    BY <1>1, <2>1, <2>2, <2>5 DEF Again
  <2> QED
    BY <2>2, <2>3, <2>4, <2>5
<1> QED
  BY <1>2, <1>3, <1>4, <1>5, <1>6, <1>7, <1>8, <1>9

LEMMA CountKept ==
  ASSUME TypeInv, PlacesInv, PlacesInv', CountInv, [Next]_vars
  PROVE  CountInv'
<1> DEFINE a == Cardinality(Again)
           b == Cardinality(Again')
           r == Cardinality(results)
           t == Cardinality(results')
<1>1. incidents \in Nat /\ IsFiniteSet(results) /\ r \in Nat
      /\ Counted + a <= r + incidents /\ Counted + incidents >= r
  BY StreamingAssumption, FS_CardinalityType DEF CountInv, TypeInv, TypeOK
<1>2. ASSUME NEW w \in Worker, Take(w) \/ Step(w) \/ Raise(w) \/ Crash(w)
      PROVE  CountInv'
  <2> DEFINE p == task[w].msg.page
  <2>1. IsFiniteSet(Again) /\ IsFiniteSet(Again') /\ IsFiniteSet(results')
    BY <1>1, <1>2, AgainFacts
  <2>2. a \in Nat /\ b \in Nat /\ t \in Nat
    BY <2>1, FS_CardinalityType
  <2>3. Counted \in Nat /\ Counted' \in Nat
    BY <1>2, CountedFacts DEF PlacesInv
  <2>4. Again' \subseteq Again => b <= a
    BY <2>1, FS_Subset
  <2>5. Again' \subseteq Again \cup {p} => b <= a + 1
    <3> SUFFICES ASSUME Again' \subseteq Again \cup {p} PROVE b <= a + 1
      OBVIOUS
    <3>1. IsFiniteSet(Again \cup {p}) /\ Cardinality(Again \cup {p}) \in {a, a + 1}
      BY <2>1, FS_AddElement
    <3>2. b <= Cardinality(Again \cup {p})
      BY <3>1, FS_Subset
    <3> QED
      BY <2>2, <3>1, <3>2
  <2>6. p \in Again /\ Again' \subseteq Again \ {p} => b <= a - 1
    <3> SUFFICES ASSUME p \in Again, Again' \subseteq Again \ {p} PROVE b <= a - 1
      OBVIOUS
    <3>1. IsFiniteSet(Again \ {p}) /\ Cardinality(Again \ {p}) = a - 1
      BY <2>1, FS_RemoveElement
    <3>2. b <= Cardinality(Again \ {p})
      BY <3>1, FS_Subset
    <3> QED
      BY <3>1, <3>2
  <2>7. p \notin results /\ results' = results \cup {p} => t = r + 1
    BY <1>1, FS_AddElement
  <2>8. results' = results => t = r
    OBVIOUS
  <2> HIDE DEF a, b, r, t
  <2>9. CASE Takes(w) \/ Keeps(w) \/ Claims(w) \/ Sends(w)
    <3>1. Counted' = Counted /\ incidents' = incidents
      BY <1>2, <2>9, CountedFacts DEF PlacesInv
    <3>2. b <= a /\ t = r
      BY <1>1, <1>2, <2>4, <2>8, <2>9, AgainFacts
    <3>3. Counted' + b <= t + incidents' /\ Counted' + incidents' >= t
      BY <1>1, <2>2, <2>3, <3>1, <3>2
    <3> QED
      BY <2>1, <3>3 DEF CountInv, b, t
  <2>10. CASE Saves(w)
    <3>1. Counted' = Counted + 1 /\ incidents' = incidents
      BY <1>2, <2>10, CountedFacts DEF PlacesInv
    <3>2. (b <= a - 1 /\ t = r) \/ (b <= a /\ t = r + 1)
      BY <1>1, <1>2, <2>4, <2>6, <2>7, <2>8, <2>10, AgainFacts
    <3>3. Counted' + b <= t + incidents' /\ Counted' + incidents' >= t
      BY <1>1, <2>2, <2>3, <3>1, <3>2
    <3> QED
      BY <2>1, <3>3 DEF CountInv, b, t
  <2>11. CASE Leaves(w)
    <3>1. /\ t = r /\ b <= a + 1
          /\ task[w].pc \in Early => b <= a
          /\ task[w].pc = "release" /\ incidents' = incidents => b <= a
      BY <1>1, <1>2, <2>4, <2>5, <2>8, <2>11, AgainFacts
    <3>2. \/ Counted' = Counted /\ incidents' = incidents /\ task[w].pc \in {"reserve", "release"}
          \/ Counted' = Counted /\ incidents' = incidents + 1 /\ task[w].pc # "count"
          \/ Counted' = Counted - 1 /\ incidents' = incidents + 1 /\ task[w].pc = "count"
      BY <1>2, <2>11, CountedFacts DEF PlacesInv
    <3>3. /\ Counted' + incidents' >= Counted + incidents
          /\ Counted' + b + incidents <= Counted + a + incidents'
      BY <1>1, <2>2, <2>3, <3>1, <3>2 DEF Early
    <3>4. incidents' \in Nat
      BY <1>1, <3>2
    <3> DEFINE c == Counted
               d == Counted'
               j == incidents'
    <3>5. c \in Nat /\ d \in Nat /\ j \in Nat
      BY <2>3, <3>4
    <3>6. d + j >= c + incidents /\ d + b + incidents <= c + a + j
      BY <3>3
    <3>7. c + a <= r + incidents /\ c + incidents >= r
      BY <1>1
    <3> HIDE DEF c, d, j
    <3>8. d + b <= t + j /\ d + j >= t
      BY <1>1, <2>2, <3>1, <3>5, <3>6, <3>7
    <3> QED
      BY <2>1, <3>8 DEF CountInv, b, t, c, d, j
  <2> QED
    BY <1>2, <2>9, <2>10, <2>11, StepKinds DEF PlacesInv
<1>3. CASE Request \/ RequestFails
  <2>1. task' = task /\ results' = results /\ run' = run
        /\ incidents' \in {incidents, incidents + 1}
    BY <1>3 DEF Request, CreateRun, InitializeRun, SendSeed, RequestFails, Incident
  <2>2. Counted' = Counted
    BY <2>1 DEF Counted, On
  <2>3. Again' = {} \/ Again' = Again
    <3>1. CASE SendSeed
      BY <3>1 DEF SendSeed, TypeInv, NothingBeforeTheSeed, Again
    <3>2. CASE ~SendSeed
      <4>1. queue' = queue
        BY <1>3, <3>2 DEF Request, CreateRun, InitializeRun, RequestFails
      <4> QED
        BY <2>1, <4>1 DEF Again
    <3> QED
      BY <3>1, <3>2
  <2>4. a \in Nat /\ b \in Nat /\ b <= a
    <3>1. IsFiniteSet(Again)
      BY <1>1, FS_Subset DEF Again
    <3> QED
      BY <2>3, <3>1, FS_EmptySet, FS_CardinalityType
  <2>5. Counted \in Nat
    <3>1. run.ended \in Nat /\ IsFiniteSet(On({"count"}))
      BY StreamingAssumption, FS_Subset DEF TypeInv, TypeOK, On
    <3> QED
      BY <3>1, FS_CardinalityType DEF Counted
  <2>6. Counted' + b <= t + incidents' /\ Counted' + incidents' >= t
    <3>1. t = r /\ incidents' \in Nat /\ incidents <= incidents'
      BY <1>1, <2>1
    <3> QED
      BY <1>1, <2>2, <2>4, <2>5, <3>1
  <2> QED
    BY <1>1, <2>1, <2>6 DEF CountInv
<1>4. CASE UNCHANGED vars
  BY <1>4 DEF vars, redis, CountInv, Counted, Again, On
<1> QED
  BY <1>2, <1>3, <1>4 DEF Next

\* The counters of ended pages and the stored results differ by no more than one page
\* per incident.
THEOREM CountsMatch == Spec => []CountsMatchResults
<1>1. Init => CountInv
  <2> SUFFICES ASSUME Init PROVE CountInv
    OBVIOUS
  <2>1. On({"count"}) = {} /\ results = {} /\ Again = {} /\ run.ended = 0 /\ incidents = 0
    BY DEF Init, Idle, On, Again
  <2>2. IsFiniteSet({}) /\ Cardinality({}) = 0
    BY FS_EmptySet
  <2> QED
    BY <2>1, <2>2 DEF CountInv, Counted
<1>2. TypeInv /\ PlacesInv /\ PlacesInv' /\ CountInv /\ [Next]_vars => CountInv'
  BY CountKept
<1>3. TypeInv /\ CountInv => CountsMatchResults
  <2> SUFFICES ASSUME TypeInv, CountInv PROVE CountsMatchResults
    OBVIOUS
  <2>1. IsFiniteSet(Again) /\ IsFiniteSet(On({"count"}))
    BY StreamingAssumption, FS_Subset DEF CountInv, Again, On
  <2>2. /\ Cardinality(Again) \in Nat /\ Counted \in Nat /\ Cardinality(results) \in Nat
        /\ incidents \in Nat
    BY <2>1, FS_CardinalityType, StreamingAssumption DEF Counted, TypeInv, TypeOK, CountInv
  <2>3. Counted <= Cardinality(results) + incidents /\ Counted + incidents >= Cardinality(results)
    BY <2>2 DEF CountInv
  <2> QED
    BY <2>3 DEF CountsMatchResults, Counted
<1> QED
  BY <1>1, <1>2, <1>3, Types, Places, PTL DEF Spec

-----------------------------------------------------------------------------
(* The audit of redirect_urls, whose progress a client follows as well.    *)
(* Its counts and its graph are committed by different steps of executions *)
(* that may be repeated or cut short; the invariant says what of them is   *)
(* committed at every place of an execution, and that an audit is opened   *)
(* only by an execution that finds it open.                                *)

CONSTANTS Sites, Batch, MaxFaults
VARIABLES request, faults

Audit == INSTANCE RedirectAudit WITH api <- request

\* What the instance picks, queues and works off is what the discovery's module says.
LEMMA SameSet == \A s : Audit!ToSet(s) = ToSet(s)
BY DEF Audit!ToSet, ToSet

LEMMA SamePicked == ASSUME NEW s, NEW S, NEW n PROVE Audit!Picked(s, S, n) = Picked(s, S, n)
BY DEF Audit!Picked, Picked, Audit!ToSet, ToSet

LEMMA SameLinks == ASSUME NEW s, NEW u PROVE Audit!LinksOn(s, u) = LinksOn(s, u)
BY SamePicked DEF Audit!LinksOn, LinksOn, Audit!OnSite, OnSite

LEMMA SamePages == ASSUME NEW u PROVE Audit!PageLinks(u) = PageLinks(u)
BY SameLinks DEF Audit!PageLinks, PageLinks

LEMMA CardinalityIs == \A S : Audit!Cardinality(S) = Cardinality(S)
BY DEF Cardinality, Audit!Cardinality

LEMMA SameFresh == ASSUME NEW u, NEW q PROVE Audit!Fresh(u, q) = Fresh(u, q)
BY SamePicked, CardinalityIs DEF Audit!Fresh, Fresh

LEMMA SameEnqueued == ASSUME NEW c, NEW u, NEW d PROVE Audit!Enqueued(c, u, d) = Enqueued(c, u, d)
BY SameFresh, SameSet DEF Audit!Enqueued, Enqueued, Audit!Items, Items, Audit!Item, Item

LEMMA SameListed == Audit!Listed = Listed
BY SamePicked DEF Audit!Listed, Listed, Audit!OnSite, OnSite

LEMMA SameSeeded == Audit!Seeded = Seeded
BY SameListed, SameEnqueued DEF Audit!Seeded, Seeded, Audit!NoCrawl, NoCrawl, Audit!Item, Item

LEMMA SamePending == Audit!Pending = Pending
BY SamePicked, SameSet DEF Audit!Pending, Pending, Audit!Allowed, Allowed

LEMMA SameWorked == ASSUME NEW c PROVE Audit!WorkedOff(c) = WorkedOff(c)
BY SamePages, SameSet, SameEnqueued DEF Audit!WorkedOff, WorkedOff

LEMMA SameBatch == ASSUME NEW n PROVE Audit!BatchWorkedOff(n) = BatchWorkedOff(n)
BY SameWorked, SamePending DEF Audit!BatchWorkedOff, BatchWorkedOff

LEMMA NatSteps ==
  ASSUME NEW G, 0 \in G, \A n \in Nat : n \in G => n + 1 \in G
  PROVE  Nat \subseteq G
<1> SUFFICES ASSUME Nat \ G # {} PROVE FALSE
    OBVIOUS
<1>1. PICK n \in Nat \ G : \A k \in Nat \ G : ~(<<k, n>> \in OpToRel(<, Nat))
  BY WFMin, NatLessThanWellFounded, Nat \ G \subseteq Nat, Zenon
<1>2. n # 0 /\ n - 1 \in Nat \ G
  BY n - 1 + 1 = n
<1>3. <<n - 1, n>> \in Nat \X Nat /\ n - 1 < n
  BY <1>2
<1>4. <<n - 1, n>> \in OpToRel(<, Nat)
  BY <1>3, Zenon DEF OpToRel
<1> QED
  BY <1>1, <1>2, <1>4, Zenon

\* Induction between bounds.
LEMMA StepsBetween ==
  ASSUME NEW lo \in Nat, NEW hi \in Nat, NEW G, lo \in G, \A n \in lo .. hi - 1 : n \in G => n + 1 \in G
  PROVE  lo .. hi \subseteq G
<1> DEFINE H == {n \in Nat : lo + n <= hi => lo + n \in G}
<1>1. 0 \in H
  OBVIOUS
<1>2. ASSUME NEW n \in Nat, n \in H PROVE n + 1 \in H
  <2>1. lo + n + 1 <= hi => lo + n \in lo .. hi - 1 /\ lo + n \in G
    BY <1>2
  <2>2. lo + n + 1 <= hi => lo + n + 1 \in G
    BY <2>1
  <2> QED
    BY <2>2
<1>3. Nat \subseteq H
  <2> HIDE DEF H
  <2> QED
    BY <1>1, <1>2, NatSteps
<1>4. ASSUME NEW m \in lo .. hi PROVE m \in G
  <2>1. m - lo \in Nat /\ lo + (m - lo) = m
    OBVIOUS
  <2>2. m - lo \in H
    BY <1>3, <2>1
  <2> QED
    BY <2>1, <2>2
<1> QED
  BY <1>4

-----------------------------------------------------------------------------
(* The record of a discovery *)

LEMMA EnqueuedRecord ==
  ASSUME NEW c, c = [urls |-> c.urls, depth |-> c.depth, queue |-> c.queue, queued |-> c.queued, links |-> c.links,
                     listed |-> c.listed, complete |-> c.complete],
         NEW urls, NEW d
  PROVE  Enqueued(c, urls, d) =
           [urls |-> c.urls, depth |-> c.depth, queue |-> c.queue \o Items(Fresh(urls, c.queued), d),
            queued |-> c.queued \cup ToSet(Fresh(urls, c.queued)), links |-> c.links,
            listed |-> c.listed, complete |-> c.complete]
<1> DEFINE q == c.queue \o Items(Fresh(urls, c.queued), d)
           s == c.queued \cup ToSet(Fresh(urls, c.queued))
<1>1. Enqueued(c, urls, d) = [c EXCEPT !.queue = q, !.queued = s]
  BY DEF Enqueued
<1> HIDE DEF q, s
<1>2. Enqueued(c, urls, d) = [urls |-> c.urls, depth |-> c.depth, queue |-> q, queued |-> s, links |-> c.links,
                              listed |-> c.listed, complete |-> c.complete]
  BY <1>1
<1> QED
  BY <1>2 DEF q, s

LEMMA HomeRecord ==
  ASSUME NEW c, c = [urls |-> c.urls, depth |-> c.depth, queue |-> c.queue, queued |-> c.queued, links |-> c.links,
                     listed |-> c.listed, complete |-> c.complete],
         NEW q, NEW s, NEW l, NEW w
  PROVE  [c EXCEPT !.queue = q, !.queued = s, !.listed = l, !.complete = w] =
           [urls |-> c.urls, depth |-> c.depth, queue |-> q, queued |-> s, links |-> c.links, listed |-> l,
            complete |-> w]
<1> DEFINE c1 == [c EXCEPT !.queue = q, !.queued = s]
           c2 == [c1 EXCEPT !.listed = l]
           c3 == [c2 EXCEPT !.complete = w]
<1>0. c1 = [c EXCEPT !.queue = q, !.queued = s] /\ c2 = [c1 EXCEPT !.listed = l] /\ c3 = [c2 EXCEPT !.complete = w]
  OBVIOUS
<1>1. c3 = [c EXCEPT !.queue = q, !.queued = s, !.listed = l, !.complete = w]
  BY Zenon
<1> HIDE DEF c1, c2, c3
<1>2. c1 = [urls |-> c.urls, depth |-> c.depth, queue |-> q, queued |-> s, links |-> c.links, listed |-> c.listed,
            complete |-> c.complete]
  BY <1>0
<1>3. c2 = [urls |-> c.urls, depth |-> c.depth, queue |-> q, queued |-> s, links |-> c.links, listed |-> l,
            complete |-> c.complete]
  BY <1>0, <1>2
<1>4. c3 = [urls |-> c.urls, depth |-> c.depth, queue |-> q, queued |-> s, links |-> c.links, listed |-> l,
            complete |-> w]
  BY <1>0, <1>3
<1> QED
  BY <1>1, <1>4, Zenon

\* The first item of a queue, fetched.
Fetched(c, item) ==
  [urls |-> Append(c.urls, item.url), depth |-> [c.depth EXCEPT ![item.url] = item.depth],
   queue |-> Tail(c.queue), queued |-> c.queued,
   links |-> c.links \cup {[from |-> item.url, to |-> v] : v \in ToSet(PageLinks(item.url))},
   listed |-> c.listed, complete |-> c.complete /\ site.answer[item.url] # "silent"]

\* What a batch, or the beginning of a discovery, makes of the record of the crawl.
LEMMA WorkedOffIs ==
  ASSUME NEW c, c = [urls |-> c.urls, depth |-> c.depth, queue |-> c.queue, queued |-> c.queued, links |-> c.links,
                     listed |-> c.listed, complete |-> c.complete],
         NEW item, item = Head(c.queue)
  PROVE  WorkedOff(c) = Enqueued(Fetched(c, item), IF item.depth < MaxCrawlDepth THEN PageLinks(item.url) ELSE <<>>,
                                 item.depth + 1)
<1> DEFINE found == [c EXCEPT !.urls     = Append(@, item.url),
                              !.depth    = [@ EXCEPT ![item.url] = item.depth],
                              !.complete = @ /\ site.answer[item.url] # "silent",
                              !.links    = @ \cup {[from |-> item.url, to |-> v] : v \in ToSet(PageLinks(item.url))},
                              !.queue    = Tail(@)]
<1>1. WorkedOff(c) = Enqueued(found, IF item.depth < MaxCrawlDepth THEN PageLinks(item.url) ELSE <<>>, item.depth + 1)
  BY DEF WorkedOff
<1>2. found = Fetched(c, item)
  <2> DEFINE a == Append(c.urls, item.url)
             b == [c.depth EXCEPT ![item.url] = item.depth]
             w == c.complete /\ site.answer[item.url] # "silent"
             l == c.links \cup {[from |-> item.url, to |-> v] : v \in ToSet(PageLinks(item.url))}
             t == Tail(c.queue)
  <2>1. found = [c EXCEPT !.urls = a, !.depth = b, !.complete = w, !.links = l, !.queue = t]
    OBVIOUS
  <2>2. Fetched(c, item) = [urls |-> a, depth |-> b, queue |-> t, queued |-> c.queued, links |-> l, listed |-> c.listed, complete |-> w]
    BY DEF Fetched
  <2> HIDE DEF a, b, w, l, t, found
  <2>3. found = [urls |-> a, depth |-> b, queue |-> t, queued |-> c.queued, links |-> l, listed |-> c.listed, complete |-> w]
    BY <2>1
  <2> QED
    BY <2>2, <2>3
<1> HIDE DEF found
<1> QED
  BY <1>1, <1>2

\* The recursion of BatchWorkedOff.
LEMMA BatchSteps ==
  ASSUME NEW n \in Nat
  PROVE  \E g : /\ BatchWorkedOff(n) = g[n] /\ g[0] = [crawl EXCEPT !.queue = Pending]
                /\ \A k \in 0 .. n - 1 : g[k + 1] = WorkedOff(g[k])
<1> DEFINE Built(g, i) == IF i = 0 THEN [crawl EXCEPT !.queue = Pending] ELSE WorkedOff(g[i - 1])
           Is(g, m) == g = [i \in 0 .. m |-> Built(g, i)]
           M == {m \in Nat : \E g : Is(g, m)}
           f == CHOOSE g : Is(g, n)
<1>1. 0 \in M
  <2> DEFINE g == [i \in 0 .. 0 |-> [crawl EXCEPT !.queue = Pending]]
  <2>1. Is(g, 0)
    OBVIOUS
  <2> HIDE DEF g, Is
  <2> QED
    BY <2>1
<1>2. ASSUME NEW m \in Nat, m \in M PROVE m + 1 \in M
  <2>1. PICK g : Is(g, m)
    BY <1>2
  <2> DEFINE h == [i \in 0 .. m + 1 |-> IF i <= m THEN g[i] ELSE Built(g, i)]
  <2>2. \A i \in 0 .. m : g[i] = Built(g, i)
    BY <2>1
  <2>3. ASSUME NEW i \in 0 .. m + 1 PROVE Built(h, i) = Built(g, i)
    <3>1. CASE i = 0
      BY <3>1
    <3>2. CASE i # 0
      <4>1. h[i - 1] = g[i - 1]
        BY <3>2
      <4> HIDE DEF h
      <4> QED
        BY <4>1, <3>2
    <3> QED
      BY <3>1, <3>2
  <2>4. \A i \in 0 .. m + 1 : h[i] = Built(g, i)
    <3> HIDE DEF Built
    <3> QED
      BY <2>2
  <2>5. h = [i \in 0 .. m + 1 |-> h[i]]
    OBVIOUS
  <2>6. Is(h, m + 1)
    <3> HIDE DEF h, Built
    <3> QED
      BY <2>3, <2>4, <2>5
  <2> HIDE DEF h, Is
  <2> QED
    BY <2>6
<1>3. \E g : Is(g, n)
  <2> HIDE DEF M, Is
  <2>1. Nat \subseteq M
    BY <1>1, <1>2, NatSteps
  <2> QED
    BY <2>1 DEF M
<1>4. Is(f, n)
  <2> HIDE DEF Is
  <2> QED
    BY <1>3, Zenon
<1>5. BatchWorkedOff(n) = f[n]
  BY DEF BatchWorkedOff
<1> HIDE DEF f
<1>6. \A i \in 0 .. n : f[i] = Built(f, i)
  <2> HIDE DEF Built
  <2> QED
    BY <1>4
<1>7. f[0] = [crawl EXCEPT !.queue = Pending]
  BY <1>6
<1>8. ASSUME NEW i \in 0 .. n - 1 PROVE f[i + 1] = WorkedOff(f[i])
  <2>1. i + 1 \in 0 .. n /\ i + 1 # 0 /\ i + 1 - 1 = i
    OBVIOUS
  <2> QED
    BY <1>6, <2>1
<1> HIDE DEF Is
<1> WITNESS f
<1> QED
  BY <1>5, <1>7, <1>8

LEMMA SeededRecord ==
  /\ Seeded.urls = <<>> /\ Seeded.links = {}
  /\ Seeded = [urls |-> Seeded.urls, depth |-> Seeded.depth, queue |-> Seeded.queue, queued |-> Seeded.queued,
               links |-> Seeded.links, listed |-> Seeded.listed, complete |-> Seeded.complete]
<1> DEFINE c == NoCrawl
           new(q, s, l, k) == [urls |-> <<>>, depth |-> c.depth, queue |-> q, queued |-> s, links |-> {},
                               listed |-> l, complete |-> k]
<1>a. c = [urls |-> c.urls, depth |-> c.depth, queue |-> c.queue, queued |-> c.queued, links |-> c.links,
           listed |-> c.listed, complete |-> c.complete]
  BY DEF NoCrawl
<1>1. c.urls = <<>> /\ c.links = {}
  BY DEF NoCrawl
<1> HIDE DEF c
<1>2. CASE site.robots = "down"
  <2> DEFINE w == FALSE
  <2>1. Seeded = [c EXCEPT !.complete = w]
    BY <1>2 DEF Seeded, c
  <2> HIDE DEF w
  <2>2. Seeded = [urls |-> c.urls, depth |-> c.depth, queue |-> c.queue, queued |-> c.queued, links |-> c.links,
                  listed |-> c.listed, complete |-> w]
    BY <1>a, <2>1
  <2> QED
    BY <1>1, <2>2
<1>3. CASE site.robots # "down"
  <2> DEFINE l == Listed
             w == site.map # "broken"
             q == <<Item(site.home, 0)>>
             s == {site.home}
             h == [c EXCEPT !.queue = q, !.queued = s, !.listed = l, !.complete = w]
             urls == IF MaxCrawlDepth = 0 THEN <<>> ELSE Listed
             e == Enqueued(h, urls, 1)
  <2>1. Seeded = e
    BY <1>3 DEF Seeded, c
  <2> HIDE DEF q, s, l, w, urls
  <2>0. h = [c EXCEPT !.queue = q, !.queued = s, !.listed = l, !.complete = w] /\ e = Enqueued(h, urls, 1)
    BY Zenon
  <2> HIDE DEF h, e
  <2>2. h = [urls |-> c.urls, depth |-> c.depth, queue |-> q, queued |-> s, links |-> c.links, listed |-> l, complete |-> w]
    BY <1>a, <2>0, HomeRecord, Zenon
  <2>3. /\ h = [urls |-> h.urls, depth |-> h.depth, queue |-> h.queue, queued |-> h.queued, links |-> h.links,
                listed |-> h.listed, complete |-> h.complete]
        /\ h.urls = <<>> /\ h.links = {}
    BY <1>1, <2>2
  <2>4. e = [urls |-> h.urls, depth |-> h.depth, queue |-> h.queue \o Items(Fresh(urls, h.queued), 1),
             queued |-> h.queued \cup ToSet(Fresh(urls, h.queued)), links |-> h.links,
             listed |-> h.listed, complete |-> h.complete]
    <3>1. Enqueued(h, urls, 1) =
            [urls |-> h.urls, depth |-> h.depth, queue |-> h.queue \o Items(Fresh(urls, h.queued), 1),
             queued |-> h.queued \cup ToSet(Fresh(urls, h.queued)), links |-> h.links,
             listed |-> h.listed, complete |-> h.complete]
      BY <2>3, EnqueuedRecord
    <3> QED
      BY <2>0, <3>1, Zenon
  <2> QED
    BY <2>1, <2>3, <2>4
<1> QED
  BY <1>2, <1>3

\* The links of some pages.
LinksOf(urls) == UNION {{[from |-> u, to |-> v] : v \in ToSet(PageLinks(u))} : u \in urls}

\* A crawl's record, and that its pages are a sequence.
Ordered(c) ==
  /\ c = [urls |-> c.urls, depth |-> c.depth, queue |-> c.queue, queued |-> c.queued, links |-> c.links,
          listed |-> c.listed, complete |-> c.complete]
  /\ c.urls \in Seq(ToSet(c.urls))

\* Its links are those of its pages.
Linked(c) == c.links = LinksOf(ToSet(c.urls))

LEMMA OneMore ==
  ASSUME NEW c, Ordered(c)
  PROVE  Ordered(WorkedOff(c)) /\ (Linked(c) => Linked(WorkedOff(c)))
<1> DEFINE item == Head(c.queue)
           u == item.url
           f == Fetched(c, item)
           links == IF item.depth < MaxCrawlDepth THEN PageLinks(u) ELSE <<>>
           w == Enqueued(f, links, item.depth + 1)
           a == c.urls
<1>1. WorkedOff(c) = w
  BY WorkedOffIs DEF Ordered
<1>2. /\ f.urls = Append(a, u) /\ f.links = c.links \cup {[from |-> u, to |-> v] : v \in ToSet(PageLinks(u))}
      /\ f = [urls |-> f.urls, depth |-> f.depth, queue |-> f.queue, queued |-> f.queued, links |-> f.links,
              listed |-> f.listed, complete |-> f.complete]
  BY DEF Fetched
<1>3. a \in Seq(ToSet(a)) /\ (Linked(c) <=> c.links = LinksOf(ToSet(a)))
  BY DEF Ordered, Linked
<1> HIDE DEF f, links, item, a
<1>4. w = [urls |-> f.urls, depth |-> f.depth, queue |-> f.queue \o Items(Fresh(links, f.queued), item.depth + 1),
           queued |-> f.queued \cup ToSet(Fresh(links, f.queued)), links |-> f.links,
           listed |-> f.listed, complete |-> f.complete]
  BY <1>2, EnqueuedRecord
<1> HIDE DEF w
<1>5. w.urls = f.urls /\ w.links = f.links
      /\ w = [urls |-> w.urls, depth |-> w.depth, queue |-> w.queue, queued |-> w.queued, links |-> w.links,
              listed |-> w.listed, complete |-> w.complete]
  BY <1>4
<1>6. ToSet(Append(a, u)) = ToSet(a) \cup {u} /\ Append(a, u) \in Seq(ToSet(a) \cup {u})
  <2> DEFINE A == ToSet(a)
             b == Append(a, u)
  <2>1. a \in Seq(A) /\ A = {a[i] : i \in 1 .. Len(a)}
    BY <1>3 DEF ToSet
  <2> HIDE DEF A
  <2>2. a \in Seq(A \cup {u}) /\ Len(a) \in Nat
    BY <2>1
  <2>3. /\ b \in Seq(A \cup {u}) /\ Len(b) = Len(a) + 1 /\ b[Len(a) + 1] = u
        /\ \A i \in 1 .. Len(a) : b[i] = a[i]
    BY <2>2
  <2> HIDE DEF b
  <2>4. ToSet(b) = {b[i] : i \in 1 .. Len(a) + 1}
    BY <2>3 DEF ToSet
  <2>5. \A i \in 1 .. Len(a) + 1 : i \in 1 .. Len(a) \/ i = Len(a) + 1
    BY <2>2
  <2>6. 1 .. Len(a) \subseteq 1 .. Len(a) + 1 /\ Len(a) + 1 \in 1 .. Len(a) + 1
    BY <2>2
  <2>7. ToSet(b) = A \cup {u}
    BY <2>1, <2>3, <2>4, <2>5, <2>6
  <2> QED
    BY <2>3, <2>7 DEF b, A
<1>7. LinksOf(ToSet(a) \cup {u}) = LinksOf(ToSet(a)) \cup {[from |-> u, to |-> v] : v \in ToSet(PageLinks(u))}
  BY DEF LinksOf
<1> QED
  BY <1>1, <1>2, <1>3, <1>5, <1>6, <1>7 DEF Ordered, Linked

LEMMA BatchCollects ==
  ASSUME Ordered(crawl), NEW n \in Nat
  PROVE  Ordered(BatchWorkedOff(n)) /\ (Linked(crawl) => Linked(BatchWorkedOff(n)))
<1> DEFINE c == [crawl EXCEPT !.queue = Pending]
<1>1. PICK g : /\ BatchWorkedOff(n) = g[n] /\ g[0] = c
               /\ \A k \in 0 .. n - 1 : g[k + 1] = WorkedOff(g[k])
  BY BatchSteps
<1>2. Ordered(c) /\ (Linked(crawl) <=> Linked(c))
  <2> DEFINE p == Pending
  <2>1. c = [crawl EXCEPT !.queue = p]
    OBVIOUS
  <2> HIDE DEF c, p
  <2>2. c = [urls |-> crawl.urls, depth |-> crawl.depth, queue |-> p, queued |-> crawl.queued, links |-> crawl.links,
             listed |-> crawl.listed, complete |-> crawl.complete]
    BY <2>1 DEF Ordered
  <2>3. c.urls = crawl.urls /\ c.links = crawl.links
        /\ c = [urls |-> c.urls, depth |-> c.depth, queue |-> c.queue, queued |-> c.queued, links |-> c.links,
                listed |-> c.listed, complete |-> c.complete]
    BY <2>2
  <2> QED
    BY <2>3 DEF Ordered, Linked
<1> HIDE DEF c
<1> DEFINE G == {k \in 0 .. n : Ordered(g[k]) /\ (Linked(crawl) => Linked(g[k]))}
<1>3. 0 \in G
  BY <1>1, <1>2
<1>4. ASSUME NEW k \in 0 .. n - 1, k \in G PROVE k + 1 \in G
  BY <1>1, <1>4, OneMore
<1>5. 0 .. n \subseteq G
  <2> HIDE DEF G
  <2> QED
    BY <1>3, <1>4, StepsBetween
<1> QED
  BY <1>1, <1>5

-----------------------------------------------------------------------------
(* What is known of an audit *)

\* What the instance walks is what RedirectChains says.
LEMMA SameWalk ==
  /\ \A s, u : Audit!Walks(s, u) = Walks(s, u) /\ Audit!Walk(s, u) = Walk(s, u)
  /\ \A s : Audit!ToSet(s) = ToSet(s)
  /\ \A u : Audit!PageLinks(u) = PageLinks(u)
<1>1. \A s, u : Audit!Place(s, u) = Place(s, u)
  BY DEF Audit!Place, Place
<1>2. \A s, u : Audit!Walk(s, u) = Walk(s, u)
  BY DEF Audit!Walk, Walk, Audit!Place, Place, Audit!LastAnswer, LastAnswer, Audit!Nowhere, Nowhere
<1>3. \A s, u : Audit!Asked(s, u) = Asked(s, u)
  BY <1>2 DEF Audit!Asked, Asked
<1>4. \A s, u, n, end : Audit!BrokenOff(s, u, n, end) = BrokenOff(s, u, n, end)
  BY <1>1, <1>2 DEF Audit!BrokenOff, BrokenOff
<1>5. \A s, u : Audit!Walks(s, u) = Walks(s, u)
  BY <1>2, <1>3, <1>4 DEF Audit!Walks, Walks
<1> QED
  BY <1>2, <1>5, SameSet, SamePages

\* A walk's record, and that of a walk that was broken off.
LEMMA WalkIs ==
  ASSUME NEW s, NEW u
  PROVE  /\ Walk(s, u) = [from |-> u, at |-> Walk(s, u).at, hops |-> Walk(s, u).hops, end |-> Walk(s, u).end]
         /\ \A n, end : BrokenOff(s, u, n, end) =
              [from |-> u, at |-> Place(s, u)[n], hops |-> SubSeq(Walk(s, u).hops, 1, n - 1), end |-> end]
<1>1. PICK at, hops, end : Walk(s, u) = [from |-> u, at |-> at, hops |-> hops, end |-> end]
  <2> DEFINE place    == Place(s, u)
             To(n)    == s.answer[place[n]]
             Seen(n)  == {place[m] : m \in 1 .. n}
             Stops(n) == To(n) \notin Url \/ To(n) \in Seen(n) \/ LastAnswer(n)
             last     == CHOOSE n \in 1 .. MaxHops + 1 : Stops(n) /\ \A m \in 1 .. n - 1 : ~Stops(m)
             ended    == To(last) \in {"page", "gone", "silent"}
             taken    == [n \in 1 .. IF ended THEN last - 1 ELSE last |-> [at |-> place[n], to |-> To(n)]]
             reached  == IF ended THEN To(last)
                         ELSE IF To(last) = Nowhere THEN "malformed"
                         ELSE IF To(last) \in Seen(last) THEN "loop" ELSE "limit"
             here     == place[last]
  <2>1. Walk(s, u) = [from |-> u, at |-> here, hops |-> taken, end |-> reached]
    BY DEF Walk
  <2> HIDE DEF here, taken, reached
  <2> QED
    BY <2>1
<1>2. Walk(s, u) = [from |-> u, at |-> Walk(s, u).at, hops |-> Walk(s, u).hops, end |-> Walk(s, u).end]
      /\ Walk(s, u).hops = hops
  BY <1>1
<1>3. ASSUME NEW n, NEW e
      PROVE  BrokenOff(s, u, n, e) = [from |-> u, at |-> Place(s, u)[n], hops |-> SubSeq(Walk(s, u).hops, 1, n - 1), end |-> e]
  <2> DEFINE p == Place(s, u)[n]
             cut == SubSeq(hops, 1, n - 1)
  <2>1. BrokenOff(s, u, n, e) =
          [[from |-> u, at |-> at, hops |-> hops, end |-> end] EXCEPT !.at = p, !.hops = cut, !.end = e]
    BY <1>1, <1>2 DEF BrokenOff
  <2> HIDE DEF p, cut
  <2>2. BrokenOff(s, u, n, e) = [from |-> u, at |-> p, hops |-> cut, end |-> e]
    BY <2>1
  <2> QED
    BY <1>2, <2>2 DEF p, cut
<1> QED
  BY <1>2, <1>3

\* The result of a check, of its walk.
CheckOf(w) ==
  [url |-> w.from, hops |-> w.hops, count |-> Len(w.hops), end |-> w.end, at |-> w.at,
   internal |-> \E h \in ToSet(w.hops) : h.to \in Url \ site.foreign,
   external |-> \E h \in ToSet(w.hops) : h.to \in site.foreign]

IsCheck(r) == \E w \in Walks(site, r.url) : r = CheckOf(w)

\* No URL is checked twice.
Once(S) == \A r, q \in S : r.url = q.url => r = q

Failures == {r \in checks : Audit!IsError(r)}

AuditPC == {"none", "queued", "done", "lost"} \cup Audit!Running
AtRest == {"return", "queued", "done", "lost"}
EndedWell == {"completed", "partial"}

AuditTypes ==
  /\ audit = [status |-> audit.status, error |-> audit.error, found |-> audit.found,
              passed |-> audit.passed, failed |-> audit.failed, graph |-> audit.graph,
              complete |-> audit.complete]
  /\ audit.status \in {"queued", "discovering", "checking"} \cup Audit!Terminal
  /\ pc \in AuditPC

\* The crawl's record, and that its pages are a sequence.
CrawlTypes ==
  /\ crawl = [urls |-> crawl.urls, depth |-> crawl.depth, queue |-> crawl.queue, queued |-> crawl.queued,
              links |-> crawl.links, listed |-> crawl.listed, complete |-> crawl.complete]
  /\ crawl.urls \in Seq(Audit!ToSet(crawl.urls))

\* The pages found are different ones.
Different == \A i, j \in 1 .. Len(crawl.urls) : i < j => crawl.urls[i] # crawl.urls[j]

\* What is known of the results in hand: they are checks of the first pages found, one of each,
\* and once there is one for every page the counts are committed.
InHand ==
  /\ IsFiniteSet(checks) /\ Once(checks)
  /\ \A r \in checks : IsCheck(r) /\ \E i \in 1 .. Cardinality(checks) : r.url = crawl.urls[i]
  /\ audit.found = Len(crawl.urls)
  /\ checks # {} /\ Cardinality(checks) = Len(crawl.urls) =>
       /\ audit.failed = Cardinality(Failures)
       /\ audit.passed = Len(crawl.urls) - audit.failed

\* The first part of EndIsWhole.
WholeIfEndedWell ==
  audit.status \in EndedWell =>
    /\ audit.found = Cardinality(Audit!Found)
    /\ audit.failed = Cardinality({node \in audit.graph.checked : node.end \in Audit!Unverified})
    /\ audit.passed + audit.failed = audit.found

\* POST /check has called the audit failed, while its message is executed.
Overruled == audit.status = "failed" /\ audit.error = "queue"

\* An audit is opened only by an execution that finds it open, and is open until it stores.
AuditInv ==
  /\ AuditTypes /\ CrawlTypes
  /\ pc = "begin" => audit.status \notin Audit!Terminal \/ Overruled
  /\ pc = "discover" => checks = {} /\ (audit.status = "discovering" \/ Overruled)
  /\ pc \in {"check", "store"} =>
       /\ InHand
       /\ \/ audit.status = "checking" \/ Overruled
          \/ audit.status = "failed" /\ checks = {} /\ crawl.urls = <<>>
  /\ pc = "store" => Cardinality(checks) = Len(crawl.urls)
  /\ pc = "return" => audit.status \in Audit!Terminal
  /\ audit.status \in EndedWell => pc \in AtRest
  /\ WholeIfEndedWell
  /\ event # <<>> /\ event[1].status \in EndedWell =>
       pc \in AtRest /\ audit.status \in Audit!Terminal /\ event[1].results = Audit!Shown(audit)

-----------------------------------------------------------------------------
(* Results and rows *)

\* Of different results something is different that tells them apart.
LEMMA CountedAlike ==
  ASSUME NEW S, IsFiniteSet(S), NEW f, DOMAIN f = S,
         \A r, q \in S : f[r] = f[q] => r = q
  PROVE  IsFiniteSet({f[r] : r \in S}) /\ Cardinality({f[r] : r \in S}) = Cardinality(S)
<1> DEFINE T == {f[r] : r \in S}
           g == [r \in S |-> f[r]]
<1>1. g \in [S -> T] /\ (\A r, q \in S : g[r] = g[q] => r = q) /\ \A t \in T : \E r \in S : g[r] = t
  OBVIOUS
<1> HIDE DEF g, T
<1>2. g \in Bijection(S, T)
  BY <1>1 DEF Bijection, Injection, Surjection, IsInjective
<1>3. Cardinality(T) = Cardinality(S) /\ IsFiniteSet(T)
  BY <1>2, FS_Bijection DEF ExistsBijection
<1> QED
  BY <1>3 DEF T

\* However the walks of some pages go, there is one result for each page.
Walked(k, m, urls, walk) ==
  /\ k \in Nat /\ m \in Nat /\ k <= m
  /\ \A i, j \in k + 1 .. m : i < j => urls[i] # urls[j]
  /\ \A i \in k + 1 .. m : walk[urls[i]] \in Walks(site, urls[i])

LEMMA BatchOfChecks ==
  ASSUME NEW k, NEW m, NEW urls, NEW walk, Walked(k, m, urls, walk)
  PROVE  \E new \in {Audit!Checks(site, {walk[u] : u \in {urls[i] : i \in k + 1 .. m}})} :
           /\ IsFiniteSet(new) /\ Cardinality(new) = m - k /\ Once(new)
           /\ \A r \in new : IsCheck(r) /\ \E i \in k + 1 .. m : r.url = urls[i]
<1> DEFINE I == k + 1 .. m
           f == [i \in I |-> CheckOf(walk[urls[i]])]
           new == Audit!Checks(site, {walk[u] : u \in {urls[i] : i \in I}})
<1>0. /\ k \in Nat /\ m \in Nat /\ k <= m
      /\ \A i, j \in I : i < j => urls[i] # urls[j]
      /\ \A i \in I : walk[urls[i]] \in Walks(site, urls[i])
  BY DEF Walked
<1>1. new = {CheckOf(walk[urls[i]]) : i \in I}
  BY SameSet DEF Audit!Checks, CheckOf
<1>2. ASSUME NEW u, NEW w \in Walks(site, u) PROVE CheckOf(w).url = u
  <2>1. w.from = u
    BY WalkIs DEF Walks
  <2> QED
    BY <2>1 DEF CheckOf
<1>3. \A i \in I : f[i].url = urls[i] /\ IsCheck(f[i])
  <2> SUFFICES ASSUME NEW i \in I PROVE f[i].url = urls[i] /\ IsCheck(f[i])
    OBVIOUS
  <2>1. f[i] = CheckOf(walk[urls[i]]) /\ walk[urls[i]] \in Walks(site, urls[i])
    BY <1>0
  <2> HIDE DEF f
  <2> QED
    BY <1>2, <2>1 DEF IsCheck
<1>4. new = {f[i] : i \in I} /\ DOMAIN f = I
  BY <1>1
<1>5. IsFiniteSet(I) /\ Cardinality(I) = m - k
  <2>1. k + 1 \in Int /\ m \in Int
    BY <1>0
  <2>2. IsFiniteSet(I) /\ Cardinality(I) = IF k + 1 > m THEN 0 ELSE m - (k + 1) + 1
    BY <2>1, FS_Interval
  <2> QED
    BY <1>0, <2>2
<1>6. \A i, j \in I : i = j \/ i < j \/ j < i
  BY <1>0
<1> HIDE DEF f, new
<1>7. \A i, j \in I : f[i].url = f[j].url => i = j
  BY <1>0, <1>3, <1>6
<1> HIDE DEF I
<1>8. IsFiniteSet(new) /\ Cardinality(new) = m - k
  BY <1>4, <1>5, <1>7, CountedAlike
<1>9. Once(new)
  BY <1>4, <1>7 DEF Once
<1>10. \A r \in new : IsCheck(r) /\ \E i \in I : r.url = urls[i]
  BY <1>3, <1>4
<1> QED
  BY <1>8, <1>9, <1>10 DEF new, I

LEMMA GraphOfResults ==
  ASSUME IsFiniteSet(checks), Once(checks)
  PROVE  /\ Cardinality({node.url : node \in Audit!Stored.checked}) = Cardinality(checks)
         /\ Cardinality({node \in Audit!Stored.checked : node.end \in Audit!Unverified}) = Cardinality(Failures)
<1> DEFINE Node(r) == [url |-> r.url, depth |-> crawl.depth[r.url], count |-> r.count, end |-> r.end,
                       at |-> r.at, internal |-> r.internal, external |-> r.external,
                       listed |-> r.url \in Audit!ToSet(crawl.listed)]
           named == [r \in checks |-> r.url]
           stored == [r \in Failures |-> Node(r)]
<1>1. Audit!Stored.checked = {Node(r) : r \in checks}
  BY DEF Audit!Stored, Audit!Graph
<1>2. \A r, q \in checks : r.url = q.url => r = q
  BY DEF Once
<1>3. \A r : Node(r).url = r.url /\ Node(r).end = r.end
  OBVIOUS
<1> HIDE DEF Node
<1>4. {node.url : node \in Audit!Stored.checked} = {named[r] : r \in checks}
  BY <1>1, <1>3
<1>5. Cardinality({named[r] : r \in checks}) = Cardinality(checks)
  <2>1. DOMAIN named = checks /\ \A r, q \in checks : named[r] = named[q] => r = q
    BY <1>2
  <2> HIDE DEF named
  <2> QED
    BY <2>1, CountedAlike
<1>6. Failures \subseteq checks /\ IsFiniteSet(Failures)
  BY FS_Subset DEF Failures
<1>7. {node \in Audit!Stored.checked : node.end \in Audit!Unverified} = {stored[r] : r \in Failures}
  BY <1>1, <1>3 DEF Failures, Audit!IsError
<1>8. \A r, q \in Failures : stored[r] = stored[q] => r = q
  BY <1>2, <1>3, <1>6
<1>9. Cardinality({stored[r] : r \in Failures}) = Cardinality(Failures)
  BY <1>6, <1>8, CountedAlike
<1> QED
  BY <1>4, <1>5, <1>7, <1>9

LEMMA ShownOfGraph == ASSUME NEW a, NEW b, a.graph = b.graph PROVE Audit!Shown(a) = Audit!Shown(b)
BY DEF Audit!Shown

LEMMA Listing == ASSUME NEW V, NEW s \in Seq(V) PROVE s \in Seq(Audit!ToSet(s))
<1>1. Len(s) \in Nat /\ DOMAIN s = 1 .. Len(s) /\ s = [i \in 1 .. Len(s) |-> s[i]]
  OBVIOUS
<1>2. \A i \in 1 .. Len(s) : s[i] \in Audit!ToSet(s)
  BY <1>1 DEF Audit!ToSet
<1> QED
  BY <1>1, <1>2

-----------------------------------------------------------------------------
(* Steps of the audit *)

LEMMA CrawlStays == ASSUME CrawlTypes, crawl' = crawl PROVE CrawlTypes'
BY DEF CrawlTypes, Audit!ToSet

LEMMA NoCrawlTyped == ASSUME crawl' = Audit!NoCrawl PROVE CrawlTypes'
<1>1. crawl'.urls = <<>> /\ <<>> \in Seq(Audit!ToSet(<<>>))
  BY Listing DEF Audit!NoCrawl
<1> QED
  BY <1>1 DEF CrawlTypes, Audit!NoCrawl, Audit!ToSet

LEMMA SeededTyped == ASSUME crawl' = Audit!Seeded PROVE CrawlTypes' /\ crawl'.urls = <<>>
<1>1. /\ crawl'.urls = <<>>
      /\ crawl' = [urls |-> crawl'.urls, depth |-> crawl'.depth, queue |-> crawl'.queue, queued |-> crawl'.queued,
                   links |-> crawl'.links, listed |-> crawl'.listed, complete |-> crawl'.complete]
  BY SameSeeded, SeededRecord
<1>2. <<>> \in Seq(Audit!ToSet(<<>>))
  BY Listing
<1> QED
  BY <1>1, <1>2 DEF CrawlTypes, Audit!ToSet

\* A step that leaves the results, and what is committed of them, alone.
LEMMA AuditMoves ==
  ASSUME AuditInv, NEW s \in {"queued", "discovering", "checking"} \cup Audit!Terminal, NEW e,
         audit' = [audit EXCEPT !.status = s, !.error = e]
  PROVE  /\ AuditTypes => (pc' \in AuditPC => AuditTypes')
         /\ audit'.status = s /\ audit'.graph = audit.graph /\ audit'.found = audit.found
         /\ audit'.failed = audit.failed /\ audit'.passed = audit.passed
         /\ Audit!Shown(audit)' = Audit!Shown(audit)
<1>1. audit' = [status |-> s, error |-> e, found |-> audit.found, passed |-> audit.passed,
                failed |-> audit.failed, graph |-> audit.graph, complete |-> audit.complete]
  BY DEF AuditInv, AuditTypes
<1>2. /\ audit'.status = s /\ audit'.graph = audit.graph /\ audit'.found = audit.found
      /\ audit'.failed = audit.failed /\ audit'.passed = audit.passed
      /\ audit'.error = e /\ audit'.complete = audit.complete
  BY <1>1
<1>3. Audit!Shown(audit') = Audit!Shown(audit)
  BY <1>2, ShownOfGraph
<1>4. AuditTypes => (pc' \in AuditPC => AuditTypes')
  BY <1>1, <1>2 DEF AuditTypes
<1> QED
  BY <1>2, <1>3, <1>4

LEMMA StillInHand ==
  ASSUME UNCHANGED <<site, checks, crawl>>, InHand, audit'.found = audit.found,
         audit'.failed = audit.failed, audit'.passed = audit.passed
  PROVE  InHand'
BY DEF InHand, Failures, CheckOf, IsCheck

\* A step that touches neither the row nor the stream.
LEMMA RowStays ==
  ASSUME AuditInv, UNCHANGED <<site, audit, event>>, pc' \in AuditPC, CrawlTypes',
         pc \in AtRest => pc' \in AtRest \/ audit.status \notin Audit!Terminal,
         pc' = "begin" => audit.status \notin Audit!Terminal \/ Overruled,
         pc' = "discover" => checks' = {} /\ (audit.status = "discovering" \/ Overruled),
         pc' \in {"check", "store"} =>
           /\ InHand'
           /\ \/ audit.status = "checking" \/ Overruled
              \/ audit.status = "failed" /\ checks' = {} /\ crawl'.urls = <<>>,
         pc' = "store" => Cardinality(checks') = Len(crawl'.urls),
         pc' = "return" => audit.status \in Audit!Terminal
  PROVE  AuditInv'
<1>1. AuditTypes'
  BY DEF AuditInv, AuditTypes
<1>2. WholeIfEndedWell' /\ Audit!Shown(audit)' = Audit!Shown(audit) /\ (Overruled' <=> Overruled)
  BY DEF AuditInv, WholeIfEndedWell, Audit!Found, Audit!Shown, Overruled
<1> QED
  BY <1>1, <1>2 DEF AuditInv, EndedWell, Audit!Terminal

LEMMA QuietKeeps ==
  ASSUME AuditInv,
         \/ Audit!Create \/ Audit!Accept \/ Audit!Send \/ Audit!Admit \/ Audit!BeginEnded \/ Audit!Return
         \/ Audit!Lose \/ Audit!Redeliver
  PROVE  AuditInv'
<1>0. CrawlTypes'
  <2>1. CASE Audit!Redeliver
    BY <2>1, NoCrawlTyped DEF Audit!Redeliver
  <2>2. CASE ~Audit!Redeliver
    BY <2>2, CrawlStays DEF Audit!Create, Audit!Accept, Audit!Send, Audit!Admit, Audit!BeginEnded, Audit!Return, Audit!Lose,
                            AuditInv
  <2> QED
    BY <2>1, <2>2
<1>1. pc \in AuditPC
  BY DEF AuditInv, AuditTypes
<1>2. CASE Audit!Create \/ Audit!Send
  <2>1. UNCHANGED <<site, audit, pc, crawl, checks, event>>
    BY <1>2 DEF Audit!Create, Audit!Send
  <2>2. InHand => InHand'
    BY <2>1, StillInHand
  <2> QED
    BY <1>0, <1>1, <2>1, <2>2, RowStays DEF AuditInv
<1>3. CASE Audit!Accept
  BY <1>0, <1>3, RowStays DEF AuditInv, Audit!Accept, AuditPC, AtRest
<1>4. CASE Audit!BeginEnded \/ Audit!Return \/ Audit!Lose
  BY <1>0, <1>4, RowStays DEF AuditInv, Audit!BeginEnded, Audit!Return, Audit!Lose, AuditPC, AtRest, Audit!Running
<1>5. CASE Audit!Redeliver
  BY <1>0, <1>5, RowStays DEF AuditInv, Audit!Redeliver, AuditPC, AtRest, Audit!Running
<1>6. CASE Audit!Admit
  BY <1>0, <1>6, RowStays DEF AuditInv, Audit!Admit, AuditPC, AtRest, Audit!Running
<1> QED
  BY <1>2, <1>3, <1>4, <1>5, <1>6

LEMMA SendFailsKeeps == ASSUME AuditInv, Audit!SendFails PROVE AuditInv'
<1>1. /\ audit' = [audit EXCEPT !.status = "failed", !.error = "queue"]
      /\ UNCHANGED <<site, pc, crawl, checks, event>>
  BY DEF Audit!SendFails
<1>2. /\ AuditTypes' /\ audit'.status = "failed" /\ audit'.found = audit.found
      /\ audit'.failed = audit.failed /\ audit'.passed = audit.passed
      /\ Audit!Shown(audit)' = Audit!Shown(audit)
  BY <1>1, AuditMoves DEF AuditInv, AuditTypes, Audit!Terminal
<1>3. CrawlTypes' /\ (InHand => InHand')
  BY <1>1, <1>2, CrawlStays, StillInHand DEF AuditInv
<1>4. Overruled' /\ ~(audit'.status \in EndedWell)
  BY <1>1 DEF Overruled, EndedWell, AuditInv, AuditTypes
<1> QED
  BY <1>1, <1>2, <1>3, <1>4 DEF AuditInv, Audit!Terminal, WholeIfEndedWell

LEMMA BeginKeeps == ASSUME AuditInv, Audit!Begin PROVE AuditInv'
<1>1. /\ pc = "begin" /\ pc' = "discover" /\ checks' = {} /\ crawl' = Audit!Seeded /\ UNCHANGED <<request, event>>
  BY DEF Audit!Begin
<1> DEFINE e == IF audit.status \in Audit!Terminal THEN audit.error ELSE "none"
<1>2. PICK s \in {"discovering"} \cup {t \in Audit!Terminal : t = audit.status} :
        audit' = [audit EXCEPT !.status = s, !.error = e]
  BY DEF Audit!Begin
<1>3. (audit.status \notin Audit!Terminal \/ Overruled) /\ (event # <<>> => event[1].status \notin EndedWell)
  BY <1>1 DEF AuditInv, AtRest
<1>4. AuditTypes' /\ audit'.status = s
  BY <1>1, <1>2, AuditMoves DEF AuditInv, AuditPC, Audit!Running
<1>5. s = "discovering" \/ (s = "failed" /\ e = "queue")
  BY <1>2, <1>3 DEF Overruled, Audit!Terminal
<1>6. audit'.error = e
  <2> HIDE DEF e
  <2> QED
    BY <1>2 DEF AuditInv, AuditTypes
<1>7. CrawlTypes'
  BY <1>1, SeededTyped
<1> QED
  BY <1>1, <1>3, <1>4, <1>5, <1>6, <1>7 DEF AuditInv, WholeIfEndedWell, EndedWell, Overruled

LEMMA BatchTyped == ASSUME CrawlTypes, Audit!DiscoverBatch PROVE CrawlTypes'
<1>1. PICK n \in 1 .. Batch : crawl' = BatchWorkedOff(n)
  BY SameBatch DEF Audit!DiscoverBatch
<1>2. Ordered(crawl)
  BY SameSet DEF CrawlTypes, Ordered
<1>3. Ordered(crawl')
  BY <1>1, <1>2, BatchCollects
<1> QED
  BY <1>3, SameSet DEF CrawlTypes, Ordered

LEMMA DiscoverKeeps == ASSUME AuditInv, Audit!DiscoverBatch PROVE AuditInv'
<1>1. pc = "discover" /\ UNCHANGED <<site, request, audit, pc, checks, event>>
  BY DEF Audit!DiscoverBatch
<1>2. CrawlTypes'
  BY BatchTyped DEF AuditInv
<1> QED
  BY <1>1, <1>2, RowStays DEF AuditInv, AuditTypes

LEMMA RaiseKeeps == ASSUME AuditInv, Audit!Raise PROVE AuditInv'
<1>1. PICK e \in {"raised", "timeout"} : audit' = [audit EXCEPT !.status = "failed", !.error = e]
  BY DEF Audit!Raise
<1>2. pc \in Audit!Running /\ pc' = "done" /\ UNCHANGED <<site, request, crawl, checks, event>>
  BY DEF Audit!Raise
<1>3. AuditTypes' /\ audit'.status = "failed" /\ Audit!Shown(audit)' = Audit!Shown(audit)
  BY <1>1, <1>2, AuditMoves DEF AuditInv, AuditPC, Audit!Terminal
<1>4. CrawlTypes'
  BY <1>2, CrawlStays DEF AuditInv
<1> QED
  BY <1>2, <1>3, <1>4 DEF AuditInv, WholeIfEndedWell, EndedWell, AtRest, Audit!Running, Audit!Terminal

LEMMA DiscoveredKeeps == ASSUME AuditInv, Audit!Discovered PROVE AuditInv'
<1> DEFINE s == IF crawl.urls = <<>> THEN "failed" ELSE "checking"
<1>1. /\ pc = "discover" /\ pc' = "check" /\ checks = {}
      /\ audit' = [audit EXCEPT !.found = Len(crawl.urls), !.status = s]
      /\ UNCHANGED <<site, request, crawl, checks, event>>
  BY DEF Audit!Discovered, AuditInv
<1>2. audit' = [status |-> s, error |-> audit.error, found |-> Len(crawl.urls), passed |-> audit.passed,
                failed |-> audit.failed, graph |-> audit.graph, complete |-> audit.complete]
  BY <1>1 DEF AuditInv, AuditTypes
<1>3. AuditTypes' /\ audit'.status = s /\ audit'.found = Len(crawl.urls)
  BY <1>1, <1>2 DEF AuditTypes, AuditPC, Audit!Running, Audit!Terminal
<1>4. InHand'
  BY <1>1, <1>3, FS_EmptySet DEF InHand, Once
<1>5. CrawlTypes'
  BY <1>1, CrawlStays DEF AuditInv
<1> QED
  BY <1>1, <1>3, <1>4, <1>5 DEF AuditInv, WholeIfEndedWell, EndedWell, AtRest

LEMMA ListenKeeps == ASSUME AuditInv, Audit!Listen PROVE AuditInv'
<1>1. /\ request # "new" /\ event' = <<Audit!Response(audit)>> /\ audit.status \in Audit!Terminal
      /\ UNCHANGED <<site, request, audit, pc, crawl, checks>>
  BY DEF Audit!Listen
<1>2. event'[1].status = audit.status /\ event'[1].results = Audit!Shown(audit)
  BY <1>1 DEF Audit!Response
<1>3. InHand => InHand'
  BY <1>1, StillInHand
<1>4. AuditTypes' /\ WholeIfEndedWell' /\ Audit!Shown(audit)' = Audit!Shown(audit) /\ (Overruled' <=> Overruled)
  BY <1>1 DEF AuditInv, AuditTypes, WholeIfEndedWell, Audit!Found, Audit!Shown, Overruled
<1>5. CrawlTypes'
  BY <1>1, CrawlStays DEF AuditInv
<1> QED
  BY <1>1, <1>2, <1>3, <1>4, <1>5 DEF AuditInv

\* The pages that are checked after k of them are pages that were found.
LEMMA UpTo ==
  ASSUME Batch \in Nat \ {0}, CrawlTypes, NEW k \in Nat, k <= Len(crawl.urls)
  PROVE  Len(Audit!Atmost(crawl.urls, k + Batch)) \in k .. Len(crawl.urls)
<1> DEFINE urls == crawl.urls
           L == Len(urls)
           n == IF L < k + Batch THEN L ELSE k + Batch
           V == {urls[i] : i \in 1 .. n}
<1>1. L \in Nat
  BY DEF CrawlTypes
<1>2. n \in Nat /\ n >= k /\ n <= L
  <2> HIDE DEF L
  <2> QED
    BY <1>1 DEF L
<1>3. Audit!Atmost(urls, k + Batch) = SubSeq(urls, 1, n)
  BY DEF Audit!Atmost
<1> HIDE DEF n
<1>4. 1 \in Int /\ n \in Int /\ \A i \in 1 .. n : urls[i] \in V
  BY <1>2
<1> HIDE DEF V
<1>5. Len(SubSeq(urls, 1, n)) = IF 1 <= n THEN n - 1 + 1 ELSE 0
  BY <1>4, SubSeqProperties
<1> HIDE DEF L
<1> QED
  BY <1>1, <1>2, <1>3, <1>5 DEF L

\* A batch of checks: which pages are walked, and how, and what becomes of the results and the row.
BatchChecked(m, walk) ==
  /\ m = Len(Audit!Atmost(crawl.urls, Cardinality(checks) + Batch))
  /\ \A i \in Cardinality(checks) + 1 .. m : walk[crawl.urls[i]] \in Walks(site, crawl.urls[i])
  /\ checks' = checks \cup
        Audit!Checks(site, {walk[u] : u \in {crawl.urls[i] : i \in Cardinality(checks) + 1 .. m}})
  /\ audit' = IF m < Len(crawl.urls) THEN audit
              ELSE [audit EXCEPT !.passed = m - Cardinality({r \in checks' : Audit!IsError(r)}),
                                 !.failed = Cardinality({r \in checks' : Audit!IsError(r)})]

LEMMA BatchIsChecked ==
  ASSUME Audit!CheckBatch
  PROVE  /\ pc = "check" /\ Cardinality(checks) < Len(crawl.urls)
         /\ UNCHANGED <<site, request, pc, crawl, event>>
         /\ \E m, walk : BatchChecked(m, walk)
<1> DEFINE k == Cardinality(checks)
           m == Len(Audit!Atmost(crawl.urls, k + Batch))
           urls == {crawl.urls[i] : i \in k + 1 .. m}
<1>1. /\ pc = "check" /\ k < Len(crawl.urls) /\ UNCHANGED <<site, request, pc, crawl, event>>
  BY CardinalityIs DEF Audit!CheckBatch
<1>2. PICK walk \in [urls -> UNION {Audit!Walks(site, u) : u \in urls}] :
        /\ \A u \in urls : walk[u] \in Audit!Walks(site, u)
        /\ checks' = checks \cup Audit!Checks(site, {walk[u] : u \in urls})
        /\ audit' = IF m < Len(crawl.urls) THEN audit
                    ELSE [audit EXCEPT !.passed = m - Cardinality({r \in checks' : Audit!IsError(r)}),
                                       !.failed = Cardinality({r \in checks' : Audit!IsError(r)})]
  BY CardinalityIs DEF Audit!CheckBatch
<1>3. \A i \in k + 1 .. m : walk[crawl.urls[i]] \in Walks(site, crawl.urls[i])
  BY <1>2, SameWalk
<1>4. BatchChecked(m, walk)
  BY <1>2, <1>3 DEF BatchChecked
<1> QED
  BY <1>1, <1>4

\* The results that there are after a batch.
LEMMA BatchInHand ==
  ASSUME Batch \in Nat \ {0}, Different, AuditInv, pc = "check", Cardinality(checks) < Len(crawl.urls),
         NEW m, NEW walk, BatchChecked(m, walk)
  PROVE  /\ m \in Cardinality(checks) .. Len(crawl.urls)
         /\ IsFiniteSet(checks') /\ Cardinality(checks') = m /\ Once(checks')
         /\ \A r \in checks' : IsCheck(r) /\ \E i \in 1 .. m : r.url = crawl.urls[i]
<1> DEFINE k == Cardinality(checks)
           L == Len(crawl.urls)
           urls == crawl.urls
           new == Audit!Checks(site, {walk[u] : u \in {urls[i] : i \in k + 1 .. m}})
<1>1. InHand /\ CrawlTypes /\ k \in Nat /\ L \in Nat
  BY FS_CardinalityType DEF AuditInv, InHand, CrawlTypes
<1>2. m \in k .. L
  <2> HIDE DEF k
  <2> QED
    BY <1>1, UpTo DEF BatchChecked, k
<1>3. checks' = checks \cup new
  BY DEF BatchChecked
<1>4. \A i, j \in 1 .. L : i < j => urls[i] # urls[j]
  BY DEF Different
<1>5. \A i \in k + 1 .. m : walk[urls[i]] \in Walks(site, urls[i])
  BY DEF BatchChecked
<1>6. \A r \in checks : IsCheck(r) /\ \E i \in 1 .. k : r.url = urls[i]
  BY <1>1 DEF InHand
<1>7. IsFiniteSet(checks) /\ Once(checks)
  BY <1>1 DEF InHand
<1> HIDE DEF L, urls
<1>8. k <= m /\ m \in Nat /\ \A i, j \in k + 1 .. m : i < j => urls[i] # urls[j]
  <2> HIDE DEF k
  <2> QED
    BY <1>1, <1>2, <1>4
<1>9. /\ IsFiniteSet(new) /\ Cardinality(new) = m - k /\ Once(new)
      /\ \A r \in new : IsCheck(r) /\ \E i \in k + 1 .. m : r.url = urls[i]
  <2> HIDE DEF k
  <2>1. Walked(k, m, urls, walk)
    BY <1>1, <1>5, <1>8 DEF Walked
  <2> QED
    BY <2>1, BatchOfChecks
<1> HIDE DEF new, k
<1>10. \A r \in checks : \A q \in new : r.url # q.url
  <2> SUFFICES ASSUME NEW r \in checks, NEW q \in new PROVE r.url # q.url
    OBVIOUS
  <2>1. PICK i \in 1 .. k : r.url = urls[i]
    BY <1>6
  <2>2. PICK j \in k + 1 .. m : q.url = urls[j]
    BY <1>9
  <2>3. i \in 1 .. L /\ j \in 1 .. L /\ i < j
    BY <1>1, <1>2
  <2> QED
    BY <1>4, <2>1, <2>2, <2>3
<1>11. checks \cap new = {}
  BY <1>10
<1>12. Cardinality(checks \cap new) = 0
  BY <1>11, FS_EmptySet
<1>13. IsFiniteSet(checks') /\ Cardinality(checks') = k + (m - k) - 0
  BY <1>3, <1>7, <1>9, <1>12, FS_Union DEF k
<1>14. Cardinality(checks') = m
  BY <1>1, <1>8, <1>13
<1>15. Once(checks')
  BY <1>3, <1>7, <1>9, <1>10 DEF Once
<1>16. \A r \in checks' : IsCheck(r) /\ \E i \in 1 .. m : r.url = urls[i]
  <2>1. 1 .. k \subseteq 1 .. m /\ k + 1 .. m \subseteq 1 .. m
    BY <1>1, <1>8
  <2> QED
    BY <1>3, <1>6, <1>9, <2>1
<1> QED
  BY <1>2, <1>13, <1>14, <1>15, <1>16 DEF k, L, urls

LEMMA CheckBatchKeeps ==
  ASSUME Batch \in Nat \ {0}, Different, AuditInv, Audit!CheckBatch
  PROVE  AuditInv'
<1> DEFINE k == Cardinality(checks)
           L == Len(crawl.urls)
           bad == Cardinality({r \in checks' : Audit!IsError(r)})
<1>1. PICK m, walk : BatchChecked(m, walk)
  BY BatchIsChecked
<1>2. pc = "check" /\ k < L /\ UNCHANGED <<site, request, pc, crawl, event>>
  BY BatchIsChecked
<1>3. audit' = IF m < L THEN audit ELSE [audit EXCEPT !.passed = m - bad, !.failed = bad]
  BY <1>1 DEF BatchChecked
<1>4. InHand /\ AuditTypes /\ CrawlTypes /\ k \in Nat /\ L \in Nat
  BY <1>2, FS_CardinalityType DEF AuditInv, InHand, CrawlTypes
<1>5. /\ m \in k .. L /\ IsFiniteSet(checks') /\ Cardinality(checks') = m /\ Once(checks')
      /\ \A r \in checks' : IsCheck(r) /\ \E i \in 1 .. m : r.url = crawl.urls[i]
  BY <1>1, <1>2, BatchInHand
<1>6. audit'.status = audit.status /\ audit'.error = audit.error /\ audit'.found = audit.found /\ AuditTypes'
      /\ audit'.graph = audit.graph
      /\ (m = L => audit'.passed = m - bad /\ audit'.failed = bad)
  <2> HIDE DEF bad
  <2>1. CASE m < L
    <3>1. audit' = audit /\ m # L
      BY <1>3, <1>4, <1>5, <2>1
    <3> QED
      BY <1>2, <1>4, <3>1 DEF AuditTypes
  <2>2. CASE ~(m < L)
    <3>1. audit' = [status |-> audit.status, error |-> audit.error, found |-> audit.found,
                    passed |-> m - bad, failed |-> bad, graph |-> audit.graph, complete |-> audit.complete]
      BY <1>3, <1>4, <2>2 DEF AuditTypes
    <3> QED
      BY <1>2, <1>4, <3>1 DEF AuditTypes
  <2> QED
    BY <2>1, <2>2
<1>7. InHand'
  <2>1. audit'.found = Len(crawl'.urls)
    BY <1>2, <1>4, <1>6 DEF InHand
  <2>2. \A r \in checks' : IsCheck(r)' /\ \E i \in 1 .. Cardinality(checks') : r.url = crawl'.urls[i]
    <3>1. \A r \in checks' : IsCheck(r) <=> IsCheck(r)'
      BY <1>2 DEF IsCheck, CheckOf
    <3> QED
      BY <1>2, <1>5, <3>1
  <2>3. ASSUME Cardinality(checks') = Len(crawl'.urls)
        PROVE  audit'.failed = Cardinality(Failures') /\ audit'.passed = Len(crawl'.urls) - audit'.failed
    <3>1. Failures' = {r \in checks' : Audit!IsError(r)}
      BY DEF Failures, Audit!IsError
    <3>2. m = L /\ crawl' = crawl
      BY <1>2, <1>5, <2>3
    <3>3. Cardinality(Failures') = bad
      BY <3>1
    <3> HIDE DEF bad, L
    <3>4. audit'.failed = bad /\ audit'.passed = L - bad
      BY <1>6, <3>2
    <3> QED
      BY <3>2, <3>3, <3>4 DEF L
  <2> QED
    BY <1>5, <2>1, <2>2, <2>3 DEF InHand
<1>8. CrawlTypes'
  BY <1>2, <1>4, CrawlStays
<1>9. audit.status = "checking" \/ Overruled
  <2>1. crawl.urls # <<>>
    BY <1>2, <1>4
  <2> QED
    BY <1>2, <2>1 DEF AuditInv
<1> HIDE DEF k, L, bad
<1>10. (audit'.status = "checking" \/ Overruled') /\ pc = "check" /\ UNCHANGED <<pc, event>>
  BY <1>2, <1>6, <1>9 DEF Overruled
<1>11. event # <<>> => event[1].status \notin EndedWell
  BY <1>10 DEF AuditInv, AtRest
<1> QED
  BY <1>6, <1>7, <1>8, <1>10, <1>11 DEF AuditInv, WholeIfEndedWell, EndedWell, Audit!Terminal, Overruled

LEMMA CheckedKeeps == ASSUME AuditInv, Audit!Checked PROVE AuditInv'
<1>1. /\ pc = "check" /\ Cardinality(checks) = Len(crawl.urls) /\ pc' = "store"
      /\ UNCHANGED <<site, request, audit, crawl, checks, event>>
  BY CardinalityIs DEF Audit!Checked
<1>2. CrawlTypes'
  BY <1>1, CrawlStays DEF AuditInv
<1>3. InHand'
  BY <1>1, StillInHand DEF AuditInv
<1> QED
  BY <1>1, <1>2, <1>3, RowStays DEF AuditInv, AuditPC, Audit!Running, AtRest

LEMMA StoreKeeps == ASSUME AuditInv, Audit!Store PROVE AuditInv'
<1>1. pc = "store" /\ pc' = "return" /\ UNCHANGED <<site, request, crawl, checks, event>>
  BY DEF Audit!Store
<1>0. PICK e : audit' = [audit EXCEPT !.status = Audit!FinalStatus, !.error = e, !.complete = crawl.complete,
                                      !.graph = Audit!Stored]
  BY DEF Audit!Store
<1>2. AuditTypes /\ CrawlTypes /\ InHand /\ Cardinality(checks) = Len(crawl.urls)
  BY <1>1 DEF AuditInv
<1>3. audit' = [status |-> Audit!FinalStatus, error |-> e, found |-> audit.found, passed |-> audit.passed,
                failed |-> audit.failed, graph |-> Audit!Stored, complete |-> crawl.complete]
  BY <1>0, <1>2 DEF AuditTypes
<1>4. Audit!FinalStatus \in Audit!Terminal
  BY DEF Audit!FinalStatus, Audit!Terminal
<1>5. audit'.status = Audit!FinalStatus /\ audit'.graph = Audit!Stored /\ audit'.found = audit.found
      /\ audit'.failed = audit.failed /\ audit'.passed = audit.passed /\ AuditTypes'
  <2> HIDE DEF Audit!FinalStatus, Audit!Stored
  <2> QED
    BY <1>1, <1>3, <1>4 DEF AuditTypes, AuditPC, Audit!Running
<1>6. CrawlTypes'
  BY <1>1, <1>2, CrawlStays
<1>7. audit'.status \in EndedWell => checks # {}
  BY <1>5 DEF Audit!FinalStatus, EndedWell
<1>8. checks # {} => WholeIfEndedWell'
  <2> SUFFICES ASSUME checks # {} PROVE WholeIfEndedWell'
    OBVIOUS
  <2>1. /\ audit.failed = Cardinality(Failures) /\ audit.passed = Len(crawl.urls) - audit.failed
        /\ audit.found = Len(crawl.urls)
    BY <1>2 DEF InHand
  <2>2. /\ Cardinality({node.url : node \in Audit!Stored.checked}) = Cardinality(checks)
        /\ Cardinality({node \in Audit!Stored.checked : node.end \in Audit!Unverified}) = Cardinality(Failures)
    BY <1>2, GraphOfResults DEF InHand
  <2>3. Audit!Found' = {node.url : node \in Audit!Stored.checked}
    BY <1>5 DEF Audit!Found
  <2>4. {node \in audit.graph.checked : node.end \in Audit!Unverified}' = {node \in Audit!Stored.checked : node.end \in Audit!Unverified}
    BY <1>5
  <2>5. Cardinality(Failures) \in Nat /\ Len(crawl.urls) \in Nat
    <3>1. IsFiniteSet(Failures)
      BY <1>2, FS_Subset DEF InHand, Failures
    <3> QED
      BY <1>2, <3>1, FS_CardinalityType DEF CrawlTypes
  <2> QED
    BY <1>2, <1>5, <2>1, <2>2, <2>3, <2>4, <2>5 DEF WholeIfEndedWell
<1>9. event' = <<>> \/ event'[1].status \notin EndedWell
  BY <1>1 DEF AuditInv, AtRest
<1> QED
  BY <1>1, <1>4, <1>5, <1>6, <1>7, <1>8, <1>9 DEF AuditInv, WholeIfEndedWell, AtRest

LEMMA AuditStarts == ASSUME Audit!Init PROVE AuditInv
<1>1. crawl = Audit!NoCrawl /\ audit = Audit!NewAudit /\ pc = "none" /\ event = <<>>
  BY DEF Audit!Init
<1>2. CrawlTypes
  <2>1. crawl.urls = <<>> /\ <<>> \in Seq(Audit!ToSet(<<>>))
    BY <1>1, Listing DEF Audit!NoCrawl
  <2> QED
    BY <1>1, <2>1 DEF CrawlTypes, Audit!NoCrawl, Audit!ToSet
<1>3. AuditTypes /\ audit.status = "queued"
  BY <1>1 DEF AuditTypes, Audit!NewAudit, AuditPC
<1> QED
  BY <1>1, <1>2, <1>3 DEF AuditInv, WholeIfEndedWell, EndedWell

LEMMA AuditStepKeeps == ASSUME Batch \in Nat \ {0}, Different, AuditInv, [Audit!Next]_Audit!vars PROVE AuditInv'
<1>1. CASE UNCHANGED Audit!vars
  <2>1. UNCHANGED <<site, request, audit, pc, crawl, checks, event>>
    BY <1>1 DEF Audit!vars
  <2>2. CrawlTypes'
    BY <2>1, CrawlStays DEF AuditInv
  <2>3. InHand => InHand'
    BY <2>1, StillInHand
  <2> QED
    BY <2>1, <2>2, <2>3, RowStays DEF AuditInv, AuditTypes
<1>2. CASE Audit!Idle
  BY <1>1, <1>2 DEF Audit!Idle
<1> QED
  BY <1>1, <1>2, QuietKeeps, SendFailsKeeps, BeginKeeps, DiscoverKeeps, RaiseKeeps, DiscoveredKeeps,
     ListenKeeps, CheckBatchKeeps, CheckedKeeps, StoreKeeps DEF Audit!Next, Audit!Task

\* What the instance answers is what RedirectAnswers says.
LEMMA Answered ==
  /\ Audit!Found = Found /\ Audit!Unverified = Unverified /\ Audit!Terminal = Terminal
  /\ \A a : Audit!Shown(a) = Shown(a)
<1>1. \A a : Audit!Shown(a) = Shown(a)
  <2> SUFFICES ASSUME NEW a PROVE Audit!Shown(a) = Shown(a)
    OBVIOUS
  <2>1. \A g, node : Audit!Rebuilt(g, node) = Rebuilt(g, node)
    BY DEF Audit!Rebuilt, Rebuilt, Audit!RebuiltHops, RebuiltHops, Audit!Followed, Followed,
           Audit!Onward, Onward, Audit!Passed, Passed, Audit!Nowhere, Nowhere, Audit!Last, Last, Audit!Cardinality, Cardinality,
           Audit!IsFiniteSet, IsFiniteSet
  <2> QED
    BY <2>1 DEF Audit!Shown, Shown
<1> QED
  BY <1>1 DEF Audit!Found, Found, Audit!Unverified, Unverified, Audit!Terminal, Terminal

-----------------------------------------------------------------------------
(* Walks.  A place of a walk, of the redirects that the site has, and of   *)
(* the way along the stored edges is defined from the place before; what   *)
(* they share is shown place by place.                                     *)

\* Of the numbers in a set the least.
LEMMA LeastOf ==
  ASSUME NEW S \in SUBSET Nat, S # {}
  PROVE  \E n \in S : \A m \in S : n <= m
<1>1. PICK n \in S : \A k \in S : ~(<<k, n>> \in OpToRel(<, Nat))
  BY WFMin, NatLessThanWellFounded, Zenon
<1>2. ASSUME NEW m \in S, ~(n <= m) PROVE FALSE
  <2>1. m \in Nat /\ n \in Nat /\ m < n
    BY <1>2
  <2>2. <<m, n>> \in OpToRel(<, Nat)
    BY <2>1, Zenon DEF OpToRel
  <2> QED
    BY <1>1, <1>2, <2>2, Zenon
<1> QED
  BY <1>1, <1>2

\* A function whose values are built one from the other.
IsWay(g, lo, hi, start, step) == g = [n \in lo .. hi |-> IF n = lo THEN start ELSE step[g[n - 1]]]

LEMMA WayExists ==
  ASSUME NEW lo \in Nat, NEW hi \in Nat, lo <= hi, NEW start, NEW step
  PROVE  \E g : IsWay(g, lo, hi, start, step)
<1> DEFINE Built(g, n) == IF n = lo THEN start ELSE step[g[n - 1]]
           Is(g, m) == g = [n \in lo .. m |-> Built(g, n)]
           M == {m \in Nat : \E g : Is(g, m)}
<1>1. lo \in M
  <2> DEFINE g == [n \in lo .. lo |-> start]
  <2>1. Is(g, lo)
    OBVIOUS
  <2> HIDE DEF g, Is
  <2> QED
    BY <2>1
<1>2. ASSUME NEW m \in lo .. hi - 1, m \in M PROVE m + 1 \in M
  <2>1. PICK g : Is(g, m)
    BY <1>2
  <2> DEFINE h == [n \in lo .. m + 1 |-> IF n <= m THEN g[n] ELSE Built(g, n)]
  <2>2. \A n \in lo .. m : g[n] = Built(g, n)
    BY <2>1
  <2>3. \A n \in lo .. m + 1 : Built(h, n) = Built(g, n)
    OBVIOUS
  <2>4. \A n \in lo .. m + 1 : h[n] = Built(g, n)
    <3> HIDE DEF Built
    <3> QED
      BY <2>2
  <2>5. h = [n \in lo .. m + 1 |-> h[n]]
    OBVIOUS
  <2>6. Is(h, m + 1)
    <3> HIDE DEF h, Built
    <3> QED
      BY <2>3, <2>4, <2>5
  <2> HIDE DEF h, Is
  <2> QED
    BY <2>6
<1>3. hi \in M
  <2> HIDE DEF M
  <2> QED
    BY <1>1, <1>2, StepsBetween
<1> QED
  BY <1>3 DEF IsWay

\* The URLs that a walk asks for, one by one.
LEMMA PlacesAsked ==
  ASSUME NEW s, NEW u
  PROVE  /\ Place(s, u)[1] = u
         /\ \A n \in 1 .. MaxHops : Place(s, u)[n + 1] = s.answer[Place(s, u)[n]]
<1> DEFINE Is(g) == IsWay(g, 1, MaxHops + 1, u, s.answer)
           p == Place(s, u)
<1>1. MaxHops \in Nat
  BY ChainAssumption
<1>2. \E g : Is(g)
  <2>1. 1 \in Nat /\ MaxHops + 1 \in Nat /\ 1 <= MaxHops + 1
    BY <1>1
  <2> QED
    BY <2>1, WayExists
<1>3. p = (CHOOSE g : Is(g))
  BY DEF Place, IsWay
<1>4. Is(p)
  <2> HIDE DEF Is, p
  <2> QED
    BY <1>2, <1>3, Zenon
<1> HIDE DEF p
<1>5. \A n \in 1 .. MaxHops + 1 : p[n] = IF n = 1 THEN u ELSE s.answer[p[n - 1]]
  BY <1>4 DEF IsWay
<1>6. p[1] = u
  BY <1>1, <1>5
<1>7. ASSUME NEW n \in 1 .. MaxHops PROVE p[n + 1] = s.answer[p[n]]
  <2>1. n + 1 \in 1 .. MaxHops + 1 /\ n + 1 # 1 /\ n + 1 - 1 = n
    BY <1>1
  <2> QED
    BY <1>5, <2>1
<1> QED
  BY <1>6, <1>7 DEF p

\* A walk stops.
StopsAt(s, u, n) ==
  \/ s.answer[Place(s, u)[n]] \notin Url
  \/ \E m \in 1 .. n : Place(s, u)[m] = s.answer[Place(s, u)[n]]
  \/ n > MaxHops

StopOf(s, u) == CHOOSE n \in 1 .. MaxHops + 1 : StopsAt(s, u, n) /\ \A m \in 1 .. n - 1 : ~StopsAt(s, u, m)

LEMMA WalkStops ==
  ASSUME NEW s, NEW u
  PROVE  /\ StopOf(s, u) \in 1 .. MaxHops + 1 /\ StopsAt(s, u, StopOf(s, u))
         /\ \A m \in 1 .. StopOf(s, u) - 1 : ~StopsAt(s, u, m)
<1> DEFINE S == {n \in 1 .. MaxHops + 1 : StopsAt(s, u, n)}
<1>1. MaxHops \in Nat
  BY ChainAssumption
<1>2. MaxHops + 1 \in S
  BY <1>1 DEF StopsAt
<1>3. PICK n \in S : \A m \in S : n <= m
  <2>1. S \in SUBSET Nat /\ S # {}
    BY <1>1, <1>2
  <2> HIDE DEF S
  <2> QED
    BY <2>1, LeastOf
<1>4. n \in 1 .. MaxHops + 1 /\ StopsAt(s, u, n) /\ \A m \in 1 .. n - 1 : ~StopsAt(s, u, m)
  BY <1>1, <1>3
<1> QED
  BY <1>4, Zenon DEF StopOf

LEMMA EndOfWalk ==
  ASSUME NEW s, NEW u
  PROVE  \E to \in {s.answer[Place(s, u)[StopOf(s, u)]]} :
           /\ to \in {"page", "gone", "silent"} => Walk(s, u).end = to
           /\ (Walk(s, u).end = "malformed") <=> (to = Nowhere)
           /\ to \notin {"page", "gone", "silent", Nowhere} =>
                Walk(s, u).end = IF \E m \in 1 .. StopOf(s, u) : Place(s, u)[m] = to THEN "loop" ELSE "limit"
<1> DEFINE place == Place(s, u)
           To(n)    == s.answer[place[n]]
           Seen(n)  == {place[m] : m \in 1 .. n}
           Stops(n) == To(n) \notin Url \/ To(n) \in Seen(n) \/ LastAnswer(n)
           last     == CHOOSE n \in 1 .. MaxHops + 1 : Stops(n) /\ \A m \in 1 .. n - 1 : ~Stops(m)
           ended    == To(last) \in {"page", "gone", "silent"}
<1>1. Walk(s, u).end = IF ended THEN To(last)
                       ELSE IF To(last) = Nowhere THEN "malformed"
                       ELSE IF To(last) \in Seen(last) THEN "loop" ELSE "limit"
  BY DEF Walk
<1>2. \A n : Stops(n) <=> StopsAt(s, u, n)
  BY DEF StopsAt, LastAnswer
<1> HIDE DEF Stops
<1>3. last = StopOf(s, u)
  BY <1>2 DEF StopOf
<1> HIDE DEF last
<1>4. To(last) \in Seen(last) <=> \E m \in 1 .. last : place[m] = To(last)
  OBVIOUS
<1> HIDE DEF To, Seen
<1>5. /\ To(last) \in {"page", "gone", "silent"} => Walk(s, u).end = To(last)
      /\ (Walk(s, u).end = "malformed") <=> (To(last) = Nowhere)
      /\ To(last) \notin {"page", "gone", "silent", Nowhere} =>
           Walk(s, u).end = IF To(last) \in Seen(last) THEN "loop" ELSE "limit"
  BY <1>1 DEF Nowhere
<1> QED
  BY <1>3, <1>4, <1>5 DEF To

\* What redirects lead to is on the way of the walk.
LEMMA OnTheWay ==
  ASSUME site = site, NEW u
  PROVE  \A n \in 0 .. MaxHops :
           RedirectsTo(u)[n] = IF \A m \in 1 .. n : site.answer[Place(site, u)[m]] \in Url
                               THEN {Place(site, u)[n + 1]} ELSE {}
<1> DEFINE p == Place(site, u)
           h == [n \in 0 .. MaxHops |-> IF \A m \in 1 .. n : site.answer[p[m]] \in Url THEN {p[n + 1]} ELSE {}]
           Next1(S) == {site.answer[v] : v \in {w \in S : site.answer[w] \in Url}}
           Is(g) == g = [n \in 0 .. MaxHops |-> IF n = 0 THEN {u} ELSE Next1(g[n - 1])]
           to == RedirectsTo(u)
<1>1. MaxHops \in Nat
  BY ChainAssumption
<1>2. p[1] = u /\ \A n \in 1 .. MaxHops : p[n + 1] = site.answer[p[n]]
  BY PlacesAsked
<1> HIDE DEF p
<1>3. ASSUME NEW n \in 1 .. MaxHops PROVE h[n] = Next1(h[n - 1])
  <2>1. n - 1 \in 0 .. MaxHops /\ n - 1 + 1 = n /\ p[n + 1] = site.answer[p[n]]
        /\ 1 .. n = (1 .. n - 1) \cup {n}
    BY <1>1, <1>2
  <2>2. h[n - 1] = IF \A m \in 1 .. n - 1 : site.answer[p[m]] \in Url THEN {p[n]} ELSE {}
    BY <2>1
  <2>3. h[n] = IF \A m \in 1 .. n : site.answer[p[m]] \in Url THEN {site.answer[p[n]]} ELSE {}
    <3>1. n \in 0 .. MaxHops
      BY <1>1
    <3>2. h[n] = IF \A m \in 1 .. n : site.answer[p[m]] \in Url THEN {p[n + 1]} ELSE {}
      BY <3>1
    <3> QED
      BY <2>1, <3>2
  <2> HIDE DEF h
  <2> QED
    BY <2>1, <2>2, <2>3
<1>4. h[0] = {u}
  BY <1>1, <1>2
<1>5. Is(h)
  <2>1. h = [n \in 0 .. MaxHops |-> h[n]]
    OBVIOUS
  <2>2. \A n \in 0 .. MaxHops : h[n] = IF n = 0 THEN {u} ELSE Next1(h[n - 1])
    <3> HIDE DEF h, Next1
    <3> QED
      BY <1>1, <1>3, <1>4
  <2> HIDE DEF h, Next1
  <2> QED
    BY <2>1, <2>2
<1>6. to = (CHOOSE g : Is(g))
  BY DEF RedirectsTo
<1>7. Is(to)
  <2> HIDE DEF Is, to, h
  <2> QED
    BY <1>5, <1>6, Zenon
<1> HIDE DEF to, Next1
<1>8. \A n \in 0 .. MaxHops : to[n] = IF n = 0 THEN {u} ELSE Next1(to[n - 1])
  BY <1>7
<1>9. \A n \in 0 .. MaxHops : to[n] = h[n]
  <2> DEFINE G == {n \in Nat : to[n] = h[n]}
  <2> HIDE DEF h
  <2>1. 0 \in G
    BY <1>1, <1>4, <1>8
  <2>2. \A n \in 0 .. MaxHops - 1 : n \in G => n + 1 \in G
    <3> SUFFICES ASSUME NEW n \in 0 .. MaxHops - 1, n \in G PROVE n + 1 \in G
      OBVIOUS
    <3>1. n + 1 \in 1 .. MaxHops /\ n + 1 - 1 = n /\ n \in Nat /\ n + 1 # 0 /\ n + 1 \in 0 .. MaxHops
      BY <1>1
    <3>2. to[n + 1] = Next1(to[n]) /\ h[n + 1] = Next1(h[n])
      BY <1>3, <1>8, <3>1
    <3> QED
      BY <3>1, <3>2
  <2> HIDE DEF G
  <2>3. 0 .. MaxHops \subseteq G
    BY <1>1, <2>1, <2>2, StepsBetween
  <2> QED
    BY <2>3 DEF G
<1> QED
  BY <1>9 DEF p, to

\* A walk that came back to where it was has no new URL to show.
LEMMA RoundAndRound ==
  ASSUME NEW s, NEW u, NEW last \in 1 .. MaxHops,
         \E k \in 1 .. last : Place(s, u)[k] = s.answer[Place(s, u)[last]]
  PROVE  \A n \in 1 .. MaxHops + 1 : \E j \in 1 .. last : Place(s, u)[n] = Place(s, u)[j]
<1> DEFINE p == Place(s, u)
           G == {n \in Nat : \E j \in 1 .. last : p[n] = p[j]}
<1>1. MaxHops \in Nat /\ last \in Nat
  BY ChainAssumption
<1>2. \A n \in 1 .. MaxHops : p[n + 1] = s.answer[p[n]]
  BY PlacesAsked
<1>3. PICK k \in 1 .. last : p[k] = s.answer[p[last]]
  OBVIOUS
<1> HIDE DEF p
<1>4. 1 \in G
  BY <1>1
<1>5. ASSUME NEW n \in 1 .. MaxHops, n \in G PROVE n + 1 \in G
  <2>1. PICK j \in 1 .. last : p[n] = p[j]
    BY <1>5
  <2>2. n + 1 \in Nat /\ j \in 1 .. MaxHops /\ p[n + 1] = s.answer[p[j]] /\ p[j + 1] = s.answer[p[j]]
    BY <1>1, <1>2, <2>1
  <2>3. CASE j = last
    BY <1>3, <2>2, <2>3
  <2>4. CASE j # last
    <3>1. j + 1 \in 1 .. last
      BY <1>1, <2>4
    <3> QED
      BY <2>2, <3>1
  <2> QED
    BY <2>3, <2>4
<1>6. 1 .. MaxHops + 1 \subseteq G
  <2> HIDE DEF G
  <2> DEFINE hi == MaxHops + 1
  <2>1. hi \in Nat /\ 1 \in Nat /\ \A n \in 1 .. hi - 1 : n \in G => n + 1 \in G
    BY <1>1, <1>5
  <2> HIDE DEF hi
  <2>2. 1 .. hi \subseteq G
    BY <1>4, <2>1, StepsBetween
  <2> QED
    BY <2>2 DEF hi
<1> QED
  BY <1>6 DEF p

\* A walk ends at an answer exactly if redirects lead there, of those that were asked for.
LEMMA WalkLeads ==
  ASSUME NEW u, NEW answers \in SUBSET {"page", "gone"}
  PROVE  Walk(site, u).end \in answers <=> LeadsTo(u, answers)
<1> DEFINE p == Place(site, u)
           To(n) == site.answer[p[n]]
           last == StopOf(site, u)
<1>1. MaxHops \in Nat /\ answers \cap Url = {}
  BY ChainAssumption
<1>2. /\ last \in 1 .. MaxHops + 1
      /\ To(last) \notin Url \/ (\E m \in 1 .. last : p[m] = To(last)) \/ last > MaxHops
      /\ \A m \in 1 .. last - 1 : To(m) \in Url
  BY WalkStops DEF StopsAt
<1>3. Walk(site, u).end \in answers <=> To(last) \in answers
  BY EndOfWalk
<1>4. LeadsTo(u, answers) <=>
        \E n \in 1 .. MaxHops + 1 : (\A m \in 1 .. n - 1 : To(m) \in Url) /\ To(n) \in answers
  <2>0. \A n \in 0 .. MaxHops :
           RedirectsTo(u)[n] = IF \A m \in 1 .. n : To(m) \in Url THEN {p[n + 1]} ELSE {}
    BY OnTheWay
  <2>1. ASSUME LeadsTo(u, answers)
        PROVE  \E n \in 1 .. MaxHops + 1 : (\A m \in 1 .. n - 1 : To(m) \in Url) /\ To(n) \in answers
    <3>1. PICK n \in 0 .. MaxHops : \E v \in RedirectsTo(u)[n] : site.answer[v] \in answers
      BY <2>1 DEF LeadsTo
    <3>2. (\A m \in 1 .. n : To(m) \in Url) /\ To(n + 1) \in answers
      <4>1. RedirectsTo(u)[n] = IF \A m \in 1 .. n : To(m) \in Url THEN {p[n + 1]} ELSE {}
        BY <2>0
      <4> HIDE DEF p
      <4> QED
        BY <3>1, <4>1
    <3>3. n + 1 \in 1 .. MaxHops + 1 /\ n + 1 - 1 = n
      BY <1>1
    <3> HIDE DEF p
    <3> QED
      BY <3>2, <3>3
  <2>2. ASSUME NEW n \in 1 .. MaxHops + 1, \A m \in 1 .. n - 1 : To(m) \in Url, To(n) \in answers
        PROVE  LeadsTo(u, answers)
    <3>1. n - 1 \in 0 .. MaxHops /\ n - 1 + 1 = n
      BY <1>1
    <3>2. p[n] \in RedirectsTo(u)[n - 1]
      <4>1. RedirectsTo(u)[n - 1] = IF \A m \in 1 .. n - 1 : To(m) \in Url THEN {p[n - 1 + 1]} ELSE {}
        BY <2>0, <3>1
      <4> HIDE DEF p
      <4> QED
        BY <2>2, <3>1, <4>1
    <3> QED
      BY <2>2, <3>1, <3>2 DEF LeadsTo
  <2> QED
    BY <2>1, <2>2
<1>5. ASSUME NEW n \in 1 .. MaxHops + 1, \A m \in 1 .. n - 1 : To(m) \in Url, To(n) \in answers
      PROVE  To(last) \in answers
  <2>1. To(n) \notin Url /\ last \in Nat /\ n \in Nat
    BY <1>1, <1>2, <1>5
  <2>2. last <= n
    BY <1>2, <2>1
  <2>3. CASE last < n
    <3>1. last \in 1 .. MaxHops /\ To(last) \in Url /\ \A m \in 1 .. last : To(m) \in Url
      BY <1>1, <1>2, <1>5, <2>1, <2>3
    <3>2. \E m \in 1 .. last : p[m] = To(last)
      BY <1>1, <1>2, <3>1
    <3>3. PICK j \in 1 .. last : p[n] = p[j]
      BY <3>1, <3>2, RoundAndRound
    <3> QED
      BY <2>1, <3>1, <3>3
  <2> QED
    BY <1>5, <2>1, <2>2, <2>3
<1> QED
  BY <1>2, <1>3, <1>4, <1>5

\* The hops of a walk, whose URLs are asked for once each.
HopsTaken(s, u) ==
  IF s.answer[Place(s, u)[StopOf(s, u)]] \in {"page", "gone", "silent"} THEN StopOf(s, u) - 1 ELSE StopOf(s, u)

LEMMA HopsOfWalk ==
  ASSUME NEW s, NEW u
  PROVE  Walk(s, u).hops = [n \in 1 .. HopsTaken(s, u) |->
                              [at |-> Place(s, u)[n], to |-> s.answer[Place(s, u)[n]]]]
<1> DEFINE place == Place(s, u)
           To(n)    == s.answer[place[n]]
           Seen(n)  == {place[m] : m \in 1 .. n}
           Stops(n) == To(n) \notin Url \/ To(n) \in Seen(n) \/ LastAnswer(n)
           last     == CHOOSE n \in 1 .. MaxHops + 1 : Stops(n) /\ \A m \in 1 .. n - 1 : ~Stops(m)
           ended    == To(last) \in {"page", "gone", "silent"}
<1>1. Walk(s, u).hops = [n \in 1 .. IF ended THEN last - 1 ELSE last |-> [at |-> place[n], to |-> To(n)]]
  BY DEF Walk
<1>2. \A n : Stops(n) <=> StopsAt(s, u, n)
  BY DEF StopsAt, LastAnswer
<1> HIDE DEF Stops
<1>3. last = StopOf(s, u)
  BY <1>2 DEF StopOf
<1> HIDE DEF last
<1> QED
  BY <1>1, <1>3 DEF HopsTaken

LEMMA AskedOnce ==
  ASSUME NEW s, NEW u, NEW i \in 1 .. StopOf(s, u), NEW j \in 1 .. StopOf(s, u),
         Place(s, u)[i] = Place(s, u)[j]
  PROVE  i = j
<1> DEFINE p == Place(s, u)
           last == StopOf(s, u)
<1>1. MaxHops \in Nat /\ last \in 1 .. MaxHops + 1 /\ \A m \in 1 .. last - 1 : \A k \in 1 .. m : p[k] # s.answer[p[m]]
  BY ChainAssumption, WalkStops DEF StopsAt
<1>2. \A n \in 1 .. MaxHops : p[n + 1] = s.answer[p[n]]
  BY PlacesAsked
<1> HIDE DEF p, last
<1>3. ASSUME NEW a \in 1 .. last, NEW b \in 1 .. last, a < b PROVE p[a] # p[b]
  <2>1. b - 1 \in 1 .. last - 1 /\ b - 1 \in 1 .. MaxHops /\ b - 1 + 1 = b /\ a \in 1 .. b - 1
    BY <1>1, <1>3
  <2>2. p[b] = s.answer[p[b - 1]]
    BY <1>2, <2>1
  <2> QED
    BY <1>1, <2>1, <2>2
<1>4. i \in 1 .. last /\ j \in 1 .. last /\ p[i] = p[j]
  BY DEF p, last
<1> QED
  BY <1>1, <1>3, <1>4

\* A hop goes where the site's answer says, and no end of a walk is a hop.
LEMMA HopsAreAnswers ==
  ASSUME NEW s, NEW u, NEW h \in ToSet(Walk(s, u).hops)
  PROVE  /\ h = [at |-> h.at, to |-> s.answer[h.at]]
         /\ h.to \notin {"page", "gone", "silent"}
<1> DEFINE p == Place(s, u)
           last == StopOf(s, u)
           L == HopsTaken(s, u)
<1>1. /\ MaxHops \in Nat /\ last \in 1 .. MaxHops + 1
      /\ \A m \in 1 .. last - 1 : s.answer[p[m]] \in Url
  BY ChainAssumption, WalkStops DEF StopsAt
<1>2. Walk(s, u).hops = [n \in 1 .. L |-> [at |-> p[n], to |-> s.answer[p[n]]]]
  BY HopsOfWalk
<1>3. PICK n \in 1 .. L : h = [at |-> p[n], to |-> s.answer[p[n]]]
  <2> HIDE DEF L, p
  <2> QED
    BY <1>2 DEF ToSet
<1>4. s.answer[p[n]] \notin {"page", "gone", "silent"}
  <2>1. CASE s.answer[p[last]] \in {"page", "gone", "silent"}
    <3>1. n \in 1 .. last - 1
      BY <2>1 DEF HopsTaken
    <3> QED
      BY <1>1, <3>1, ChainAssumption
  <2>2. CASE s.answer[p[last]] \notin {"page", "gone", "silent"}
    <3>1. n \in 1 .. last
      BY <2>2 DEF HopsTaken
    <3> QED
      BY <1>1, <2>2, <3>1, ChainAssumption
  <2> QED
    BY <2>1, <2>2
<1> QED
  BY <1>3, <1>4

\* Edges that go where the site's answers say; an end of a walk, or nowhere, is no edge.
Truthful(s, g) ==
  /\ IsFiniteSet(g.redirects)
  /\ \A h \in g.redirects : h = [at |-> h.at, to |-> s.answer[h.at]] /\ h.to \notin {"page", "gone", "silent", Nowhere}

LEMMA OnwardIs ==
  ASSUME NEW s, NEW g, Truthful(s, g)
  PROVE  /\ DOMAIN Onward(g) = {h.at : h \in g.redirects}
         /\ \A u \in DOMAIN Onward(g) : Onward(g)[u] = s.answer[u]
<1> DEFINE HopAt(u) == CHOOSE h \in g.redirects : h.at = u
<1>1. Onward(g) = [u \in {h.at : h \in g.redirects} |-> HopAt(u).to]
  BY DEF Onward
<1>2. ASSUME NEW u \in {h.at : h \in g.redirects} PROVE HopAt(u).to = s.answer[u]
  <2>1. HopAt(u) \in g.redirects /\ HopAt(u).at = u
    BY <1>2
  <2> HIDE DEF HopAt
  <2>2. HopAt(u) = [at |-> u, to |-> s.answer[u]]
    BY <2>1 DEF Truthful
  <2> QED
    BY <2>2
<1> HIDE DEF HopAt
<1> QED
  BY <1>1, <1>2

LEMMA Passes ==
  ASSUME NEW g, NEW node, IsFiniteSet(g.redirects)
  PROVE  /\ Passed(g, node)[0] = node.url
         /\ \A n \in 1 .. Cardinality(g.redirects) : Passed(g, node)[n] = Onward(g)[Passed(g, node)[n - 1]]
<1> DEFINE C == Cardinality(g.redirects)
           Is(f) == IsWay(f, 0, C, node.url, Onward(g))
           q == Passed(g, node)
<1>1. C \in Nat
  BY FS_CardinalityType
<1> HIDE DEF C
<1>2. \E f : Is(f)
  BY <1>1, WayExists
<1>3. q = (CHOOSE f : Is(f))
  BY DEF Passed, IsWay, C
<1>4. Is(q)
  <2> HIDE DEF Is, q
  <2> QED
    BY <1>2, <1>3, Zenon
<1> HIDE DEF q
<1>5. \A n \in 0 .. C : q[n] = IF n = 0 THEN node.url ELSE Onward(g)[q[n - 1]]
  BY <1>4 DEF IsWay
<1> QED
  BY <1>1, <1>5 DEF C, q

\* The way along the edges stops.
RestsAt(g, node, n) ==
  \/ Passed(g, node)[n] \notin DOMAIN Onward(g)
  \/ \E m \in 0 .. n - 1 : Passed(g, node)[m] = Passed(g, node)[n]

RestOf(g, node) ==
  CHOOSE n \in 0 .. Cardinality(g.redirects) : RestsAt(g, node, n) /\ \A m \in 0 .. n - 1 : ~RestsAt(g, node, m)

\* There are too few edges for it to go on.
LEMMA WayRests ==
  ASSUME NEW s, NEW g, NEW node, Truthful(s, g)
  PROVE  /\ RestOf(g, node) \in 0 .. Cardinality(g.redirects) /\ RestsAt(g, node, RestOf(g, node))
         /\ \A m \in 0 .. RestOf(g, node) - 1 : ~RestsAt(g, node, m)
<1> DEFINE E == g.redirects
           C == Cardinality(E)
           q == Passed(g, node)
           S == {n \in 0 .. C : RestsAt(g, node, n)}
<1>1. IsFiniteSet(E) /\ C \in Nat /\ DOMAIN Onward(g) = {h.at : h \in E}
  BY OnwardIs, FS_CardinalityType DEF Truthful
<1>2. S # {}
  <2> SUFFICES ASSUME S = {} PROVE FALSE
    OBVIOUS
  <2> DEFINE edge(n) == CHOOSE h \in E : h.at = q[n]
             f == [n \in 0 .. C |-> edge(n)]
  <2>1. \A n \in 0 .. C : q[n] \in {h.at : h \in E} /\ \A m \in 0 .. n - 1 : q[m] # q[n]
    BY <1>1 DEF RestsAt
  <2>2. \A n \in 0 .. C : edge(n) \in E /\ edge(n).at = q[n]
    BY <2>1
  <2> HIDE DEF edge
  <2>3. f \in [0 .. C -> E] /\ \A n \in 0 .. C : f[n].at = q[n]
    BY <2>2
  <2> HIDE DEF f
  <2>4. IsFiniteSet(0 .. C) /\ Cardinality(0 .. C) = C + 1
    <3> HIDE DEF C
    <3>1. IsFiniteSet(0 .. C) /\ Cardinality(0 .. C) = IF 0 > C THEN 0 ELSE C - 0 + 1
      BY <1>1, FS_Interval
    <3> QED
      BY <1>1, <3>1
  <2>5. Cardinality(E) < Cardinality(0 .. C)
    BY <1>1, <2>4
  <2>6. PICK x, y \in 0 .. C : x # y /\ f[x] = f[y]
    <3> HIDE DEF C, E
    <3> QED
      BY <1>1, <2>3, <2>4, <2>5, FS_PigeonHole
  <2>7. q[x] = q[y]
    BY <2>3, <2>6
  <2>8. x \in 0 .. y - 1 \/ y \in 0 .. x - 1
    <3> HIDE DEF C
    <3> QED
      BY <1>1, <2>6
  <2> HIDE DEF q, E
  <2> QED
    BY <2>1, <2>7, <2>8
<1>3. PICK n \in S : \A m \in S : n <= m
  <2>1. S \in SUBSET Nat
    <3> HIDE DEF C
    <3> QED
      BY <1>1
  <2> HIDE DEF S
  <2> QED
    BY <1>2, <2>1, LeastOf
<1>4. n \in 0 .. C /\ RestsAt(g, node, n) /\ \A m \in 0 .. n - 1 : ~RestsAt(g, node, m)
  <2>1. n \in 0 .. C /\ RestsAt(g, node, n)
    BY <1>3
  <2>2. \A m \in 0 .. n - 1 : m \in 0 .. C /\ ~(n <= m)
    <3> HIDE DEF C
    <3> QED
      BY <1>1, <2>1
  <2> QED
    BY <1>3, <2>1, <2>2
<1> QED
  BY <1>4, Zenon DEF RestOf

LEMMA FollowedIs ==
  ASSUME NEW g, NEW node
  PROVE  Followed(g, node) = [n \in 1 .. RestOf(g, node) |->
                                [at |-> Passed(g, node)[n - 1], to |-> Passed(g, node)[n]]]
<1> DEFINE onward == Onward(g)
           place  == Passed(g, node)
           Stops(n) == place[n] \notin DOMAIN onward \/ \E m \in 0 .. n - 1 : place[m] = place[n]
           last == CHOOSE n \in 0 .. Cardinality(g.redirects) : Stops(n) /\ \A m \in 0 .. n - 1 : ~Stops(m)
<1>1. Followed(g, node) = [n \in 1 .. last |-> [at |-> place[n - 1], to |-> place[n]]]
  BY DEF Followed
<1>2. \A n : Stops(n) <=> RestsAt(g, node, n)
  BY DEF RestsAt
<1> HIDE DEF Stops
<1>3. last = RestOf(g, node)
  BY <1>2 DEF RestOf
<1> HIDE DEF last
<1> QED
  BY <1>1, <1>3

\* Every hop that is followed is one that the site takes.
LEMMA FollowedIsTrue ==
  ASSUME NEW s, NEW g, NEW node, Truthful(s, g), NEW n \in 1 .. RestOf(g, node)
  PROVE  /\ Passed(g, node)[n] = s.answer[Passed(g, node)[n - 1]]
         /\ Passed(g, node)[n - 1] \in DOMAIN Onward(g)
<1> DEFINE C == Cardinality(g.redirects)
           rest == RestOf(g, node)
           q == Passed(g, node)
<1>1. C \in Nat /\ rest \in 0 .. C /\ \A m \in 0 .. rest - 1 : ~RestsAt(g, node, m)
  BY WayRests, FS_CardinalityType DEF Truthful
<1>2. \A m \in 1 .. C : q[m] = Onward(g)[q[m - 1]]
  BY Passes DEF Truthful
<1>3. n - 1 \in 0 .. rest - 1 /\ n \in 1 .. C
  BY <1>1
<1>4. q[n - 1] \in DOMAIN Onward(g)
  BY <1>1, <1>3 DEF RestsAt
<1> HIDE DEF C, q
<1>5. q[n] = s.answer[q[n - 1]]
  <2>1. \A u \in DOMAIN Onward(g) : Onward(g)[u] = s.answer[u]
    BY OnwardIs
  <2> QED
    BY <1>2, <1>3, <1>4, <2>1
<1> QED
  BY <1>4, <1>5 DEF q

\* The edges of a graph hold a walk: each hop but one to nowhere.
Holds(s, g, u) == \A h \in ToSet(Walk(s, u).hops) : h.to # Nowhere => h \in g.redirects

\* They hold its first hops.
Leads(s, g, u, K) == \A n \in 1 .. K : [at |-> Place(s, u)[n], to |-> s.answer[Place(s, u)[n]]] \in g.redirects

\* As far as the walk goes the edges lead the same way.
LEMMA SameWay ==
  ASSUME NEW s, NEW g, NEW node, Truthful(s, g),
         NEW K \in Nat, K <= StopOf(s, node.url), Leads(s, g, node.url, K)
  PROVE  /\ K <= RestOf(g, node)
         /\ Passed(g, node)[0] = Place(s, node.url)[1]
         /\ \A n \in 1 .. K : /\ Passed(g, node)[n] = s.answer[Place(s, node.url)[n]]
                              /\ Passed(g, node)[n - 1] = Place(s, node.url)[n]
<1> DEFINE u == node.url
           p == Place(s, u)
           q == Passed(g, node)
           last == StopOf(s, u)
           D == DOMAIN Onward(g)
           C == Cardinality(g.redirects)
           rest == RestOf(g, node)
<1>1. /\ MaxHops \in Nat /\ last \in 1 .. MaxHops + 1 /\ C \in Nat /\ rest \in 0 .. C
  <2>1. MaxHops \in Nat /\ last \in 1 .. MaxHops + 1
    BY ChainAssumption, WalkStops
  <2>2. C \in Nat /\ rest \in 0 .. C
    BY WayRests, FS_CardinalityType DEF Truthful
  <2> HIDE DEF last, C, rest
  <2> QED
    BY <2>1, <2>2
<1>2. \A n \in 1 .. K : p[n] \in D
  <2> SUFFICES ASSUME NEW n \in 1 .. K PROVE p[n] \in D
    OBVIOUS
  <2>3. [at |-> p[n], to |-> s.answer[p[n]]] \in g.redirects
    BY DEF Leads
  <2>4. D = {h.at : h \in g.redirects}
    BY OnwardIs
  <2> QED
    BY <2>3, <2>4
<1>3. \A x \in D : Onward(g)[x] = s.answer[x]
  BY OnwardIs
<1>4. q[0] = u /\ \A n \in 1 .. C : q[n] = Onward(g)[q[n - 1]]
  BY Passes DEF Truthful
<1>5. p[1] = u /\ \A n \in 1 .. MaxHops : p[n + 1] = s.answer[p[n]]
  BY PlacesAsked
<1>6. rest < K => RestsAt(g, node, rest)
  BY WayRests
<1>7. \A i, j \in 1 .. last : p[i] = p[j] => i = j
  BY AskedOnce
<1>8. K <= last
  OBVIOUS
<1>9. /\ RestsAt(g, node, rest) <=> (q[rest] \notin D \/ \E m \in 0 .. rest - 1 : q[m] = q[rest])
  BY DEF RestsAt
<1> HIDE DEF p, q, last, D, C, rest
<1>10. \A n \in 0 .. K : n <= C => (n < last => q[n] = p[n + 1]) /\ (n > 0 => q[n] = s.answer[p[n]] /\ q[n - 1] = p[n])
  <2> DEFINE G == {n \in Nat : n <= C => (n < last => q[n] = p[n + 1]) /\ (n > 0 => q[n] = s.answer[p[n]] /\ q[n - 1] = p[n])}
  <2>1. 0 \in G
    BY <1>4, <1>5
  <2>2. ASSUME NEW n \in 0 .. K - 1, n \in G PROVE n + 1 \in G
    <3> SUFFICES ASSUME n + 1 <= C PROVE (n + 1 < last => q[n + 1] = p[n + 2]) /\ q[n + 1] = s.answer[p[n + 1]] /\ q[n] = p[n + 1]
      <4>1. n + 1 \in Nat /\ n + 1 - 1 = n /\ n + 1 + 1 = n + 2
        BY <2>2
      <4> QED
        BY <4>1
    <3>1. n \in Nat /\ n <= C /\ n < last /\ n + 1 \in 1 .. K /\ n + 1 \in 1 .. C /\ n + 1 - 1 = n
      BY <1>1, <1>8, <2>2
    <3>2. q[n] = p[n + 1] /\ q[n] \in D
      BY <1>2, <2>2, <3>1
    <3>3. q[n + 1] = s.answer[p[n + 1]]
      BY <1>3, <1>4, <3>1, <3>2
    <3>4. n + 1 < last => n + 1 \in 1 .. MaxHops /\ p[n + 2] = s.answer[p[n + 1]]
      <4>1. n + 1 < last => n + 1 \in 1 .. MaxHops
        BY <1>1, <3>1
      <4>2. n + 1 + 1 = n + 2
        BY <3>1
      <4> QED
        BY <1>5, <4>1, <4>2
    <3> QED
      BY <3>2, <3>3, <3>4
  <2> HIDE DEF G
  <2>3. 0 .. K \subseteq G
    BY <2>1, <2>2, StepsBetween
  <2> QED
    BY <2>3 DEF G
<1>11. K <= rest
  <2> SUFFICES ASSUME rest < K PROVE FALSE
    BY <1>1
  <2>1. rest \in 0 .. K /\ rest <= C /\ rest < last /\ rest + 1 \in 1 .. K
    BY <1>1, <1>8
  <2>2. q[rest] = p[rest + 1] /\ q[rest] \in D
    BY <1>2, <1>10, <2>1
  <2>3. PICK m \in 0 .. rest - 1 : q[m] = q[rest]
    BY <1>6, <1>9, <2>2
  <2>4. m \in 0 .. K /\ m <= C /\ m < last /\ m + 1 \in 1 .. last /\ rest + 1 \in 1 .. last /\ m + 1 # rest + 1
    BY <1>1, <2>1, <2>3
  <2>5. q[m] = p[m + 1]
    BY <1>10, <2>4
  <2> QED
    BY <1>7, <2>2, <2>3, <2>4, <2>5
<1>12. \A n \in 1 .. K : q[n] = s.answer[p[n]] /\ q[n - 1] = p[n]
  <2> SUFFICES ASSUME NEW n \in 1 .. K PROVE q[n] = s.answer[p[n]] /\ q[n - 1] = p[n]
    OBVIOUS
  <2>1. n \in 0 .. K /\ n <= C /\ n > 0
    BY <1>1, <1>11
  <2> QED
    BY <1>10, <2>1
<1> QED
  BY <1>4, <1>5, <1>11, <1>12 DEF p, q, rest

\* Where the walk ended in an answer, at nowhere or where it had been, the way along the edges
\* ends as well.
LEMMA SameEnd ==
  ASSUME NEW s, NEW g, NEW node, Truthful(s, g), Holds(s, g, node.url), NEW K \in Nat,
         K = IF Walk(s, node.url).end = "malformed" THEN HopsTaken(s, node.url) - 1 ELSE HopsTaken(s, node.url)
  PROVE  /\ K <= RestOf(g, node)
         /\ Walk(s, node.url).end # "limit" => K = RestOf(g, node)
         /\ Walk(s, node.url).end = "malformed" =>
              /\ s.answer[Place(s, node.url)[HopsTaken(s, node.url)]] = Nowhere
              /\ Passed(g, node)[K] = Place(s, node.url)[HopsTaken(s, node.url)]
         /\ Passed(g, node)[0] = Place(s, node.url)[1]
         /\ \A n \in 1 .. K : /\ Passed(g, node)[n] = s.answer[Place(s, node.url)[n]]
                              /\ Passed(g, node)[n - 1] = Place(s, node.url)[n]
<1> DEFINE u == node.url
           p == Place(s, u)
           q == Passed(g, node)
           last == StopOf(s, u)
           L == HopsTaken(s, u)
           to == s.answer[p[last]]
           end == Walk(s, u).end
           rest == RestOf(g, node)
<1>1. /\ MaxHops \in Nat /\ last \in 1 .. MaxHops + 1 /\ rest \in Nat
      /\ L = IF to \in {"page", "gone", "silent"} THEN last - 1 ELSE last
      /\ \A m \in 1 .. last - 1 : s.answer[p[m]] \in Url
  BY ChainAssumption, WalkStops, WayRests, FS_CardinalityType DEF Truthful, HopsTaken, StopsAt
<1>2. /\ to \in {"page", "gone", "silent"} => end = to
      /\ end = "malformed" <=> to = Nowhere
      /\ to \notin {"page", "gone", "silent", Nowhere} =>
           end = IF \E m \in 1 .. last : p[m] = to THEN "loop" ELSE "limit"
  BY EndOfWalk
<1>3. K <= L /\ K <= last /\ \A m \in 1 .. K : s.answer[p[m]] # Nowhere
  <2>1. CASE to \in {"page", "gone", "silent"} \/ to = Nowhere
    <3>1. K = last - 1
      BY <1>1, <1>2, <2>1 DEF Nowhere
    <3>2. \A m \in 1 .. K : s.answer[p[m]] \in Url
      BY <1>1, <3>1
    <3>3. K <= L /\ K <= last
      <4> HIDE DEF last, L, to, p
      <4> QED
        BY <1>1, <2>1, <3>1
    <3> QED
      BY <3>2, <3>3, ChainAssumption DEF Nowhere
  <2>2. CASE ~(to \in {"page", "gone", "silent"} \/ to = Nowhere)
    <3>1. K = last /\ L = last
      BY <1>1, <1>2, <2>2
    <3>2. \A m \in 1 .. K : m \in 1 .. last - 1 \/ m = last
      BY <1>1, <3>1
    <3>3. K <= L /\ K <= last
      <4> HIDE DEF last, L, to, p
      <4> QED
        BY <1>1, <3>1
    <3> QED
      BY <1>1, <3>1, <3>2, <3>3, <2>2, ChainAssumption
  <2> QED
    BY <2>1, <2>2
<1>4. /\ K <= rest /\ q[0] = p[1]
      /\ \A n \in 1 .. K : q[n] = s.answer[p[n]] /\ q[n - 1] = p[n]
  <2>1. Leads(s, g, u, K)
    <3> SUFFICES ASSUME NEW n \in 1 .. K PROVE [at |-> p[n], to |-> s.answer[p[n]]] \in g.redirects
      BY DEF Leads
    <3>1. L \in Nat
      <4> HIDE DEF L, last, to
      <4> QED
        BY <1>1
    <3>2. n \in 1 .. L
      <4> HIDE DEF L
      <4> QED
        BY <1>3, <3>1
    <3>3. [at |-> p[n], to |-> s.answer[p[n]]] \in ToSet(Walk(s, u).hops)
      <4>1. Walk(s, u).hops = [m \in 1 .. L |-> [at |-> p[m], to |-> s.answer[p[m]]]]
        BY HopsOfWalk
      <4> HIDE DEF L, p
      <4> QED
        BY <3>2, <4>1 DEF ToSet
    <3> QED
      BY <1>3, <3>3 DEF Holds
  <2> QED
    BY <1>3, <2>1, SameWay
<1>5. \A n \in 1 .. MaxHops : p[n + 1] = s.answer[p[n]]
  BY PlacesAsked
<1>6. \A m \in 0 .. rest - 1 : q[m] \in DOMAIN Onward(g) /\ \A i \in 0 .. m - 1 : q[i] # q[m]
  BY WayRests DEF RestsAt
<1>7. ASSUME to \in {"page", "gone", "silent"} \/ to = Nowhere
      PROVE  K = last - 1 /\ K = rest /\ q[K] = p[last]
  <2>1. K = last - 1
    BY <1>1, <1>2, <1>7 DEF Nowhere
  <2> HIDE DEF p, q, last, to, rest
  <2>2. q[K] = p[last]
    <3>1. CASE K = 0
      BY <1>1, <1>4, <2>1, <3>1
    <3>2. CASE K # 0
      <4>1. K \in 1 .. K /\ K \in 1 .. MaxHops /\ K + 1 = last
        BY <1>1, <2>1, <3>2
      <4> QED
        BY <1>4, <1>5, <4>1
    <3> QED
      BY <3>1, <3>2
  <2>3. p[last] \notin DOMAIN Onward(g)
    <3> SUFFICES ASSUME p[last] \in DOMAIN Onward(g) PROVE FALSE
      OBVIOUS
    <3>0. DOMAIN Onward(g) = {h.at : h \in g.redirects}
      BY OnwardIs
    <3>1. PICK h \in g.redirects : h.at = p[last]
      BY <3>0
    <3>2. h.to = to /\ h.to \notin {"page", "gone", "silent", Nowhere}
      BY <3>1 DEF Truthful, to
    <3> QED
      BY <1>7, <3>2
  <2>4. ~(K < rest)
    <3> SUFFICES ASSUME K < rest PROVE FALSE
      OBVIOUS
    <3>1. K \in 0 .. rest - 1
      BY <1>1
    <3> QED
      BY <1>6, <2>2, <2>3, <3>1
  <2> QED
    BY <1>1, <1>4, <2>1, <2>2, <2>4
<1>8. ASSUME to \notin {"page", "gone", "silent", Nowhere}, end # "limit" PROVE K = rest
  <2>1. PICK m \in 1 .. last : p[m] = to
    BY <1>2, <1>8
  <2>2. K = last
    BY <1>1, <1>2, <1>8
  <2> HIDE DEF p, q, last, to, rest
  <2>3. q[K] = to /\ q[m - 1] = p[m]
    <3>1. K \in 1 .. K
      BY <1>1, <2>2
    <3> QED
      BY <1>4, <2>1, <2>2, <3>1 DEF to
  <2>4. ~(K < rest)
    <3> SUFFICES ASSUME K < rest PROVE FALSE
      OBVIOUS
    <3>1. K \in 0 .. rest - 1 /\ m - 1 \in 0 .. K - 1
      BY <1>1, <2>2
    <3> QED
      BY <1>6, <2>1, <2>3, <3>1
  <2> QED
    BY <1>1, <1>4, <2>4
<1>9. end = "malformed" => s.answer[p[L]] = Nowhere /\ q[K] = p[L]
  BY <1>1, <1>2, <1>7 DEF Nowhere
<1> HIDE DEF p, q, last, to, rest, L, end
<1>10. end # "limit" => K = rest
  BY <1>7, <1>8
<1> QED
  BY <1>4, <1>9, <1>10 DEF p, q, rest, L, end

\* The hops that are shown of a checked URL are those of its walk.
LEMMA HopsAreRebuilt ==
  ASSUME NEW s, NEW g, NEW node, Truthful(s, g), Holds(s, g, node.url),
         node.end = Walk(s, node.url).end, node.count = Len(Walk(s, node.url).hops)
  PROVE  /\ IsPrefix(Walk(s, node.url).hops, RebuiltHops(g, node))
         /\ node.end # "limit" => RebuiltHops(g, node) = Walk(s, node.url).hops
         /\ \A h \in ToSet(RebuiltHops(g, node)) : s.answer[h.at] = h.to
<1> DEFINE u == node.url
           p == Place(s, u)
           q == Passed(g, node)
           L == HopsTaken(s, u)
           rest == RestOf(g, node)
           walked == Walk(s, u).hops
           hops == Followed(g, node)
           shown == RebuiltHops(g, node)
           hop(n) == [at |-> p[n], to |-> s.answer[p[n]]]
           K == IF node.end = "malformed" THEN L - 1 ELSE L
<1>1. L \in Nat /\ rest \in Nat /\ (node.end = "malformed" => L > 0)
  <2>1. MaxHops \in Nat /\ StopOf(s, u) \in 1 .. MaxHops + 1
    BY ChainAssumption, WalkStops
  <2>2. L = IF s.answer[p[StopOf(s, u)]] \in {"page", "gone", "silent"} THEN StopOf(s, u) - 1 ELSE StopOf(s, u)
    BY DEF HopsTaken
  <2>3. node.end = "malformed" <=> s.answer[p[StopOf(s, u)]] = Nowhere
    BY EndOfWalk
  <2>4. rest \in Nat
    <3> DEFINE C == Cardinality(g.redirects)
    <3>1. C \in Nat /\ rest \in 0 .. C
      BY WayRests, FS_CardinalityType DEF Truthful
    <3> HIDE DEF C, rest
    <3> QED
      BY <3>1
  <2> HIDE DEF L, rest, p
  <2> QED
    BY <2>1, <2>2, <2>3, <2>4 DEF Nowhere
<1>2. walked = [n \in 1 .. L |-> hop(n)] /\ hops = [n \in 1 .. rest |-> [at |-> q[n - 1], to |-> q[n]]]
  BY HopsOfWalk, FollowedIs
<1>3. K \in Nat
  <2> HIDE DEF L
  <2> QED
    BY <1>1
<1>4. /\ K <= rest /\ (node.end # "limit" => K = rest)
      /\ node.end = "malformed" => s.answer[p[L]] = Nowhere /\ q[K] = p[L]
      /\ q[0] = p[1]
      /\ \A n \in 1 .. K : q[n] = s.answer[p[n]] /\ q[n - 1] = p[n]
  BY <1>3, SameEnd
<1>5. \A n \in 1 .. rest : q[n] = s.answer[q[n - 1]]
  BY FollowedIsTrue
<1>6. shown = LET last == IF hops = <<>> THEN node.url ELSE Last(hops).to
              IN  IF node.end = "malformed" /\ Len(hops) < node.count
                  THEN Append(hops, [at |-> last, to |-> Nowhere]) ELSE hops
  BY DEF RebuiltHops
<1>7. Len(walked) = L /\ node.count = L /\ Len(hops) = rest
  <2> HIDE DEF hop, L, rest
  <2>1. walked \in Seq({hop(n) : n \in 1 .. L}) /\ Len(walked) = L
    <3> HIDE DEF walked
    <3> QED
      BY <1>1, <1>2
  <2>2. Len(hops) = rest
    <3> HIDE DEF hops
    <3> QED
      BY <1>1, <1>2
  <2> QED
    BY <2>1, <2>2
<1>8. u = q[0]
  BY Passes DEF Truthful
<1>9. CASE node.end = "malformed"
  <2>1. K = L - 1 /\ rest = L - 1 /\ L \in Nat /\ L >= 1
    BY <1>1, <1>4, <1>9
  <2> HIDE DEF L, rest, K, p, q, hops, walked, shown
  <2>2. (IF hops = <<>> THEN node.url ELSE Last(hops).to) = p[L]
    <3>1. CASE rest = 0
      <4>1. hops = <<>>
        BY <1>2, <3>1
      <4> QED
        BY <1>4, <1>8, <1>9, <2>1, <3>1, <4>1
    <3>2. CASE rest # 0
      <4>1. rest \in 1 .. rest
        BY <1>1, <3>2
      <4>2. hops # <<>> /\ Last(hops) = [at |-> q[rest - 1], to |-> q[rest]]
        <5>1. hops[rest] = [at |-> q[rest - 1], to |-> q[rest]]
          BY <1>2, <4>1
        <5> QED
          BY <1>2, <1>7, <3>2, <4>1, <5>1 DEF Last
      <4> QED
        BY <1>4, <1>9, <2>1, <4>2
    <3> QED
      BY <3>1, <3>2
  <2>3. shown = Append(hops, [at |-> p[L], to |-> Nowhere])
    BY <1>6, <1>7, <1>9, <2>1, <2>2
  <2>4. \A n \in 1 .. rest : hops[n] = hop(n)
    <3> SUFFICES ASSUME NEW n \in 1 .. rest PROVE hops[n] = hop(n)
      OBVIOUS
    <3>1. q[n] = s.answer[p[n]] /\ q[n - 1] = p[n]
      BY <1>4, <2>1
    <3> QED
      BY <1>2, <3>1
  <2>5. hop(L) = [at |-> p[L], to |-> Nowhere]
    BY <1>4, <1>9
  <2> DEFINE H == {hop(n) : n \in 1 .. L}
  <2>6. hops \in Seq(H)
    <3>1. hops = [n \in 1 .. rest |-> hops[n]] /\ \A n \in 1 .. rest : hops[n] \in H
      <4>1. \A n \in 1 .. rest : n \in 1 .. L
        BY <2>1
      <4> HIDE DEF hop
      <4> QED
        BY <1>2, <2>4, <4>1
    <3> HIDE DEF H
    <3> QED
      BY <1>1, <3>1
  <2>7. shown \in Seq(H) /\ Len(shown) = L /\ \A n \in 1 .. L : shown[n] = hop(n)
    <3>1. hop(L) \in H
      BY <2>1
    <3>2. shown = Append(hops, hop(L))
      BY <2>3, <2>5
    <3> HIDE DEF H, hop
    <3>3. /\ shown \in Seq(H) /\ Len(shown) = Len(hops) + 1 /\ shown[Len(hops) + 1] = hop(L)
          /\ \A n \in 1 .. Len(hops) : shown[n] = hops[n]
      BY <2>6, <3>1, <3>2, AppendProperties
    <3>4. \A n \in 1 .. L : n \in 1 .. rest \/ n = L
      BY <2>1
    <3> QED
      BY <1>7, <2>1, <2>4, <3>3, <3>4
  <2> HIDE DEF hop
  <2>8. shown = walked
    <3>1. shown = [n \in 1 .. L |-> shown[n]]
      BY <2>7
    <3> QED
      BY <1>2, <2>7, <3>1
  <2>9. ASSUME NEW h \in ToSet(shown) PROVE s.answer[h.at] = h.to
    <3>1. PICK n \in 1 .. L : h = hop(n)
      BY <1>2, <2>8, <2>9 DEF ToSet
    <3> QED
      BY <3>1 DEF hop
  <2>10. IsPrefix(walked, shown)
    BY <1>7, <2>8 DEF IsPrefix
  <2> QED
    BY <2>8, <2>9, <2>10 DEF shown, walked
<1>10. CASE node.end # "malformed"
  <2>1. K = L /\ shown = hops /\ L <= rest /\ (node.end # "limit" => L = rest)
    BY <1>4, <1>6, <1>10
  <2> HIDE DEF L, rest, K, p, q, hops, walked, shown
  <2>2. \A n \in 1 .. L : hops[n] = walked[n]
    <3> SUFFICES ASSUME NEW n \in 1 .. L PROVE hops[n] = walked[n]
      OBVIOUS
    <3>1. n \in 1 .. rest
      BY <1>1, <2>1
    <3>2. q[n] = s.answer[p[n]] /\ q[n - 1] = p[n]
      BY <1>4, <2>1
    <3> QED
      BY <1>2, <3>1, <3>2
  <2>3. IsPrefix(walked, hops)
    <3> DEFINE W == {walked[n] : n \in 1 .. L}
    <3>1. 1 \in Int /\ L \in Int /\ L - 1 + 1 = L /\ \A n \in 1 .. L : walked[n] \in W /\ hops[n] \in W /\ 1 + n - 1 = n
      BY <1>1, <2>2
    <3> HIDE DEF W
    <3>2. /\ SubSeq(walked, 1, L) \in Seq(W) /\ Len(SubSeq(walked, 1, L)) = (IF 1 <= L THEN L - 1 + 1 ELSE 0)
          /\ \A n \in 1 .. L - 1 + 1 : SubSeq(walked, 1, L)[n] = walked[1 + n - 1]
      BY <3>1, SubSeqProperties
    <3>3. /\ SubSeq(hops, 1, L) \in Seq(W) /\ Len(SubSeq(hops, 1, L)) = (IF 1 <= L THEN L - 1 + 1 ELSE 0)
          /\ \A n \in 1 .. L - 1 + 1 : SubSeq(hops, 1, L)[n] = hops[1 + n - 1]
      BY <3>1, SubSeqProperties
    <3> DEFINE a == SubSeq(walked, 1, L)
               b == SubSeq(hops, 1, L)
    <3>4. Len(a) = L /\ Len(b) = L
      BY <1>1, <3>2, <3>3
    <3>5. \A n \in 1 .. L : a[n] = b[n]
      BY <2>2, <3>1, <3>2, <3>3
    <3>6. a = b
      <4> HIDE DEF a, b
      <4>1. a = [n \in 1 .. L |-> a[n]] /\ b = [n \in 1 .. L |-> b[n]]
        BY <3>2, <3>3, <3>4 DEF a, b
      <4> QED
        BY <3>5, <4>1
    <3> QED
      BY <1>1, <1>7, <2>1, <3>6 DEF IsPrefix
  <2>4. L = rest => hops = walked
    <3> SUFFICES ASSUME L = rest PROVE hops = walked
      OBVIOUS
    <3>1. hops = [n \in 1 .. L |-> hops[n]] /\ walked = [n \in 1 .. L |-> walked[n]]
      BY <1>2
    <3> QED
      BY <2>2, <3>1
  <2>5. ASSUME NEW h \in ToSet(hops) PROVE s.answer[h.at] = h.to
    <3>1. PICK n \in 1 .. rest : h = [at |-> q[n - 1], to |-> q[n]]
      BY <1>2, <2>5 DEF ToSet
    <3> QED
      BY <1>5, <3>1
  <2> QED
    BY <2>1, <2>3, <2>4, <2>5 DEF shown, walked
<1> QED
  BY <1>9, <1>10

\* A check asks for every URL up to the one where it stops.
LEMMA AskedIsStop == ASSUME NEW s, NEW u PROVE Asked(s, u) = StopOf(s, u)
<1> DEFINE p == Place(s, u)
           last == StopOf(s, u)
           to == s.answer[p[last]]
           L == HopsTaken(s, u)
           w == Walk(s, u)
<1>1. MaxHops \in Nat /\ last \in 1 .. MaxHops + 1
  BY ChainAssumption, WalkStops
<1>2. L = IF to \in {"page", "gone", "silent"} THEN last - 1 ELSE last
  BY DEF HopsTaken
<1>3. w.hops = [n \in 1 .. L |-> [at |-> p[n], to |-> s.answer[p[n]]]]
  BY HopsOfWalk
<1>4. to \in {"page", "gone", "silent"} <=> w.end \in {"page", "gone", "silent"}
  BY EndOfWalk DEF Nowhere
<1>5. Asked(s, u) = IF w.end \in {"page", "gone", "silent"} THEN Len(w.hops) + 1 ELSE Len(w.hops)
  BY DEF Asked
<1> HIDE DEF p, last, to, L, w
<1>6. L \in Nat
  BY <1>1, <1>2
<1>7. Len(w.hops) = L
  BY <1>3, <1>6
<1>8. L = IF w.end \in {"page", "gone", "silent"} THEN last - 1 ELSE last
  BY <1>2, <1>4
<1> QED
  BY <1>1, <1>5, <1>7, <1>8 DEF last

\* A sequence whose members are those at the beginning of another.
LEMMA Begins ==
  ASSUME NEW V, NEW a \in Seq(V), NEW b \in Seq(V), Len(a) <= Len(b), \A n \in 1 .. Len(a) : a[n] = b[n]
  PROVE  IsPrefix(a, b)
<1> DEFINE L == Len(a)
<1>1. L \in Nat /\ Len(b) \in Nat /\ a = [n \in 1 .. L |-> a[n]]
  OBVIOUS
<1>2. SubSeq(a, 1, L) = [n \in 1 .. L |-> a[n]] /\ SubSeq(b, 1, L) = [n \in 1 .. L |-> b[n]]
  OBVIOUS
<1> HIDE DEF L
<1>3. SubSeq(a, 1, L) = SubSeq(b, 1, L)
  BY <1>2 DEF L
<1> QED
  BY <1>3 DEF IsPrefix, L

\* The hops of a walk that a failed request ended.
LEMMA CutIs ==
  ASSUME NEW s, NEW u, NEW n \in 1 .. Asked(s, u), NEW walked, walked = SubSeq(Walk(s, u).hops, 1, n - 1)
  PROVE  /\ n - 1 \in Nat /\ n - 1 <= StopOf(s, u) /\ Len(walked) = n - 1
         /\ walked \in Seq(ToSet(Walk(s, u).hops))
         /\ \A m \in 1 .. n - 1 : /\ walked[m] = [at |-> Place(s, u)[m], to |-> s.answer[Place(s, u)[m]]]
                                  /\ s.answer[Place(s, u)[m]] \in Url
<1> DEFINE p == Place(s, u)
           last == StopOf(s, u)
           L == HopsTaken(s, u)
           w == Walk(s, u).hops
           W == ToSet(w)
           hop(m) == [at |-> p[m], to |-> s.answer[p[m]]]
           K == n - 1
<1>1. last \in Nat /\ n \in 1 .. last /\ L \in {last - 1, last} /\ \A m \in 1 .. last - 1 : s.answer[p[m]] \in Url
  BY ChainAssumption, WalkStops, AskedIsStop DEF HopsTaken, StopsAt
<1>2. w = [m \in 1 .. L |-> hop(m)]
  BY HopsOfWalk
<1>3. walked = SubSeq(w, 1, K)
  OBVIOUS
<1> HIDE DEF p, last, L, w, hop
<1>4. K \in Nat /\ L \in Nat /\ K <= L /\ K <= last - 1 /\ K <= last
  BY <1>1
<1> HIDE DEF K
<1>5. walked = [m \in 1 .. K |-> w[m]]
  <2>1. w \in Seq({hop(m) : m \in 1 .. L}) /\ Len(w) = L
    BY <1>2, <1>4
  <2> QED
    BY <1>3, <1>4, <2>1
<1>6. \A m \in 1 .. K : w[m] \in W /\ walked[m] = hop(m) /\ s.answer[p[m]] \in Url
  <2> SUFFICES ASSUME NEW m \in 1 .. K PROVE w[m] \in W /\ walked[m] = hop(m) /\ s.answer[p[m]] \in Url
    OBVIOUS
  <2>1. m \in 1 .. L /\ m \in 1 .. last - 1
    BY <1>1, <1>4
  <2> QED
    BY <1>1, <1>2, <1>5, <2>1 DEF ToSet
<1> HIDE DEF W
<1>7. walked \in Seq(W) /\ Len(walked) = K
  BY <1>4, <1>5, <1>6
<1> QED
  BY <1>4, <1>6, <1>7 DEF K, hop, p, last, W, w

\* What is shown of a check that a failed request ended begins with the hops that it took.
LEMMA HopsOfCut ==
  ASSUME NEW s, NEW g, NEW node, Truthful(s, g), node.end # "malformed",
         NEW n \in 1 .. Asked(s, node.url), NEW walked, walked = SubSeq(Walk(s, node.url).hops, 1, n - 1),
         \A h \in ToSet(walked) : h.to # Nowhere => h \in g.redirects
  PROVE  /\ IsPrefix(walked, RebuiltHops(g, node))
         /\ \A h \in ToSet(RebuiltHops(g, node)) : s.answer[h.at] = h.to
<1> DEFINE u == node.url
           p == Place(s, u)
           q == Passed(g, node)
           W == ToSet(Walk(s, u).hops)
           rest == RestOf(g, node)
           hops == Followed(g, node)
           hop(m) == [at |-> p[m], to |-> s.answer[p[m]]]
           K == n - 1
<1>1. /\ K \in Nat /\ K <= StopOf(s, u) /\ Len(walked) = K /\ walked \in Seq(W)
      /\ \A m \in 1 .. K : walked[m] = hop(m) /\ s.answer[p[m]] \in Url
  BY CutIs
<1>5. Leads(s, g, u, K)
  <2> SUFFICES ASSUME NEW m \in 1 .. K PROVE hop(m) \in g.redirects
    BY DEF Leads
  <2>1. hop(m) \in ToSet(walked)
    <3> HIDE DEF hop, K, W
    <3> QED
      BY <1>1 DEF ToSet
  <2>2. hop(m).to # Nowhere
    BY <1>1, ChainAssumption
  <2> HIDE DEF hop
  <2> QED
    BY <2>1, <2>2
<1>6. /\ K <= rest
      /\ \A m \in 1 .. K : q[m] = s.answer[p[m]] /\ q[m - 1] = p[m]
  <2> HIDE DEF K
  <2> QED
    BY <1>1, <1>5, SameWay
<1>7. \A m \in 1 .. rest : q[m] = s.answer[q[m - 1]]
  BY FollowedIsTrue
<1>8. hops = [m \in 1 .. rest |-> [at |-> q[m - 1], to |-> q[m]]] /\ RebuiltHops(g, node) = hops
  BY FollowedIs DEF RebuiltHops
<1>9. rest \in Nat
  <2> DEFINE C == Cardinality(g.redirects)
  <2>1. C \in Nat /\ rest \in 0 .. C
    BY WayRests, FS_CardinalityType DEF Truthful
  <2> HIDE DEF C, rest
  <2> QED
    BY <2>1
<1> HIDE DEF rest, K, W, q, p, hops
<1>10. \A m \in 1 .. K : hops[m] = walked[m]
  <2> SUFFICES ASSUME NEW m \in 1 .. K PROVE hops[m] = walked[m]
    OBVIOUS
  <2>1. m \in 1 .. rest
    BY <1>1, <1>6, <1>9
  <2>2. q[m] = s.answer[p[m]] /\ q[m - 1] = p[m]
    BY <1>6
  <2> QED
    BY <1>1, <1>8, <2>1, <2>2
<1>11. IsPrefix(walked, hops)
  <2> DEFINE V == {hops[m] : m \in 1 .. rest} \cup W
  <2>1. hops \in Seq(V) /\ Len(hops) = rest
    <3>1. hops = [m \in 1 .. rest |-> hops[m]] /\ \A m \in 1 .. rest : hops[m] \in V
      BY <1>8
    <3> HIDE DEF V
    <3> QED
      BY <1>9, <3>1
  <2>2. walked \in Seq(V)
    BY <1>1
  <2> HIDE DEF V
  <2> QED
    BY <1>1, <1>6, <1>9, <1>10, <2>1, <2>2, Begins
<1>12. ASSUME NEW h \in ToSet(hops) PROVE s.answer[h.at] = h.to
  <2>1. PICK m \in 1 .. rest : h = [at |-> q[m - 1], to |-> q[m]]
    BY <1>8, <1>12 DEF ToSet
  <2> QED
    BY <1>7, <2>1
<1> QED
  BY <1>8, <1>11, <1>12

-----------------------------------------------------------------------------
(* What an audit that came to its own end answers is true of the site. *)

\* The redirects that some checks were answered with.
HopsOf(S) == {h \in UNION {ToSet(r.hops) : r \in S} : h.to # Nowhere}

\* The committed row and graph of an audit that came to its own end, and its checks.
Told ==
  /\ IsFiniteSet(checks) /\ Once(checks) /\ \A r \in checks : IsCheck(r)
  /\ Found = {r.url : r \in checks}
  /\ \A node \in audit.graph.checked : \E r \in checks :
       node.url = r.url /\ node.end = r.end /\ node.at = r.at /\ node.count = r.count
  /\ audit.graph.redirects = HopsOf(checks) /\ audit.graph.links = LinksOf(Found)
  /\ (audit.status = "failed") <=> (\A r \in checks : r.end \in Unverified)
  /\ (audit.status = "completed") <=>
       (checks # {} /\ audit.complete /\ \A r \in checks : r.end \notin Unverified)

AnswersInv ==
  /\ crawl.links = LinksOf(ToSet(crawl.urls))
  /\ pc \in {"discover", "check", "store"} => audit.error \in {"none", "queue"}
  /\ Finished => audit.status \in Terminal /\ pc \in AtRest /\ Told

LEMMA ToldStays == ASSUME UNCHANGED <<site, audit, checks>> PROVE (Told <=> Told') /\ (Finished <=> Finished')
<1>1. Found' = Found /\ HopsOf(checks)' = HopsOf(checks) /\ LinksOf(Found)' = LinksOf(Found)
  BY DEF Found, HopsOf, LinksOf, PageLinks
<1>2. Finished <=> Finished'
  BY DEF Finished
<1>3. \A r \in checks : IsCheck(r) <=> IsCheck(r)'
  BY DEF IsCheck, CheckOf
<1> QED
  BY <1>1, <1>2, <1>3 DEF Told

LEMMA LinksStay == ASSUME UNCHANGED <<site, crawl>> PROVE LinksOf(ToSet(crawl.urls))' = LinksOf(ToSet(crawl.urls))
BY DEF LinksOf, PageLinks

LEMMA AnswersStay ==
  ASSUME AnswersInv, UNCHANGED <<site, audit, crawl, checks>>,
         pc \in AtRest => pc' \in AtRest \/ audit.status \notin Terminal,
         pc' \in {"discover", "check", "store"} => pc \in {"discover", "check", "store"}
  PROVE  AnswersInv'
BY LinksStay, ToldStays DEF AnswersInv, Terminal

LEMMA QuietAnswers ==
  ASSUME AnswersInv,
         \/ Audit!Create \/ Audit!Accept \/ Audit!Send \/ Audit!Admit \/ Audit!BeginEnded \/ Audit!Return
         \/ Audit!Lose \/ Audit!Checked \/ Audit!Listen \/ UNCHANGED Audit!vars
  PROVE  AnswersInv'
<1>1. UNCHANGED <<site, audit, crawl, checks>>
  BY DEF Audit!Create, Audit!Accept, Audit!Send, Audit!Admit, Audit!BeginEnded, Audit!Return, Audit!Lose,
         Audit!Checked, Audit!Listen, Audit!vars
<1>2. /\ pc \in AtRest => pc' \in AtRest \/ audit.status \notin Terminal
      /\ pc' \in {"discover", "check", "store"} => pc \in {"discover", "check", "store"}
  <2>1. CASE Audit!Accept \/ Audit!Admit
    BY <2>1, Answered DEF Audit!Accept, Audit!Admit, AtRest
  <2>2. CASE Audit!Create \/ Audit!Send \/ Audit!Listen \/ UNCHANGED Audit!vars
    BY <2>2 DEF Audit!Create, Audit!Send, Audit!Listen, Audit!vars
  <2>3. CASE Audit!BeginEnded \/ Audit!Return \/ Audit!Lose \/ Audit!Checked
    BY <2>3 DEF Audit!BeginEnded, Audit!Return, Audit!Lose, Audit!Checked, AtRest
  <2> QED
    BY <2>1, <2>2, <2>3
<1> QED
  BY <1>1, <1>2, AnswersStay

\* What is known of a crawl that begins.
LEMMA NothingFound ==
  ASSUME crawl'.urls = <<>>, crawl'.links = {}
  PROVE  crawl'.links = LinksOf(ToSet(crawl.urls))'
<1>1. ToSet(<<>>) = {}
  BY DEF ToSet
<1> QED
  BY <1>1 DEF LinksOf

LEMMA NewAnswers == ASSUME AuditInv, AnswersInv, Audit!Redeliver \/ Audit!Begin PROVE AnswersInv'
<1>1. crawl'.urls = <<>> /\ crawl'.links = {}
  <2>1. crawl' = Audit!NoCrawl \/ crawl' = Audit!Seeded
    BY DEF Audit!Redeliver, Audit!Begin
  <2>2. Audit!NoCrawl.urls = <<>> /\ Audit!NoCrawl.links = {}
    BY DEF Audit!NoCrawl
  <2>3. Audit!Seeded.urls = <<>> /\ Audit!Seeded.links = {}
    BY SameSeeded, SeededRecord
  <2> QED
    BY <2>1, <2>2, <2>3
<1>2. CASE Audit!Redeliver
  <2>1. pc' = "queued" /\ UNCHANGED <<site, audit, checks>>
    BY <1>2 DEF Audit!Redeliver
  <2> QED
    BY <1>1, <2>1, NothingFound, ToldStays DEF AnswersInv, AtRest, Terminal
<1>3. CASE Audit!Begin
  <2> DEFINE e == IF audit.status \in Audit!Terminal THEN audit.error ELSE "none"
  <2>1. pc = "begin" /\ pc' = "discover"
    BY <1>3 DEF Audit!Begin
  <2>2. PICK s \in {"discovering"} \cup {t \in Audit!Terminal : t = audit.status} :
          audit' = [audit EXCEPT !.status = s, !.error = e]
    BY <1>3 DEF Audit!Begin
  <2>3. audit.status \notin Audit!Terminal \/ Overruled
    BY <2>1 DEF AuditInv
  <2>4. s \in {"discovering", "failed"} /\ e \in {"none", "queue"}
    BY <2>2, <2>3 DEF Overruled, Audit!Terminal
  <2> HIDE DEF e
  <2>5. audit'.status = s /\ audit'.error = e
    BY <2>2 DEF AuditInv, AuditTypes
  <2> QED
    BY <1>1, <2>1, <2>4, <2>5, NothingFound DEF AnswersInv, Finished
<1> QED
  BY <1>2, <1>3

LEMMA FailedAnswers == ASSUME AuditInv, AnswersInv, Audit!SendFails \/ Audit!Raise PROVE AnswersInv'
<1>1. /\ \E e \in {"queue", "raised", "timeout"} :
           /\ audit' = [audit EXCEPT !.status = "failed", !.error = e]
           /\ pc' \in {"discover", "check", "store"} => e = "queue"
      /\ UNCHANGED <<site, crawl>>
  BY DEF Audit!SendFails, Audit!Raise
<1>2. PICK e \in {"queue", "raised", "timeout"} :
           /\ audit' = [audit EXCEPT !.status = "failed", !.error = e]
           /\ pc' \in {"discover", "check", "store"} => e = "queue"
  BY <1>1
<1>3. audit'.status = "failed" /\ audit'.error = e
  BY <1>2 DEF AuditInv, AuditTypes
<1>4. ~Finished'
  BY <1>3 DEF Finished
<1> QED
  BY <1>1, <1>2, <1>3, <1>4, LinksStay DEF AnswersInv

LEMMA DiscoveredAnswers == ASSUME AuditInv, AnswersInv, Audit!Discovered PROVE AnswersInv'
<1> DEFINE s == IF crawl.urls = <<>> THEN "failed" ELSE "checking"
<1>1. /\ pc = "discover" /\ UNCHANGED <<site, crawl>>
      /\ audit' = [audit EXCEPT !.found = Len(crawl.urls), !.status = s]
  BY DEF Audit!Discovered
<1>2. s \in {"failed", "checking"}
  OBVIOUS
<1> HIDE DEF s
<1>3. audit'.status = s /\ audit'.error = audit.error
  BY <1>1 DEF AuditInv, AuditTypes
<1>4. audit.error \in {"none", "queue"}
  BY <1>1 DEF AnswersInv
<1>5. ~Finished'
  BY <1>2, <1>3, <1>4 DEF Finished
<1> QED
  BY <1>1, <1>3, <1>4, <1>5, LinksStay DEF AnswersInv

LEMMA DiscoverAnswers == ASSUME AuditInv, AnswersInv, Audit!DiscoverBatch PROVE AnswersInv'
<1>1. pc = "discover" /\ UNCHANGED <<site, audit, pc, checks>>
  BY DEF Audit!DiscoverBatch
<1>2. PICK n \in 1 .. Batch : crawl' = BatchWorkedOff(n)
  BY SameBatch DEF Audit!DiscoverBatch
<1>3. Ordered(crawl) /\ crawl.links = LinksOf(ToSet(crawl.urls))
  BY SameSet DEF AuditInv, AnswersInv, CrawlTypes, Ordered
<1>4. crawl'.links = LinksOf(ToSet(crawl'.urls))
  BY <1>2, <1>3, BatchCollects DEF Linked
<1>5. LinksOf(ToSet(crawl.urls))' = LinksOf(ToSet(crawl'.urls))
  BY <1>1 DEF LinksOf, PageLinks
<1> QED
  BY <1>1, <1>4, <1>5, ToldStays DEF AnswersInv

LEMMA CheckAnswers == ASSUME AuditInv, AnswersInv, Audit!CheckBatch PROVE AnswersInv'
<1>1. pc = "check" /\ UNCHANGED <<site, pc, crawl>>
  BY BatchIsChecked
<1>2. PICK m, walk : BatchChecked(m, walk)
  BY BatchIsChecked
<1>3. PICK p, f : audit' = audit \/ audit' = [audit EXCEPT !.passed = p, !.failed = f]
  BY <1>2 DEF BatchChecked
<1>4. audit'.error = audit.error /\ audit'.status = audit.status
  BY <1>3 DEF AuditInv, AuditTypes
<1>5. audit.error \in {"none", "queue"} /\ ~Finished
  BY <1>1 DEF AnswersInv, AtRest
<1>6. ~Finished'
  BY <1>4, <1>5 DEF Finished
<1> QED
  BY <1>1, <1>4, <1>5, <1>6, LinksStay DEF AnswersInv

\* Once there are as many results as pages there is one for each page.
LEMMA AllChecked ==
  ASSUME CrawlTypes, InHand, Cardinality(checks) = Len(crawl.urls)
  PROVE  {r.url : r \in checks} = ToSet(crawl.urls)
<1> DEFINE named == [r \in checks |-> r.url]
           V == {named[r] : r \in checks}
           U == ToSet(crawl.urls)
           L == Len(crawl.urls)
           f == [i \in 1 .. L |-> crawl.urls[i]]
<1>0. IsFiniteSet(checks) /\ (\A r, q \in checks : r.url = q.url => r = q)
      /\ \A r \in checks : \E i \in 1 .. L : r.url = crawl.urls[i]
  BY DEF InHand, Once
<1>1. Cardinality(V) = Cardinality(checks)
  <2>1. DOMAIN named = checks /\ \A r, q \in checks : named[r] = named[q] => r = q
    BY <1>0
  <2>2. IsFiniteSet(checks)
    BY <1>0
  <2> HIDE DEF named
  <2> QED
    BY <2>1, <2>2, CountedAlike
<1>2. L \in Nat /\ U = {crawl.urls[i] : i \in 1 .. L}
  BY DEF CrawlTypes, ToSet
<1>3. f \in Surjection(1 .. L, U)
  <2>1. f \in [1 .. L -> U] /\ \A u \in U : \E i \in 1 .. L : f[i] = u
    BY <1>2
  <2> HIDE DEF f, U, L
  <2> QED
    BY <2>1 DEF Surjection
<1>4. IsFiniteSet(1 .. L) /\ Cardinality(1 .. L) = L
  <2> HIDE DEF L, U
  <2>0. 1 \in Int /\ L \in Int
    BY <1>2
  <2>1. IsFiniteSet(1 .. L) /\ Cardinality(1 .. L) = IF 1 > L THEN 0 ELSE L - 1 + 1
    BY <2>0, FS_Interval
  <2> QED
    BY <1>2, <2>1
<1>5. IsFiniteSet(U) /\ Cardinality(U) <= L
  <2> HIDE DEF f, U, L
  <2> QED
    BY <1>3, <1>4, FS_Surjection
<1>6. V \subseteq U
  BY <1>0, <1>2
<1>7. Cardinality(V) <= Cardinality(U) /\ (Cardinality(U) = Cardinality(V) => U = V)
  <2> HIDE DEF U, V
  <2> QED
    BY <1>5, <1>6, FS_Subset
<1>8. Cardinality(U) \in Nat /\ Cardinality(V) = L
  BY <1>1, <1>5, FS_CardinalityType
<1>9. U = V
  <2> HIDE DEF U, V, L
  <2> QED
    BY <1>2, <1>5, <1>7, <1>8
<1> QED
  BY <1>9

LEMMA StoreAnswers == ASSUME AuditInv, AnswersInv, Audit!Store PROVE AnswersInv'
<1>1. pc = "store" /\ pc' = "return" /\ UNCHANGED <<site, crawl, checks>>
  BY DEF Audit!Store
<1>0. PICK e : audit' = [audit EXCEPT !.status = Audit!FinalStatus, !.error = e, !.complete = crawl.complete,
                                      !.graph = Audit!Stored]
  BY DEF Audit!Store
<1>2. AuditTypes /\ CrawlTypes /\ InHand /\ Cardinality(checks) = Len(crawl.urls)
  BY <1>1 DEF AuditInv
<1>3. audit' = [status |-> Audit!FinalStatus, error |-> e, found |-> audit.found, passed |-> audit.passed,
                failed |-> audit.failed, graph |-> Audit!Stored, complete |-> crawl.complete]
  BY <1>0, <1>2 DEF AuditTypes
<1>4. /\ audit'.status = Audit!FinalStatus /\ audit'.graph = Audit!Stored /\ audit'.complete = crawl.complete
  <2> HIDE DEF Audit!FinalStatus, Audit!Stored
  <2> QED
    BY <1>3
<1>5. {r.url : r \in checks} = ToSet(crawl.urls)
  BY <1>2, AllChecked
<1> DEFINE Node(r) == [url |-> r.url, depth |-> crawl.depth[r.url], count |-> r.count, end |-> r.end,
                       at |-> r.at, internal |-> r.internal, external |-> r.external,
                       listed |-> r.url \in Audit!ToSet(crawl.listed)]
           graph == audit'.graph
<1>6. /\ graph.checked = {Node(r) : r \in checks} /\ graph.links = crawl.links
      /\ graph.redirects = HopsOf(checks)
  BY <1>4, SameSet DEF Audit!Stored, Audit!Graph, Audit!Nowhere, Nowhere, HopsOf
<1>7. \A r : Node(r).url = r.url /\ Node(r).end = r.end /\ Node(r).at = r.at /\ Node(r).count = r.count
  OBVIOUS
<1> HIDE DEF Node
<1>8. Found' = {r.url : r \in checks}
  BY <1>6, <1>7 DEF Found
<1>9. \A node \in graph.checked : \E r \in checks :
        node.url = r.url /\ node.end = r.end /\ node.at = r.at /\ node.count = r.count
  BY <1>6, <1>7
<1>10. /\ (audit'.status = "failed") <=> (\A r \in checks : r.end \in Unverified)
       /\ (audit'.status = "completed") <=>
            (checks # {} /\ crawl.complete /\ \A r \in checks : r.end \notin Unverified)
       /\ audit'.status \in Audit!Terminal
  BY <1>4 DEF Audit!FinalStatus, Audit!Terminal, Audit!IsError, Audit!Unverified, Unverified
<1>11. LinksOf(Found)' = LinksOf(ToSet(crawl.urls)) /\ HopsOf(checks)' = HopsOf(checks)
  BY <1>1, <1>5, <1>8 DEF LinksOf, HopsOf, PageLinks
<1>12. Told'
  <2>1. IsFiniteSet(checks') /\ Once(checks') /\ \A r \in checks' : IsCheck(r)'
    <3>1. \A r \in checks : IsCheck(r) <=> IsCheck(r)'
      BY <1>1 DEF IsCheck, CheckOf
    <3> QED
      BY <1>1, <1>2, <3>1 DEF InHand
  <2>2. audit'.graph.links = LinksOf(Found)' /\ audit'.graph.redirects = HopsOf(checks)'
    BY <1>6, <1>11 DEF graph, AnswersInv
  <2> HIDE DEF graph
  <2> QED
    BY <1>1, <1>4, <1>8, <1>9, <1>10, <2>1, <2>2 DEF Told, graph
<1> QED
  BY <1>1, <1>10, <1>12, Answered, LinksStay DEF AnswersInv, AtRest

LEMMA AnswersBegin == ASSUME Audit!Init PROVE AnswersInv
<1>1. crawl = Audit!NoCrawl /\ audit = Audit!NewAudit /\ pc = "none"
  BY DEF Audit!Init
<1>2. crawl.urls = <<>> /\ crawl.links = {} /\ audit.status = "queued" /\ audit.error = "none"
  BY <1>1 DEF Audit!NoCrawl, Audit!NewAudit
<1>3. ToSet(<<>>) = {}
  BY DEF ToSet
<1> QED
  BY <1>1, <1>2, <1>3 DEF AnswersInv, LinksOf, Finished

LEMMA AnswersStepKeeps == ASSUME AuditInv, AnswersInv, [Audit!Next]_Audit!vars PROVE AnswersInv'
<1>1. CASE Audit!Idle
  BY <1>1, QuietAnswers DEF Audit!Idle
<1> QED
  BY <1>1, QuietAnswers, NewAnswers, FailedAnswers, DiscoverAnswers, DiscoveredAnswers, CheckAnswers, StoreAnswers
     DEF Audit!Next, Audit!Task

-----------------------------------------------------------------------------
(* Verdict and hops follow from what the checks found *)

\* A check ended as its walk does, or because a request failed.
LEMMA OutcomeOf ==
  ASSUME NEW r, IsCheck(r)
  PROVE  /\ r.count = Len(r.hops)
         /\ ~Interrupted(r) => /\ r.end = Walk(site, r.url).end /\ r.at = Walk(site, r.url).at
                               /\ r.hops = Walk(site, r.url).hops
         /\ Interrupted(r) => /\ r.end \in {"silent", "gone"}
                              /\ \E n \in 1 .. Asked(site, r.url) :
                                   r.hops = SubSeq(Walk(site, r.url).hops, 1, n - 1)
<1> DEFINE whole == Walk(site, r.url)
<1>1. PICK w \in Walks(site, r.url) : r = CheckOf(w)
  BY DEF IsCheck
<1>2. r.hops = w.hops /\ r.end = w.end /\ r.at = w.at /\ r.count = Len(w.hops)
  BY <1>1 DEF CheckOf
<1>3. Interrupted(r) <=> (r.end # whole.end \/ r.at # whole.at \/ r.hops # whole.hops)
  BY DEF Interrupted
<1>4. w = whole \/ \E n \in 1 .. Asked(site, r.url), end \in {"silent", "gone"} : w = BrokenOff(site, r.url, n, end)
  BY DEF Walks
<1> HIDE DEF whole
<1>5. ASSUME Interrupted(r)
      PROVE  /\ r.end \in {"silent", "gone"}
             /\ \E n \in 1 .. Asked(site, r.url) : r.hops = SubSeq(whole.hops, 1, n - 1)
  <2>1. PICK n \in 1 .. Asked(site, r.url), end \in {"silent", "gone"} : w = BrokenOff(site, r.url, n, end)
    BY <1>2, <1>3, <1>4, <1>5
  <2>2. w = [from |-> r.url, at |-> Place(site, r.url)[n], hops |-> SubSeq(whole.hops, 1, n - 1), end |-> end]
    BY <2>1, WalkIs DEF whole
  <2>3. w.hops = SubSeq(whole.hops, 1, n - 1) /\ w.end = end
    BY <2>2
  <2> QED
    BY <1>2, <2>3
<1> QED
  BY <1>2, <1>3, <1>5 DEF whole

\* The status and the verdict follow from the ends of the checks.
LEMMA VerdictFollows == AnswersInv => VerdictIsTrue
<1> SUFFICES ASSUME AnswersInv, Finished
             PROVE  \E answered \in {Led({"page", "gone"}) \cup ServerErrors},
                       good     \in {Led({"page"})},
                       overall  \in {Overall(Shown(audit), audit.complete)} :
                      /\ Found = {r.url : r \in checks}
                      /\ (audit.status = "failed") <=> (answered = {})
                      /\ (audit.status = "completed") <=> (answered = Found /\ Found # {} /\ audit.complete)
                      /\ (overall = "fail") <=> (good # Found)
                      /\ overall = "pass" => good = Found /\ Found # {} /\ audit.complete
  BY DEF VerdictIsTrue
<1> DEFINE answered == Led({"page", "gone"}) \cup ServerErrors
           good     == Led({"page"})
           shown    == Shown(audit)
           overall  == Overall(shown, audit.complete)
<1>1. Told
  BY DEF AnswersInv
<1>2. Found = {r.url : r \in checks}
  BY <1>1 DEF Told
<1>3. \A u : /\ Walk(site, u).end \in {"page", "gone"} <=> LeadsTo(u, {"page", "gone"})
             /\ Walk(site, u).end = "page" <=> LeadsTo(u, {"page"})
  <2>1. \A u : Walk(site, u).end \in {"page"} <=> LeadsTo(u, {"page"})
    BY WalkLeads
  <2>2. \A u : Walk(site, u).end \in {"page", "gone"} <=> LeadsTo(u, {"page", "gone"})
    BY WalkLeads
  <2> QED
    BY <2>1, <2>2
<1>4. \A u : Walk(site, u).end \in {"page", "gone"} \cup Unverified
  BY EndOfWalk DEF Unverified, Nowhere
<1>5. ASSUME NEW r \in checks
      PROVE  /\ (r.end \notin Unverified) <=> (r.url \in answered)
             /\ (r.end = "page") <=> (r.url \in good)
             /\ r.end \in End
  <2>1. \A q \in checks : q.url = r.url => q = r
    BY <1>1 DEF Told, Once
  <2>2. \A A : (r.url \in Led(A)) <=> (~Interrupted(r) /\ LeadsTo(r.url, A))
    BY <2>1 DEF Led
  <2>3. (r.url \in ServerErrors) <=> (Interrupted(r) /\ r.end = "gone")
    BY <2>1 DEF ServerErrors
  <2>4. IsCheck(r)
    BY <1>1 DEF Told
  <2>5. (~Interrupted(r) => r.end = Walk(site, r.url).end) /\ (Interrupted(r) => r.end \in {"silent", "gone"})
    BY <2>4, OutcomeOf
  <2>6. (r.url \in answered) <=> (r.url \in Led({"page", "gone"}) \/ r.url \in ServerErrors)
    OBVIOUS
  <2> HIDE DEF answered, good
  <2>7. CASE Interrupted(r)
    BY <2>2, <2>3, <2>5, <2>6, <2>7 DEF Unverified, End, good
  <2>8. CASE ~Interrupted(r)
    <3>1. r.end = "page" <=> LeadsTo(r.url, {"page"})
      BY <1>3, <2>5, <2>8
    <3>2. r.end \in {"page", "gone"} <=> LeadsTo(r.url, {"page", "gone"})
      BY <1>3, <2>5, <2>8
    <3>3. r.end \in {"page", "gone"} \cup Unverified
      BY <1>4, <2>5, <2>8
    <3> QED
      BY <2>2, <2>3, <2>6, <2>8, <3>1, <3>2, <3>3 DEF Unverified, End, good
  <2> QED
    BY <2>7, <2>8
<1>6. answered \subseteq Found /\ good \subseteq Found
  BY <1>2 DEF Led, ServerErrors
<1> HIDE DEF answered, good
<1>7. /\ (audit.status = "failed") <=> (answered = {})
      /\ (audit.status = "completed") <=> (answered = Found /\ Found # {} /\ audit.complete)
  <2>1. /\ (audit.status = "failed") <=> (\A r \in checks : r.end \in Unverified)
        /\ (audit.status = "completed") <=> (checks # {} /\ audit.complete /\ \A r \in checks : r.end \notin Unverified)
    BY <1>1 DEF Told
  <2>2. (\A r \in checks : r.end \in Unverified) <=> answered = {}
    BY <1>2, <1>5, <1>6
  <2>3. (\A r \in checks : r.end \notin Unverified) <=> answered = Found
    BY <1>2, <1>5, <1>6
  <2>4. checks # {} <=> Found # {}
    BY <1>2
  <2> QED
    BY <2>1, <2>2, <2>3, <2>4
<1>8. /\ \A x \in shown : \E r \in checks : x.end = r.end /\ x.url = r.url
      /\ \A r \in checks : \E x \in shown : x.end = r.end /\ x.url = r.url
  <2> DEFINE nodes == audit.graph.checked
  <2>1. \A node : Rebuilt(audit.graph, node).end = node.end /\ Rebuilt(audit.graph, node).url = node.url
    BY DEF Rebuilt
  <2>2. shown = {Rebuilt(audit.graph, node) : node \in nodes}
    BY DEF Shown
  <2>3. \A node \in nodes : \E r \in checks : node.end = r.end /\ node.url = r.url
    BY <1>1 DEF Told
  <2>4. \A r \in checks : \E node \in nodes : node.end = r.end /\ node.url = r.url
    <3>1. \A r, q \in checks : r.url = q.url => r = q
      BY <1>1 DEF Told, Once
    <3>2. \A r \in checks : \E node \in nodes : node.url = r.url
      BY <1>2 DEF Found
    <3> QED
      BY <2>3, <3>1, <3>2
  <2> HIDE DEF nodes, shown
  <2> QED
    BY <2>1, <2>2, <2>3, <2>4
<1>9. (\E f \in Findings(shown) : Fails(f)) <=> \E x \in shown : x.end # "page"
  <2>1. \A x \in shown : x.end \in End
    BY <1>5, <1>8
  <2>2. \A x \in shown : (\E c \in FindingsOf(x) : c # "long_redirect_chain") <=> x.end # "page"
    BY <2>1 DEF FindingsOf, End
  <2> HIDE DEF shown
  <2>3. Findings(shown) = UNION {{[code |-> c, url |-> r.url] : c \in FindingsOf(r)} : r \in shown}
    BY DEF Findings
  <2>4. ASSUME NEW f \in Findings(shown), Fails(f) PROVE \E r \in shown : r.end # "page"
    <3>1. PICK r \in shown : \E c \in FindingsOf(r) : f = [code |-> c, url |-> r.url]
      BY <2>3
    <3>2. \E c \in FindingsOf(r) : c # "long_redirect_chain"
      BY <2>4, <3>1 DEF Fails
    <3> QED
      BY <2>2, <3>2
  <2>5. ASSUME NEW r \in shown, r.end # "page" PROVE \E f \in Findings(shown) : Fails(f)
    <3>1. PICK c \in FindingsOf(r) : c # "long_redirect_chain"
      BY <2>2, <2>5
    <3> DEFINE f == [code |-> c, url |-> r.url]
    <3>2. f \in Findings(shown) /\ Fails(f)
      BY <2>3, <3>1 DEF Fails
    <3> QED
      BY <3>2
  <2> QED
    BY <2>4, <2>5
<1> HIDE DEF shown
<1>10. (\E x \in shown : x.end # "page") <=> good # Found
  BY <1>2, <1>5, <1>6, <1>8
<1>11. (shown = {}) <=> (Found = {})
  <2>1. (shown = {}) <=> (checks = {})
    <3>1. ASSUME shown = {} PROVE checks = {}
      BY <1>8, <3>1
    <3>2. ASSUME checks = {} PROVE shown = {}
      BY <1>8, <3>2
    <3> QED
      BY <3>1, <3>2
  <2> QED
    BY <1>2, <2>1
<1>12. /\ (overall = "fail") <=> (good # Found)
       /\ overall = "pass" => good = Found /\ Found # {} /\ audit.complete
  <2>1. overall = CASE shown = {} \/ (~audit.complete /\ Findings(shown) = {}) -> "unverified"
                    [] \E f \in Findings(shown) : Fails(f) -> "fail"
                    [] OTHER -> IF Findings(shown) # {} THEN "warning" ELSE "pass"
    BY DEF Overall
  <2>2. shown = {} => good = Found /\ ~\E f \in Findings(shown) : Fails(f)
    BY <1>6, <1>9, <1>11
  <2>3. Findings(shown) = {} => ~\E f \in Findings(shown) : Fails(f)
    OBVIOUS
  <2> HIDE DEF overall
  <2> QED
    BY <1>9, <1>10, <1>11, <2>1, <2>2, <2>3
<1> QED
  BY <1>2, <1>7, <1>12 DEF answered, good, overall, shown

\* The edges of some checks are answers of the site.
LEMMA ChecksAreTrue ==
  ASSUME IsFiniteSet(checks), \A r \in checks : IsCheck(r), NEW g, g.redirects = HopsOf(checks)
  PROVE  Truthful(site, g)
<1> DEFINE Taken(u) == ToSet(Walk(site, u).hops)
           taken == [r \in checks |-> Taken(r.url)]
           S == {Taken(r.url) : r \in checks}
<1>1. ASSUME NEW r \in checks PROVE ToSet(r.hops) \subseteq Taken(r.url)
  <2>1. CASE ~Interrupted(r)
    BY <2>1, OutcomeOf
  <2>2. CASE Interrupted(r)
    <3>1. PICK n \in 1 .. Asked(site, r.url) : r.hops = SubSeq(Walk(site, r.url).hops, 1, n - 1)
      BY <2>2, OutcomeOf
    <3>2. r.hops \in Seq(Taken(r.url))
      BY <3>1, CutIs
    <3> HIDE DEF Taken
    <3> QED
      BY <3>2 DEF ToSet
  <2> QED
    BY <2>1, <2>2
<1>2. \A h \in g.redirects : (\E r \in checks : h \in Taken(r.url)) /\ h.to # Nowhere
  <2> HIDE DEF Taken
  <2> QED
    BY <1>1 DEF HopsOf
<1>3. \A T \in S : IsFiniteSet(T)
  <2> SUFFICES ASSUME NEW u PROVE IsFiniteSet(Taken(u))
    OBVIOUS
  <2> DEFINE L == HopsTaken(site, u)
             w == Walk(site, u).hops
  <2>1. w = [n \in 1 .. L |-> w[n]] /\ DOMAIN w = 1 .. L
    <3>1. w = [n \in 1 .. L |-> [at |-> Place(site, u)[n], to |-> site.answer[Place(site, u)[n]]]]
      BY HopsOfWalk
    <3> HIDE DEF L, w
    <3> QED
      BY <3>1
  <2>2. IsFiniteSet(1 .. L)
    <3>1. MaxHops \in Nat /\ StopOf(site, u) \in 1 .. MaxHops + 1 /\ L \in {StopOf(site, u) - 1, StopOf(site, u)}
      BY ChainAssumption, WalkStops DEF HopsTaken
    <3> HIDE DEF L
    <3>2. 1 \in Int /\ L \in Int
      BY <3>1
    <3>3. \A a, b \in Int : IsFiniteSet(a .. b)
      BY FS_Interval
    <3> QED
      BY <3>2, <3>3
  <2> HIDE DEF L, w
  <2>3. w \in Surjection(1 .. L, ToSet(w))
    BY <2>1 DEF Surjection, ToSet
  <2>4. IsFiniteSet(ToSet(w))
    BY <2>2, <2>3, FS_Surjection
  <2> QED
    BY <2>4 DEF w
<1>4. taken \in Surjection(checks, S)
  <2>1. taken \in [checks -> S] /\ \A T \in S : \E r \in checks : taken[r] = T
    OBVIOUS
  <2> HIDE DEF taken, S
  <2> QED
    BY <2>1 DEF Surjection
<1>5. g.redirects \subseteq UNION S
  <2> HIDE DEF Taken
  <2> QED
    BY <1>2
<1> HIDE DEF taken, S
<1>6. IsFiniteSet(S)
  BY <1>4, FS_Surjection
<1>7. IsFiniteSet(UNION S)
  BY <1>3, <1>6, FS_UNION
<1>8. IsFiniteSet(g.redirects)
  BY <1>5, <1>7, FS_Subset
<1>9. \A h \in g.redirects : h = [at |-> h.at, to |-> site.answer[h.at]] /\ h.to \notin {"page", "gone", "silent", Nowhere}
  BY <1>2, HopsAreAnswers
<1> QED
  BY <1>8, <1>9 DEF Truthful

\* The stored edges hold what the checks took, and none goes elsewhere than the site.
LEMMA RebuiltFollows == AnswersInv => RebuiltAsWalked
<1> SUFFICES ASSUME AnswersInv, Finished, NEW node \in audit.graph.checked
             PROVE  LET shown == Rebuilt(audit.graph, node)
                    IN  \E check \in checks :
                          /\ shown.url = check.url /\ shown.end = check.end /\ shown.at = check.at
                          /\ shown.count = Len(check.hops) /\ IsPrefix(check.hops, shown.hops)
                          /\ shown.end # "limit" /\ ~Interrupted(check) => shown.hops = check.hops
                          /\ \A h \in ToSet(shown.hops) : site.answer[h.at] = h.to
                          /\ shown.sources = {u \in Found : shown.url \in ToSet(PageLinks(u))}
  BY DEF RebuiltAsWalked, Shown
<1> DEFINE g == audit.graph
           shown == Rebuilt(g, node)
           u == node.url
<1>1. Told
  BY DEF AnswersInv
<1>2. PICK r \in checks : u = r.url /\ node.end = r.end /\ node.at = r.at /\ node.count = r.count
  BY <1>1 DEF Told
<1>3. IsCheck(r)
  BY <1>1 DEF Told
<1>4. shown.url = u /\ shown.end = node.end /\ shown.at = node.at /\ shown.count = node.count
      /\ shown.hops = RebuiltHops(g, node)
      /\ shown.sources = {l.from : l \in {k \in g.links : k.to = u}}
  BY DEF Rebuilt
<1>5. Truthful(site, g) /\ \A h \in ToSet(r.hops) : h.to # Nowhere => h \in g.redirects
  <2>1. g.redirects = HopsOf(checks)
    BY <1>1 DEF Told
  <2>2. Truthful(site, g)
    BY <1>1, <2>1, ChecksAreTrue DEF Told
  <2> HIDE DEF g
  <2> QED
    BY <1>2, <2>1, <2>2 DEF HopsOf
<1>6. /\ IsPrefix(r.hops, RebuiltHops(g, node))
      /\ node.end # "limit" /\ ~Interrupted(r) => RebuiltHops(g, node) = r.hops
      /\ \A h \in ToSet(RebuiltHops(g, node)) : site.answer[h.at] = h.to
  <2> HIDE DEF g
  <2>1. CASE ~Interrupted(r)
    <3>1. r.hops = Walk(site, u).hops /\ node.end = Walk(site, u).end /\ node.count = Len(Walk(site, u).hops)
      BY <1>2, <1>3, <2>1, OutcomeOf
    <3>2. Holds(site, g, u)
      BY <1>5, <3>1 DEF Holds
    <3> QED
      BY <1>5, <3>1, <3>2, HopsAreRebuilt
  <2>2. CASE Interrupted(r)
    <3>1. node.end # "malformed"
      BY <1>2, <1>3, <2>2, OutcomeOf
    <3>2. PICK n \in 1 .. Asked(site, u) : r.hops = SubSeq(Walk(site, u).hops, 1, n - 1)
      BY <1>2, <1>3, <2>2, OutcomeOf
    <3> QED
      BY <1>5, <2>2, <3>1, <3>2, HopsOfCut
  <2> QED
    BY <2>1, <2>2
<1>7. {l.from : l \in {k \in g.links : k.to = u}} = {v \in Found : u \in ToSet(PageLinks(v))}
  <2>1. g.links = UNION {{[from |-> v, to |-> x] : x \in ToSet(PageLinks(v))} : v \in Found}
    BY <1>1 DEF Told, LinksOf
  <2> HIDE DEF g
  <2>2. \A l \in g.links : \E v \in Found : \E x \in ToSet(PageLinks(v)) : l = [from |-> v, to |-> x]
    BY <2>1
  <2>3. \A v \in Found : \A x \in ToSet(PageLinks(v)) : [from |-> v, to |-> x] \in g.links
    BY <2>1
  <2>4. ASSUME NEW l \in g.links, l.to = u
        PROVE  l.from \in {v \in Found : u \in ToSet(PageLinks(v))}
    BY <2>2, <2>4
  <2>5. ASSUME NEW v \in Found, u \in ToSet(PageLinks(v))
        PROVE  v \in {l.from : l \in {k \in g.links : k.to = u}}
    <3> DEFINE l == [from |-> v, to |-> u]
    <3>1. l \in g.links /\ l.to = u /\ l.from = v
      BY <2>3, <2>5
    <3> QED
      BY <3>1
  <2> QED
    BY <2>4, <2>5
<1>8. node.count = Len(r.hops)
  BY <1>2, <1>3, OutcomeOf
<1> HIDE DEF shown, g
<1> QED
  BY <1>2, <1>4, <1>6, <1>7, <1>8 DEF shown, g

-----------------------------------------------------------------------------
(* What Picked picks *)

\* The first m members of a sequence have been looked at.
Picks(p, seq, m, S, n) ==
  /\ Len(p) <= n /\ Len(p) <= m
  /\ \A i \in 1 .. Len(p) : p[i] \in S /\ \E k \in 1 .. m : p[i] = seq[k]
  /\ \A i, j \in 1 .. Len(p) : i < j => p[i] # p[j] /\ \E k, l \in 1 .. m : k < l /\ p[i] = seq[k] /\ p[j] = seq[l]
  /\ Len(p) < n \/ m <= n => \A k \in 1 .. m : seq[k] \in S => \E i \in 1 .. Len(p) : p[i] = seq[k]

LEMMA PicksNone == ASSUME NEW seq, NEW S, NEW n \in Nat PROVE Picks(<<>>, seq, 0, S, n)
BY DEF Picks

LEMMA PicksNot ==
  ASSUME NEW X, NEW p \in Seq(X), NEW seq, NEW S, NEW n \in Nat, NEW m \in Nat, Picks(p, seq, m, S, n),
         seq[m + 1] \notin S \/ (\E i \in 1 .. Len(p) : p[i] = seq[m + 1]) \/ ~(Len(p) < n)
  PROVE  Picks(p, seq, m + 1, S, n)
<1>1. /\ Len(p) \in Nat /\ 1 .. m \subseteq 1 .. m + 1 /\ \A k \in 1 .. m + 1 : k \in 1 .. m \/ k = m + 1
      /\ m <= m + 1
  OBVIOUS
<1>2. ASSUME Len(p) < n \/ m + 1 <= n, NEW k \in 1 .. m + 1, seq[k] \in S
      PROVE  \E i \in 1 .. Len(p) : p[i] = seq[k]
  <2>1. Len(p) < n
    BY <1>1, <1>2 DEF Picks
  <2> QED
    BY <1>1, <1>2, <2>1 DEF Picks
<1>3. Len(p) <= n /\ Len(p) <= m + 1
  BY <1>1 DEF Picks
<1>4. \A i \in 1 .. Len(p) : p[i] \in S /\ \E k \in 1 .. m + 1 : p[i] = seq[k]
  BY <1>1 DEF Picks
<1>5. ASSUME NEW i \in 1 .. Len(p), NEW j \in 1 .. Len(p), i < j
      PROVE  p[i] # p[j] /\ \E k, l \in 1 .. m + 1 : k < l /\ p[i] = seq[k] /\ p[j] = seq[l]
  <2>1. p[i] # p[j] /\ \E k, l \in 1 .. m : k < l /\ p[i] = seq[k] /\ p[j] = seq[l]
    BY <1>5 DEF Picks
  <2> QED
    BY <1>1, <2>1
<1> QED
  BY <1>2, <1>3, <1>4, <1>5 DEF Picks

LEMMA PicksOne ==
  ASSUME NEW X, NEW p \in Seq(X), NEW seq, NEW S, NEW n \in Nat, NEW m \in Nat, Picks(p, seq, m, S, n),
         seq[m + 1] \in S, seq[m + 1] \in X, ~\E i \in 1 .. Len(p) : p[i] = seq[m + 1], Len(p) < n
  PROVE  Picks(Append(p, seq[m + 1]), seq, m + 1, S, n)
<1> DEFINE q == Append(p, seq[m + 1])
           L == Len(p)
<1>1. /\ Len(q) = L + 1 /\ L \in Nat /\ q[L + 1] = seq[m + 1] /\ \A i \in 1 .. L : q[i] = p[i]
  OBVIOUS
<1>2. /\ 1 .. m \subseteq 1 .. m + 1 /\ m + 1 \in 1 .. m + 1 /\ \A k \in 1 .. m : k < m + 1
      /\ \A k \in 1 .. m + 1 : k \in 1 .. m \/ k = m + 1
      /\ \A i \in 1 .. L + 1 : i \in 1 .. L \/ i = L + 1
      /\ \A i, j \in 1 .. L + 1 : i < j => i \in 1 .. L
      /\ 1 .. L \subseteq 1 .. L + 1 /\ L + 1 \in 1 .. L + 1
  BY <1>1
<1> HIDE DEF q
<1>3. Len(q) <= n /\ Len(q) <= m + 1
  BY <1>1 DEF Picks
<1>4. ASSUME NEW i \in 1 .. Len(q) PROVE q[i] \in S /\ \E k \in 1 .. m + 1 : q[i] = seq[k]
  <2>1. CASE i \in 1 .. L
    <3>1. p[i] \in S /\ \E k \in 1 .. m : p[i] = seq[k]
      BY <2>1 DEF Picks
    <3> QED
      BY <1>1, <1>2, <2>1, <3>1
  <2>2. CASE i = L + 1
    BY <1>1, <1>2, <2>2
  <2> QED
    BY <1>1, <1>2, <2>1, <2>2
<1>5. ASSUME NEW i \in 1 .. Len(q), NEW j \in 1 .. Len(q), i < j
      PROVE  q[i] # q[j] /\ \E k, l \in 1 .. m + 1 : k < l /\ q[i] = seq[k] /\ q[j] = seq[l]
  <2>1. i \in 1 .. L /\ q[i] = p[i]
    BY <1>1, <1>2, <1>5
  <2>2. CASE j \in 1 .. L
    <3>1. q[j] = p[j] /\ p[i] # p[j] /\ \E k, l \in 1 .. m : k < l /\ p[i] = seq[k] /\ p[j] = seq[l]
      BY <1>1, <1>5, <2>1, <2>2 DEF Picks
    <3> QED
      BY <1>2, <2>1, <3>1
  <2>3. CASE j = L + 1
    <3>1. q[j] = seq[m + 1] /\ p[i] # seq[m + 1] /\ \E k \in 1 .. m : p[i] = seq[k]
      BY <1>1, <2>1, <2>3 DEF Picks
    <3> QED
      BY <1>2, <2>1, <3>1
  <2> QED
    BY <1>1, <1>2, <2>2, <2>3
<1>6. ASSUME NEW k \in 1 .. m + 1, seq[k] \in S PROVE \E i \in 1 .. Len(q) : q[i] = seq[k]
  <2>1. CASE k = m + 1
    BY <1>1, <1>2, <2>1
  <2>2. CASE k \in 1 .. m
    <3>1. \E i \in 1 .. L : p[i] = seq[k]
      BY <1>6, <2>2 DEF Picks
    <3> QED
      BY <1>1, <1>2, <3>1
  <2> QED
    BY <1>2, <2>1, <2>2
<1> QED
  BY <1>3, <1>4, <1>5, <1>6 DEF Picks, q

\* The recursion of Picked, one member after the other.
PickedBy(g, seq, S, n) ==
  /\ Picked(seq, S, n) = g[Len(seq)] /\ g[0] = <<>>
  /\ \A i \in 0 .. Len(seq) - 1 :
       g[i + 1] = IF seq[i + 1] \in S \ ToSet(g[i]) /\ Len(g[i]) < n
                  THEN Append(g[i], seq[i + 1]) ELSE g[i]

LEMMA PickedSteps ==
  ASSUME NEW seq, NEW S, NEW n, Len(seq) \in Nat
  PROVE  \E g : PickedBy(g, seq, S, n)
<1> DEFINE Picking(g, i) == IF seq[i] \in S \ ToSet(g[i - 1]) /\ Len(g[i - 1]) < n
                            THEN Append(g[i - 1], seq[i]) ELSE g[i - 1]
           Built(g, i) == IF i = 0 THEN <<>> ELSE Picking(g, i)
           Is(g, m) == g = [i \in 0 .. m |-> Built(g, i)]
           M == {m \in Nat : \E g : Is(g, m)}
           f == CHOOSE g : Is(g, Len(seq))
<1>1. 0 \in M
  <2> DEFINE g == [i \in 0 .. 0 |-> <<>>]
  <2>1. Is(g, 0)
    OBVIOUS
  <2> HIDE DEF g, Is
  <2> QED
    BY <2>1
<1>2. ASSUME NEW m \in Nat, m \in M PROVE m + 1 \in M
  <2>1. PICK g : Is(g, m)
    BY <1>2
  <2> DEFINE h == [i \in 0 .. m + 1 |-> IF i <= m THEN g[i] ELSE Built(g, i)]
  <2>2. \A i \in 0 .. m : g[i] = Built(g, i)
    BY <2>1
  <2>3. ASSUME NEW i \in 0 .. m + 1 PROVE Built(h, i) = Built(g, i)
    <3>1. CASE i = 0
      BY <3>1
    <3>2. CASE i # 0
      <4>1. h[i - 1] = g[i - 1]
        BY <3>2
      <4> HIDE DEF h
      <4> QED
        BY <4>1, <3>2
    <3> QED
      BY <3>1, <3>2
  <2>4. \A i \in 0 .. m + 1 : h[i] = Built(g, i)
    <3> HIDE DEF Built
    <3> QED
      BY <2>2
  <2>5. h = [i \in 0 .. m + 1 |-> h[i]]
    OBVIOUS
  <2>6. Is(h, m + 1)
    <3> HIDE DEF h, Built
    <3> QED
      BY <2>3, <2>4, <2>5
  <2> HIDE DEF h, Is
  <2> QED
    BY <2>6
<1>3. \E g : Is(g, Len(seq))
  <2> HIDE DEF M, Is
  <2>1. Nat \subseteq M
    BY <1>1, <1>2, NatSteps
  <2> QED
    BY <2>1 DEF M
<1>4. Is(f, Len(seq))
  <2> HIDE DEF Is
  <2> QED
    BY <1>3, Zenon
<1>5. Picked(seq, S, n) = f[Len(seq)]
  BY DEF Picked
<1> HIDE DEF f
<1>6. \A i \in 0 .. Len(seq) : f[i] = Built(f, i)
  <2> HIDE DEF Built
  <2> QED
    BY <1>4
<1> HIDE DEF Is
<1>7. f[0] = <<>>
  BY <1>6
<1>8. ASSUME NEW i \in 0 .. Len(seq) - 1 PROVE f[i + 1] = Picking(f, i + 1) /\ i + 1 - 1 = i
  <2>1. i + 1 \in 0 .. Len(seq) /\ i + 1 # 0 /\ i + 1 - 1 = i
    OBVIOUS
  <2> HIDE DEF Picking
  <2> QED
    BY <1>6, <2>1
<1>9. \A i \in 0 .. Len(seq) - 1 :
         f[i + 1] = IF seq[i + 1] \in S \ ToSet(f[i]) /\ Len(f[i]) < n THEN Append(f[i], seq[i + 1]) ELSE f[i]
  BY <1>8
<1> HIDE DEF Built, Picking
<1> WITNESS f
<1> QED
  BY <1>5, <1>7, <1>9 DEF PickedBy

\* Those that are picked are in the set, in the order of the sequence, and none twice; and
\* none is missing, unless there was no room for more.
LEMMA PickedWell ==
  ASSUME NEW X, NEW seq \in Seq(X), NEW S, NEW n \in Nat
  PROVE  Picked(seq, S, n) \in Seq(X) /\ Picks(Picked(seq, S, n), seq, Len(seq), S, n)
<1>1. Len(seq) \in Nat /\ DOMAIN seq = 1 .. Len(seq) /\ \A i \in 1 .. Len(seq) : seq[i] \in X
  OBVIOUS
<1>2. PICK g : PickedBy(g, seq, S, n)
  BY <1>1, PickedSteps
<1> DEFINE G == {i \in 0 .. Len(seq) : g[i] \in Seq(X) /\ Picks(g[i], seq, i, S, n)}
<1>3. 0 \in G
  <2>1. 0 \in 0 .. Len(seq) /\ <<>> \in Seq(X) /\ g[0] = <<>>
    BY <1>1, <1>2 DEF PickedBy
  <2> QED
    BY <2>1, PicksNone
<1>4. ASSUME NEW i \in 0 .. Len(seq) - 1, i \in G PROVE i + 1 \in G
  <2> DEFINE p == g[i]
  <2>1. /\ p \in Seq(X) /\ Picks(p, seq, i, S, n) /\ i \in Nat
        /\ i + 1 \in 0 .. Len(seq) /\ i + 1 \in 1 .. Len(seq) /\ seq[i + 1] \in X
        /\ g[i + 1] = IF seq[i + 1] \in S \ ToSet(p) /\ Len(p) < n THEN Append(p, seq[i + 1]) ELSE p
    BY <1>1, <1>2, <1>4 DEF PickedBy
  <2> HIDE DEF p
  <2>2. \A x : x \in ToSet(p) <=> \E k \in 1 .. Len(p) : p[k] = x
    BY <2>1 DEF ToSet
  <2>3. CASE seq[i + 1] \in S \ ToSet(p) /\ Len(p) < n
    <3>1. Append(p, seq[i + 1]) \in Seq(X)
      BY <2>1
    <3>2. Picks(Append(p, seq[i + 1]), seq, i + 1, S, n)
      BY <2>1, <2>2, <2>3, PicksOne
    <3> QED
      BY <2>1, <2>3, <3>1, <3>2
  <2>4. CASE ~(seq[i + 1] \in S \ ToSet(p) /\ Len(p) < n)
    <3>1. Picks(p, seq, i + 1, S, n)
      BY <2>1, <2>2, <2>4, PicksNot
    <3> QED
      BY <2>1, <2>4, <3>1
  <2> QED
    BY <2>3, <2>4
<1>5. Len(seq) \in G
  <2>1. 0 .. Len(seq) \subseteq G
    <3> HIDE DEF G
    <3> QED
      BY <1>1, <1>3, <1>4, StepsBetween
  <2> QED
    BY <1>1, <2>1
<1> QED
  BY <1>2, <1>5 DEF PickedBy

-----------------------------------------------------------------------------
(* The URLs that are queued *)

LEMMA ListedOnce ==
  ASSUME NEW X, NEW f \in Seq(X), \A i, j \in 1 .. Len(f) : i < j => f[i] # f[j]
  PROVE  IsFiniteSet(ToSet(f)) /\ Cardinality(ToSet(f)) = Len(f)
<1> DEFINE L == Len(f)
           T == ToSet(f)
<1>1. /\ L \in Nat /\ T = {f[i] : i \in 1 .. L} /\ f \in [1 .. L -> X]
      /\ \A i, j \in 1 .. L : f[i] = f[j] => i = j
  BY DEF ToSet
<1>2. f \in [1 .. L -> T] /\ \A t \in T : \E i \in 1 .. L : f[i] = t
  <2> HIDE DEF L
  <2> QED
    BY <1>1
<1> HIDE DEF T, L
<1>3. f \in Bijection(1 .. L, T)
  BY <1>1, <1>2 DEF Bijection, Injection, Surjection, IsInjective
<1>4. IsFiniteSet(1 .. L) /\ Cardinality(1 .. L) = L
  <2>1. 1 \in Int /\ L \in Int
    BY <1>1
  <2>2. IsFiniteSet(1 .. L) /\ Cardinality(1 .. L) = IF 1 > L THEN 0 ELSE L - 1 + 1
    BY <2>1, FS_Interval
  <2> QED
    BY <1>1, <2>2
<1>5. IsFiniteSet(T) /\ Cardinality(T) = L
  BY <1>3, <1>4, FS_Bijection DEF ExistsBijection
<1> QED
  BY <1>5 DEF T, L

\* Of the URLs of a list those are queued that are new, each once, until max_urls are queued.
FreshOf(f, urls, queued) ==
  /\ f \in Seq(Url) /\ \A i \in 1 .. Len(f) : f[i] \notin queued /\ \E k \in 1 .. Len(urls) : f[i] = urls[k]
  /\ \A i, j \in 1 .. Len(f) : i < j => f[i] # f[j]
  /\ IsFiniteSet(queued \cup ToSet(f)) /\ Cardinality(queued \cup ToSet(f)) <= MaxUrls
  /\ Cardinality(queued \cup ToSet(f)) < MaxUrls =>
       Cardinality(queued) < MaxUrls /\ ToSet(urls) \subseteq queued \cup ToSet(f)
  /\ Len(f) > 0 => Cardinality(queued) < MaxUrls

LEMMA FreshOnes ==
  ASSUME NEW urls \in Seq(Url), NEW queued, IsFiniteSet(queued), Cardinality(queued) <= MaxUrls
  PROVE  FreshOf(Fresh(urls, queued), urls, queued)
<1> DEFINE f == Fresh(urls, queued)
           room == MaxUrls - Cardinality(queued)
<1>1. room \in Nat /\ Cardinality(queued) \in Nat /\ MaxUrls \in Nat
  BY FS_CardinalityType, DiscoveryAssumption
<1>2. f \in Seq(Url) /\ Picks(f, urls, Len(urls), Url \ queued, room)
  BY <1>1, PickedWell DEF Fresh
<1> HIDE DEF f
<1>3. /\ Len(f) \in Nat /\ Len(urls) \in Nat /\ ToSet(f) = {f[i] : i \in 1 .. Len(f)}
      /\ ToSet(urls) = {urls[k] : k \in 1 .. Len(urls)} /\ \A k \in 1 .. Len(urls) : urls[k] \in Url
  BY <1>2 DEF ToSet
<1>4. /\ Len(f) <= room
      /\ \A i \in 1 .. Len(f) : f[i] \notin queued /\ \E k \in 1 .. Len(urls) : f[i] = urls[k]
      /\ \A i, j \in 1 .. Len(f) : i < j => f[i] # f[j]
      /\ Len(f) < room => \A k \in 1 .. Len(urls) : urls[k] \in Url \ queued => \E i \in 1 .. Len(f) : f[i] = urls[k]
  BY <1>2 DEF Picks
<1>5. IsFiniteSet(ToSet(f)) /\ Cardinality(ToSet(f)) = Len(f)
  BY <1>2, <1>4, ListedOnce
<1>6. IsFiniteSet(queued \cup ToSet(f)) /\ Cardinality(queued \cup ToSet(f)) = Cardinality(queued) + Len(f)
  <2>1. queued \cap ToSet(f) = {}
    BY <1>3, <1>4
  <2>2. Cardinality(queued \cap ToSet(f)) = 0
    BY <2>1, FS_EmptySet
  <2>3. /\ IsFiniteSet(queued \cup ToSet(f))
        /\ Cardinality(queued \cup ToSet(f)) = Cardinality(queued) + Cardinality(ToSet(f)) - Cardinality(queued \cap ToSet(f))
    BY <1>5, FS_Union
  <2>4. Len(f) \in Nat /\ Cardinality(queued) \in Nat
    BY <1>1, <1>3
  <2> QED
    BY <1>5, <2>2, <2>3, <2>4
<1>7. ASSUME Cardinality(queued \cup ToSet(f)) < MaxUrls
      PROVE  Cardinality(queued) < MaxUrls /\ ToSet(urls) \subseteq queued \cup ToSet(f)
  <2>1. Len(f) < room /\ Cardinality(queued) < MaxUrls
    BY <1>1, <1>3, <1>6, <1>7
  <2> QED
    BY <1>3, <1>4, <2>1
<1>8. Cardinality(queued \cup ToSet(f)) <= MaxUrls /\ (Len(f) > 0 => Cardinality(queued) < MaxUrls)
  BY <1>1, <1>3, <1>4, <1>6
<1> QED
  BY <1>2, <1>4, <1>6, <1>7, <1>8 DEF f, FreshOf

\* The record of a crawl.
Shape(c) ==
  /\ c = [urls |-> c.urls, depth |-> c.depth, queue |-> c.queue, queued |-> c.queued, links |-> c.links,
          listed |-> c.listed, complete |-> c.complete]
  /\ c.urls \in Seq(Url) /\ c.depth \in [Url -> 0 .. MaxCrawlDepth]
  /\ c.queue \in Seq([url : Url, depth : 0 .. MaxCrawlDepth])
  /\ c.queued \subseteq Url /\ IsFiniteSet(c.queued) /\ Cardinality(c.queued) <= MaxUrls

-----------------------------------------------------------------------------
(* Distances *)

WithinStep(W) == W \cup ToSet(Listed) \cup UNION {ToSet(PageLinks(u)) : u \in W \ site.disallowed}

\* The recursion of Within.
LEMMA WithinSteps ==
  /\ Within[0] = {site.home}
  /\ \A n \in 0 .. MaxCrawlDepth - 1 : Within[n + 1] = WithinStep(Within[n])
<1> DEFINE Built(g, i) == IF i = 0 THEN {site.home} ELSE WithinStep(g[i - 1])
           Is(g, m) == g = [i \in 0 .. m |-> Built(g, i)]
           M == {m \in Nat : \E g : Is(g, m)}
           f == CHOOSE g : Is(g, MaxCrawlDepth)
<1>0. MaxCrawlDepth \in Nat
  BY DiscoveryAssumption
<1>1. 0 \in M
  <2> DEFINE g == [i \in 0 .. 0 |-> {site.home}]
  <2>1. Is(g, 0)
    OBVIOUS
  <2> HIDE DEF g, Is
  <2> QED
    BY <2>1
<1>2. ASSUME NEW m \in Nat, m \in M PROVE m + 1 \in M
  <2>1. PICK g : Is(g, m)
    BY <1>2
  <2> DEFINE h == [i \in 0 .. m + 1 |-> IF i <= m THEN g[i] ELSE Built(g, i)]
  <2>2. \A i \in 0 .. m : g[i] = Built(g, i)
    BY <2>1
  <2>3. ASSUME NEW i \in 0 .. m + 1 PROVE Built(h, i) = Built(g, i)
    <3>1. CASE i = 0
      BY <3>1
    <3>2. CASE i # 0
      <4>1. h[i - 1] = g[i - 1]
        BY <3>2
      <4> HIDE DEF h
      <4> QED
        BY <4>1, <3>2
    <3> QED
      BY <3>1, <3>2
  <2>4. \A i \in 0 .. m + 1 : h[i] = Built(g, i)
    <3> HIDE DEF Built
    <3> QED
      BY <2>2
  <2>5. h = [i \in 0 .. m + 1 |-> h[i]]
    OBVIOUS
  <2>6. Is(h, m + 1)
    <3> HIDE DEF h, Built
    <3> QED
      BY <2>3, <2>4, <2>5
  <2> HIDE DEF h, Is
  <2> QED
    BY <2>6
<1>3. \E g : Is(g, MaxCrawlDepth)
  <2> HIDE DEF M, Is
  <2>1. Nat \subseteq M
    BY <1>1, <1>2, NatSteps
  <2> QED
    BY <1>0, <2>1 DEF M
<1>4. Is(f, MaxCrawlDepth)
  <2> HIDE DEF Is
  <2> QED
    BY <1>3, Zenon
<1>5. Within = f
  BY DEF Within, WithinStep
<1> HIDE DEF f
<1>6. \A i \in 0 .. MaxCrawlDepth : f[i] = Built(f, i)
  <2> HIDE DEF Built
  <2> QED
    BY <1>4
<1>7. f[0] = {site.home}
  BY <1>0, <1>6
<1>8. ASSUME NEW i \in 0 .. MaxCrawlDepth - 1 PROVE f[i + 1] = WithinStep(f[i])
  <2>1. i + 1 \in 0 .. MaxCrawlDepth /\ i + 1 # 0 /\ i + 1 - 1 = i
    BY <1>0
  <2> QED
    BY <1>6, <2>1
<1> QED
  BY <1>5, <1>7, <1>8

LEMMA WithinGrows ==
  ASSUME NEW n \in 0 .. MaxCrawlDepth, NEW m \in n .. MaxCrawlDepth
  PROVE  Within[n] \subseteq Within[m]
<1> DEFINE G == {k \in Nat : Within[n] \subseteq Within[k]}
<1>0. MaxCrawlDepth \in Nat
  BY DiscoveryAssumption
<1>1. n \in G /\ n \in Nat /\ m \in Nat
  BY <1>0
<1>2. ASSUME NEW k \in n .. m - 1, k \in G PROVE k + 1 \in G
  <2>1. k \in 0 .. MaxCrawlDepth - 1 /\ k + 1 \in Nat
    BY <1>0
  <2>2. Within[k + 1] = WithinStep(Within[k])
    BY <2>1, WithinSteps
  <2> QED
    BY <1>2, <2>1, <2>2 DEF WithinStep
<1>3. n .. m \subseteq G
  <2> HIDE DEF G
  <2> QED
    BY <1>1, <1>2, StepsBetween
<1> QED
  BY <1>0, <1>3

\* A distance is the shortest.
Right(u, d) ==
  /\ d \in 0 .. MaxCrawlDepth /\ u \in Within[d]
  /\ d > 0 => u \notin Within[d - 1]

LEMMA RightIsLeast ==
  ASSUME NEW u, NEW d, Right(u, d), NEW k \in 0 .. MaxCrawlDepth, u \in Within[k]
  PROVE  d <= k
<1> SUFFICES ASSUME ~(d <= k) PROVE FALSE
  OBVIOUS
<1>1. d \in 0 .. MaxCrawlDepth /\ MaxCrawlDepth \in Nat /\ d > 0 /\ u \notin Within[d - 1]
  BY DiscoveryAssumption DEF Right
<1>2. d - 1 \in k .. MaxCrawlDepth
  BY <1>1
<1>3. Within[k] \subseteq Within[d - 1]
  BY <1>2, WithinGrows
<1> QED
  BY <1>1, <1>3

-----------------------------------------------------------------------------
(* What is known of a discovery under way *)

QueueItem == [url : Url, depth : 0 .. MaxCrawlDepth]

Sorted(q) ==
  \A i, j \in 1 .. Len(q) :
    i < j => q[i].url # q[j].url /\ q[i].depth <= q[j].depth /\ q[j].depth <= q[i].depth + 1

\* Each page is in one place, at its distance, and the queue is in the order of distances.
Reached(c) ==
  /\ Shape(c)
  /\ \A i, j \in 1 .. Len(c.urls) : i < j => c.urls[i] # c.urls[j]
  /\ \A i \in 1 .. Len(c.urls) :
       c.urls[i] \in c.queued \ site.disallowed /\ Right(c.urls[i], c.depth[c.urls[i]])
  /\ Sorted(c.queue)
  /\ \A i \in 1 .. Len(c.queue) :
       /\ c.queue[i].url \in c.queued /\ Right(c.queue[i].url, c.queue[i].depth)
       /\ \A j \in 1 .. Len(c.urls) : c.urls[j] # c.queue[i].url
  /\ \A u \in c.queued :
       \/ u \in site.disallowed \/ \E i \in 1 .. Len(c.urls) : c.urls[i] = u
       \/ \E i \in 1 .. Len(c.queue) : c.queue[i].url = u

\* As long as there is room nothing has been passed over.
Uncut(c) == c.queued # {} /\ Cardinality(c.queued) < MaxUrls

LinksQueued(c) ==
  Uncut(c) =>
    /\ site.home \in c.queued /\ (MaxCrawlDepth > 0 => ToSet(Listed) \subseteq c.queued)
    /\ \A i \in 1 .. Len(c.urls) :
         c.depth[c.urls[i]] < MaxCrawlDepth => ToSet(PageLinks(c.urls[i])) \subseteq c.queued

\* Sequences put together.
LEMMA Joined ==
  ASSUME NEW X, NEW s \in Seq(X), NEW t \in Seq(X)
  PROVE  /\ s \o t \in Seq(X) /\ Len(s \o t) = Len(s) + Len(t) /\ Len(s) \in Nat /\ Len(t) \in Nat
         /\ \A i \in 1 .. Len(s) : i \in 1 .. Len(s \o t) /\ (s \o t)[i] = s[i]
         /\ \A i \in 1 .. Len(t) : Len(s) + i \in 1 .. Len(s \o t) /\ (s \o t)[Len(s) + i] = t[i]
         /\ \A i \in 1 .. Len(s \o t) : i \in 1 .. Len(s) \/ \E k \in 1 .. Len(t) : i = Len(s) + k
<1>1. /\ s \o t \in Seq(X) /\ Len(s \o t) = Len(s) + Len(t) /\ Len(s) \in Nat /\ Len(t) \in Nat
      /\ \A i \in 1 .. Len(s) + Len(t) : (s \o t)[i] = IF i <= Len(s) THEN s[i] ELSE t[i - Len(s)]
  BY ConcatProperties
<1> DEFINE st == s \o t
           a == Len(s)
           b == Len(t)
<1>2. /\ st \in Seq(X) /\ Len(st) = a + b /\ a \in Nat /\ b \in Nat
      /\ \A i \in 1 .. a + b : st[i] = IF i <= a THEN s[i] ELSE t[i - a]
  BY <1>1
<1> HIDE DEF st, a, b
<1>3. ASSUME NEW i \in 1 .. a PROVE i \in 1 .. Len(st) /\ st[i] = s[i]
  BY <1>2
<1>4. ASSUME NEW i \in 1 .. b PROVE a + i \in 1 .. Len(st) /\ st[a + i] = t[i]
  <2>1. a + i \in 1 .. a + b /\ ~(a + i <= a) /\ a + i - a = i
    BY <1>2
  <2> QED
    BY <1>2, <2>1
<1>5. ASSUME NEW i \in 1 .. Len(st) PROVE i \in 1 .. a \/ \E k \in 1 .. b : i = a + k
  <2>1. CASE i <= a
    BY <1>2, <2>1
  <2>2. CASE ~(i <= a)
    <3>1. i - a \in 1 .. b /\ i = a + (i - a)
      BY <1>2, <2>2
    <3> QED
      BY <3>1
  <2> QED
    BY <2>1, <2>2
<1> QED
  BY <1>2, <1>3, <1>4, <1>5 DEF st, a, b

\* What is queued at the distance at which it is found keeps the discovery in order.
LEMMA EnqueuedReaches ==
  ASSUME NEW c, Reached(c), NEW urls \in Seq(Url), NEW d \in Nat,
         \A i \in 1 .. Len(c.queue) : c.queue[i].depth <= d /\ d <= c.queue[i].depth + 1,
         Cardinality(c.queued) < MaxUrls => \A v \in ToSet(urls) \ c.queued : Right(v, d)
  PROVE  \E e \in {Enqueued(c, urls, d)} :
           /\ Reached(e) /\ e.urls = c.urls /\ e.depth = c.depth /\ c.queued \subseteq e.queued
           /\ Len(c.queue) <= Len(e.queue) /\ \A i \in 1 .. Len(c.queue) : e.queue[i] = c.queue[i]
           /\ Cardinality(e.queued) < MaxUrls => Cardinality(c.queued) < MaxUrls /\ ToSet(urls) \subseteq e.queued
<1> DEFINE e == Enqueued(c, urls, d)
           f == Fresh(urls, c.queued)
           new == Items(f, d)
           q == c.queue
<1>1. Shape(c)
  BY DEF Reached
<1>2. /\ f \in Seq(Url) /\ \A i \in 1 .. Len(f) : f[i] \notin c.queued /\ \E k \in 1 .. Len(urls) : f[i] = urls[k]
      /\ \A i, j \in 1 .. Len(f) : i < j => f[i] # f[j]
      /\ IsFiniteSet(c.queued \cup ToSet(f)) /\ Cardinality(c.queued \cup ToSet(f)) <= MaxUrls
      /\ Cardinality(c.queued \cup ToSet(f)) < MaxUrls =>
           Cardinality(c.queued) < MaxUrls /\ ToSet(urls) \subseteq c.queued \cup ToSet(f)
      /\ Len(f) > 0 => Cardinality(c.queued) < MaxUrls
  <2>1. IsFiniteSet(c.queued) /\ Cardinality(c.queued) <= MaxUrls
    BY <1>1 DEF Shape
  <2>2. FreshOf(f, urls, c.queued)
    BY <2>1, FreshOnes
  <2> HIDE DEF f
  <2> QED
    BY <2>2 DEF FreshOf
<1>3. e = [urls |-> c.urls, depth |-> c.depth, queue |-> q \o new, queued |-> c.queued \cup ToSet(f),
           links |-> c.links, listed |-> c.listed, complete |-> c.complete]
  BY <1>1, EnqueuedRecord DEF Shape
<1> HIDE DEF e, f
<1>4. e.urls = c.urls /\ e.depth = c.depth /\ e.queue = q \o new /\ e.queued = c.queued \cup ToSet(f)
      /\ e = [urls |-> e.urls, depth |-> e.depth, queue |-> e.queue, queued |-> e.queued, links |-> e.links,
              listed |-> e.listed, complete |-> e.complete]
  BY <1>3
<1>5. ASSUME NEW i \in 1 .. Len(f) PROVE Right(f[i], d) /\ f[i] \in Url
  <2>1. PICK k \in 1 .. Len(urls) : f[i] = urls[k]
    BY <1>2
  <2>2. f[i] \in ToSet(urls) \ c.queued /\ f[i] \in Url
    BY <1>2, <2>1 DEF ToSet
  <2>3. Len(f) > 0
    BY <1>2
  <2> QED
    BY <1>2, <2>2, <2>3
<1>6. /\ new \in Seq(QueueItem) /\ Len(new) = Len(f) /\ Len(f) \in Nat
      /\ \A i \in 1 .. Len(f) : new[i].url = f[i] /\ new[i].depth = d
  <2>1. Len(f) \in Nat /\ new = [i \in 1 .. Len(f) |-> [url |-> f[i], depth |-> d]]
    BY <1>2 DEF Items, Item
  <2>2. \A i \in 1 .. Len(f) : [url |-> f[i], depth |-> d] \in QueueItem
    BY <1>5 DEF QueueItem, Right
  <2> HIDE DEF new
  <2> QED
    BY <2>1, <2>2
<1>7. q \in Seq(QueueItem)
  BY <1>1 DEF Shape, QueueItem
<1> HIDE DEF new, q
<1>8. /\ e.queue \in Seq(QueueItem) /\ Len(e.queue) = Len(q) + Len(f) /\ Len(q) \in Nat
      /\ \A i \in 1 .. Len(q) : i \in 1 .. Len(e.queue) /\ e.queue[i] = q[i]
      /\ \A i \in 1 .. Len(f) : Len(q) + i \in 1 .. Len(e.queue) /\ e.queue[Len(q) + i] = new[i]
      /\ \A i \in 1 .. Len(e.queue) : i \in 1 .. Len(q) \/ \E k \in 1 .. Len(f) : i = Len(q) + k
  <2>1. /\ q \o new \in Seq(QueueItem) /\ Len(q \o new) = Len(q) + Len(new) /\ Len(q) \in Nat
        /\ \A i \in 1 .. Len(q) : i \in 1 .. Len(q \o new) /\ (q \o new)[i] = q[i]
        /\ \A i \in 1 .. Len(new) : Len(q) + i \in 1 .. Len(q \o new) /\ (q \o new)[Len(q) + i] = new[i]
        /\ \A i \in 1 .. Len(q \o new) : i \in 1 .. Len(q) \/ \E k \in 1 .. Len(new) : i = Len(q) + k
    BY <1>6, <1>7, Joined
  <2>2. e.queue = q \o new /\ Len(new) = Len(f)
    BY <1>4, <1>6
  <2> QED
    BY <2>1, <2>2
<1>9. Shape(e)
  <2>1. e.urls \in Seq(Url) /\ e.depth \in [Url -> 0 .. MaxCrawlDepth]
    BY <1>1, <1>4 DEF Shape
  <2>2. e.queued \subseteq Url /\ IsFiniteSet(e.queued) /\ Cardinality(e.queued) <= MaxUrls
    <3>1. c.queued \subseteq Url /\ ToSet(f) \subseteq Url
      BY <1>1, <1>2 DEF Shape, ToSet
    <3> QED
      BY <1>2, <1>4, <3>1
  <2> QED
    BY <1>4, <1>8, <2>1, <2>2 DEF Shape, QueueItem
<1>10. Sorted(e.queue)
  <2> SUFFICES ASSUME NEW i \in 1 .. Len(e.queue), NEW j \in 1 .. Len(e.queue), i < j
               PROVE  /\ e.queue[i].url # e.queue[j].url /\ e.queue[i].depth <= e.queue[j].depth
                      /\ e.queue[j].depth <= e.queue[i].depth + 1
    BY DEF Sorted
  <2>1. CASE j \in 1 .. Len(q)
    <3>1. i \in 1 .. Len(q)
      BY <1>8, <2>1
    <3>2. Sorted(q)
      BY DEF Reached, q
    <3> QED
      BY <1>8, <2>1, <3>1, <3>2 DEF Sorted
  <2>2. CASE i \in 1 .. Len(q) /\ j \notin 1 .. Len(q)
    <3>1. PICK k \in 1 .. Len(f) : j = Len(q) + k
      BY <1>8, <2>2
    <3>2. e.queue[j] = new[k] /\ e.queue[i] = q[i] /\ new[k].url = f[k] /\ new[k].depth = d
      BY <1>6, <1>8, <2>2, <3>1
    <3>3. q[i].url \in c.queued /\ f[k] \notin c.queued /\ q[i].depth <= d /\ d <= q[i].depth + 1
      BY <1>2, <2>2 DEF Reached, q
    <3> QED
      BY <3>2, <3>3
  <2>3. CASE i \notin 1 .. Len(q) /\ j \notin 1 .. Len(q)
    <3>1. PICK k \in 1 .. Len(f) : j = Len(q) + k
      BY <1>8, <2>3
    <3>2. PICK l \in 1 .. Len(f) : i = Len(q) + l
      BY <1>8, <2>3
    <3>3. e.queue[j] = new[k] /\ e.queue[i] = new[l] /\ l < k
      BY <1>8, <3>1, <3>2
    <3>4. f[l] # f[k]
      BY <1>2, <3>3
    <3> QED
      BY <1>6, <3>3, <3>4
  <2> QED
    BY <2>1, <2>2, <2>3
<1>11. ASSUME NEW i \in 1 .. Len(e.queue)
       PROVE  /\ e.queue[i].url \in e.queued /\ Right(e.queue[i].url, e.queue[i].depth)
              /\ \A j \in 1 .. Len(e.urls) : e.urls[j] # e.queue[i].url
  <2>1. CASE i \in 1 .. Len(q)
    <3>1. /\ q[i].url \in c.queued /\ Right(q[i].url, q[i].depth)
          /\ \A j \in 1 .. Len(c.urls) : c.urls[j] # q[i].url
      BY <2>1 DEF Reached, q
    <3> QED
      BY <1>4, <1>8, <2>1, <3>1
  <2>2. CASE i \notin 1 .. Len(q)
    <3>1. PICK k \in 1 .. Len(f) : i = Len(q) + k
      BY <1>8, <2>2
    <3>2. e.queue[i].url = f[k] /\ e.queue[i].depth = d
      BY <1>6, <1>8, <3>1
    <3>3. f[k] \in ToSet(f) /\ f[k] \notin c.queued
      BY <1>2 DEF ToSet
    <3>4. \A j \in 1 .. Len(c.urls) : c.urls[j] \in c.queued
      BY DEF Reached
    <3> QED
      BY <1>4, <1>5, <3>2, <3>3, <3>4
  <2> QED
    BY <2>1, <2>2
<1>12. ASSUME NEW u \in e.queued
       PROVE  \/ u \in site.disallowed \/ \E i \in 1 .. Len(e.urls) : e.urls[i] = u
              \/ \E i \in 1 .. Len(e.queue) : e.queue[i].url = u
  <2>1. CASE u \in c.queued
    <3>1. \/ u \in site.disallowed \/ \E i \in 1 .. Len(c.urls) : c.urls[i] = u
          \/ \E i \in 1 .. Len(q) : q[i].url = u
      BY <2>1 DEF Reached, q
    <3>2. CASE \E i \in 1 .. Len(q) : q[i].url = u
      BY <1>8, <3>2
    <3> QED
      BY <1>4, <3>1, <3>2
  <2>2. CASE u \in ToSet(f)
    <3>1. PICK k \in 1 .. Len(f) : f[k] = u
      BY <1>2, <2>2 DEF ToSet
    <3>2. Len(q) + k \in 1 .. Len(e.queue) /\ e.queue[Len(q) + k].url = u
      BY <1>6, <1>8, <3>1
    <3> QED
      BY <3>2
  <2> QED
    BY <1>4, <2>1, <2>2
<1>13. /\ \A i, j \in 1 .. Len(e.urls) : i < j => e.urls[i] # e.urls[j]
       /\ \A i \in 1 .. Len(e.urls) :
            e.urls[i] \in e.queued \ site.disallowed /\ Right(e.urls[i], e.depth[e.urls[i]])
  BY <1>4 DEF Reached
<1>14. Reached(e)
  BY <1>9, <1>10, <1>11, <1>12, <1>13 DEF Reached
<1>15. /\ c.queued \subseteq e.queued /\ Len(q) <= Len(e.queue) /\ \A i \in 1 .. Len(q) : e.queue[i] = q[i]
       /\ Cardinality(e.queued) < MaxUrls => Cardinality(c.queued) < MaxUrls /\ ToSet(urls) \subseteq e.queued
  BY <1>2, <1>4, <1>6, <1>8
<1> QED
  BY <1>4, <1>14, <1>15 DEF e, q

LEMMA LinksTyped ==
  ASSUME site \in Site
  PROVE  site.home \in Url /\ Listed \in Seq(Url) /\ \A u \in Url : PageLinks(u) \in Seq(Url)
<1>1. /\ site.home \in Url /\ site.sitemap \in Seq(Url) /\ site.links \in [Url -> Seq(Url)]
      /\ MaxUrls \in Nat /\ <<>> \in Seq(Url)
  BY DiscoveryAssumption DEF Site
<1>2. Listed \in Seq(Url)
  <2>1. Picked(site.sitemap, OnSite(site), MaxUrls) \in Seq(Url)
    BY <1>1, PickedWell
  <2> QED
    BY <1>1, <2>1 DEF Listed
<1>3. ASSUME NEW u \in Url PROVE PageLinks(u) \in Seq(Url)
  <2>1. site.links[u] \in Seq(Url) /\ Len(site.links[u]) \in Nat
    BY <1>1
  <2>2. Picked(site.links[u], OnSite(site), Len(site.links[u])) \in Seq(Url)
    BY <2>1, PickedWell
  <2> QED
    BY <1>1, <2>2 DEF PageLinks, LinksOn
<1> QED
  BY <1>1, <1>2, <1>3

\* With everything nearer worked off, whatever lies within a distance has been queued.
LEMMA FrontierKnown ==
  ASSUME NEW c, Reached(c), LinksQueued(c), Uncut(c), NEW m \in 0 .. MaxCrawlDepth,
         \A i \in 1 .. Len(c.queue) : c.queue[i].url \notin site.disallowed => m <= c.queue[i].depth
  PROVE  Within[m] \subseteq c.queued
<1> DEFINE G == {k \in Nat : Within[k] \subseteq c.queued}
<1>0. MaxCrawlDepth \in Nat /\ m \in Nat /\ m <= MaxCrawlDepth
  BY DiscoveryAssumption
<1>1. 0 \in G
  BY WithinSteps DEF LinksQueued
<1>2. ASSUME NEW k \in 0 .. m - 1, k \in G PROVE k + 1 \in G
  <2>1. k \in 0 .. MaxCrawlDepth - 1 /\ k \in 0 .. MaxCrawlDepth /\ MaxCrawlDepth > 0 /\ k < m /\ k + 1 \in Nat
    BY <1>0
  <2>2. Within[k + 1] = WithinStep(Within[k])
    BY <2>1, WithinSteps
  <2>3. ASSUME NEW v \in Within[k] \ site.disallowed PROVE ToSet(PageLinks(v)) \subseteq c.queued
    <3>1. v \in c.queued
      BY <1>2
    <3>2. ASSUME NEW i \in 1 .. Len(c.queue), c.queue[i].url = v PROVE FALSE
      <4>1. Right(v, c.queue[i].depth) /\ m <= c.queue[i].depth
        BY <3>2 DEF Reached
      <4>2. c.queue[i].depth <= k /\ c.queue[i].depth \in Nat
        BY <2>1, <4>1, RightIsLeast DEF Right
      <4> QED
        BY <1>0, <2>1, <4>1, <4>2
    <3>3. PICK i \in 1 .. Len(c.urls) : c.urls[i] = v
      BY <3>1, <3>2 DEF Reached
    <3>4. Right(v, c.depth[v])
      BY <3>3 DEF Reached
    <3>5. c.depth[v] <= k /\ c.depth[v] \in Nat
      BY <2>1, <3>4, RightIsLeast DEF Right
    <3>6. c.depth[v] < MaxCrawlDepth
      BY <1>0, <2>1, <3>5
    <3> QED
      BY <3>3, <3>6 DEF LinksQueued
  <2>4. ToSet(Listed) \subseteq c.queued
    BY <2>1 DEF LinksQueued
  <2> QED
    BY <1>2, <2>1, <2>2, <2>3, <2>4 DEF WithinStep
<1>3. 0 .. m \subseteq G
  <2> HIDE DEF G
  <2> QED
    BY <1>0, <1>1, <1>2, StepsBetween
<1> QED
  BY <1>0, <1>3

LEMMA FetchedReaches ==
  ASSUME NEW c, Reached(c), c.queue # <<>>, c.queue[1].url \notin site.disallowed
  PROVE  /\ Reached(Fetched(c, c.queue[1])) /\ Head(c.queue) = c.queue[1] /\ c.queue[1] \in QueueItem
         /\ Len(c.queue) \in Nat \ {0} /\ Len(Tail(c.queue)) = Len(c.queue) - 1
         /\ \A i \in 1 .. Len(c.queue) - 1 : Tail(c.queue)[i] = c.queue[i + 1]
         /\ \A i \in 1 .. Len(c.urls) : c.depth[c.urls[i]] = Fetched(c, c.queue[1]).depth[c.urls[i]] /\ c.urls[i] # c.queue[1].url
<1> DEFINE q == c.queue
           t == Tail(c.queue)
           u == c.queue[1].url
           d == c.queue[1].depth
           f == Fetched(c, c.queue[1])
           N == Len(c.urls)
<1>1. Shape(c)
  BY DEF Reached
<1>2. /\ q \in Seq(QueueItem) /\ c.urls \in Seq(Url) /\ c.depth \in [Url -> 0 .. MaxCrawlDepth]
      /\ c.queued \subseteq Url /\ IsFiniteSet(c.queued) /\ Cardinality(c.queued) <= MaxUrls
  BY <1>1 DEF Shape, QueueItem
<1>3. /\ Head(q) = q[1] /\ q[1] \in QueueItem /\ Len(q) \in Nat \ {0} /\ t \in Seq(QueueItem)
      /\ Len(t) = Len(q) - 1 /\ \A i \in 1 .. Len(q) - 1 : t[i] = q[i + 1]
  <2> HIDE DEF QueueItem
  <2>1. Head(q) = q[1] /\ Len(q) \in Nat \ {0}
    BY <1>2
  <2>2. t \in Seq(QueueItem) /\ Len(t) = Len(q) - 1 /\ \A i \in 1 .. Len(t) : t[i] = q[i + 1]
    BY <1>2, HeadTailProperties
  <2>3. q[1] \in QueueItem
    BY <1>2, <2>1
  <2> QED
    BY <2>1, <2>2, <2>3
<1>4. u \in Url /\ d \in 0 .. MaxCrawlDepth
  BY <1>3 DEF QueueItem
<1>5. /\ f.urls = Append(c.urls, u) /\ f.depth = [c.depth EXCEPT ![u] = d] /\ f.queue = t /\ f.queued = c.queued
      /\ f = [urls |-> f.urls, depth |-> f.depth, queue |-> f.queue, queued |-> f.queued, links |-> f.links,
              listed |-> f.listed, complete |-> f.complete]
  BY DEF Fetched
<1> HIDE DEF f, t
<1>6. /\ N \in Nat /\ Len(f.urls) = N + 1 /\ f.urls[N + 1] = u /\ \A i \in 1 .. N : f.urls[i] = c.urls[i]
      /\ f.urls \in Seq(Url) /\ f.depth \in [Url -> 0 .. MaxCrawlDepth]
  BY <1>2, <1>4, <1>5
<1>7. f.depth[u] = d /\ \A v \in Url \ {u} : f.depth[v] = c.depth[v]
  BY <1>2, <1>4, <1>5
<1>8. Shape(f)
  BY <1>2, <1>3, <1>5, <1>6 DEF Shape, QueueItem
<1>9. /\ u \in c.queued /\ Right(u, d) /\ 1 \in 1 .. Len(q)
      /\ \A i \in 1 .. N : c.urls[i] # u /\ c.urls[i] \in Url
  BY <1>2, <1>3 DEF Reached
<1>10. /\ \A i, j \in 1 .. Len(f.urls) : i < j => f.urls[i] # f.urls[j]
       /\ \A i \in 1 .. Len(f.urls) : f.urls[i] \in f.queued \ site.disallowed /\ Right(f.urls[i], f.depth[f.urls[i]])
  <2>1. ASSUME NEW i \in 1 .. Len(f.urls), NEW j \in 1 .. Len(f.urls), i < j PROVE f.urls[i] # f.urls[j]
    <3>1. i \in 1 .. N /\ (j \in 1 .. N \/ j = N + 1)
      BY <1>6, <2>1
    <3>2. \A k, l \in 1 .. N : k < l => c.urls[k] # c.urls[l]
      BY DEF Reached
    <3> QED
      BY <1>6, <1>9, <2>1, <3>1, <3>2
  <2>2. ASSUME NEW i \in 1 .. Len(f.urls)
        PROVE  f.urls[i] \in f.queued \ site.disallowed /\ Right(f.urls[i], f.depth[f.urls[i]])
    <3>1. CASE i \in 1 .. N
      <4>1. f.urls[i] = c.urls[i] /\ f.depth[c.urls[i]] = c.depth[c.urls[i]]
        BY <1>6, <1>7, <1>9, <3>1
      <4>2. c.urls[i] \in c.queued \ site.disallowed /\ Right(c.urls[i], c.depth[c.urls[i]])
        BY <3>1 DEF Reached
      <4> QED
        BY <1>5, <4>1, <4>2
    <3>2. CASE i = N + 1
      BY <1>5, <1>6, <1>7, <1>9, <3>2
    <3> QED
      BY <1>6, <3>1, <3>2
  <2> QED
    BY <2>1, <2>2
<1>11. \A i \in 1 .. Len(t) : i + 1 \in 1 .. Len(q) /\ t[i] = q[i + 1] /\ 1 < i + 1
  BY <1>3
<1>12. Sorted(f.queue)
  <2> SUFFICES ASSUME NEW i \in 1 .. Len(t), NEW j \in 1 .. Len(t), i < j
               PROVE  t[i].url # t[j].url /\ t[i].depth <= t[j].depth /\ t[j].depth <= t[i].depth + 1
    BY <1>5 DEF Sorted
  <2>1. i + 1 \in 1 .. Len(q) /\ j + 1 \in 1 .. Len(q) /\ i + 1 < j + 1 /\ t[i] = q[i + 1] /\ t[j] = q[j + 1]
    BY <1>11
  <2>2. Sorted(q)
    BY DEF Reached
  <2> QED
    BY <2>1, <2>2 DEF Sorted
<1>13. ASSUME NEW i \in 1 .. Len(f.queue)
       PROVE  /\ f.queue[i].url \in f.queued /\ Right(f.queue[i].url, f.queue[i].depth)
              /\ \A j \in 1 .. Len(f.urls) : f.urls[j] # f.queue[i].url
  <2>1. i + 1 \in 1 .. Len(q) /\ f.queue[i] = q[i + 1] /\ 1 < i + 1
    BY <1>5, <1>11
  <2>2. q[i + 1].url # u
    <3>1. Sorted(q)
      BY DEF Reached
    <3> QED
      BY <1>9, <2>1, <3>1 DEF Sorted
  <2>3. /\ q[i + 1].url \in c.queued /\ Right(q[i + 1].url, q[i + 1].depth)
        /\ \A j \in 1 .. N : c.urls[j] # q[i + 1].url
    BY <2>1 DEF Reached
  <2>4. ASSUME NEW j \in 1 .. Len(f.urls) PROVE f.urls[j] # q[i + 1].url
    <3>1. j \in 1 .. N \/ j = N + 1
      BY <1>6
    <3> QED
      BY <1>6, <2>2, <2>3, <3>1
  <2> QED
    BY <1>5, <2>1, <2>3, <2>4
<1>14. ASSUME NEW v \in f.queued
       PROVE  \/ v \in site.disallowed \/ \E i \in 1 .. Len(f.urls) : f.urls[i] = v
              \/ \E i \in 1 .. Len(f.queue) : f.queue[i].url = v
  <2>1. \/ v \in site.disallowed \/ (\E i \in 1 .. N : c.urls[i] = v)
        \/ \E k \in 1 .. Len(q) : q[k].url = v
    <3>1. v \in c.queued
      BY <1>5
    <3> QED
      BY <3>1 DEF Reached
  <2>2. CASE \E i \in 1 .. N : c.urls[i] = v
    BY <1>6, <2>2
  <2>3. CASE \E k \in 1 .. Len(q) : q[k].url = v
    <3>1. PICK k \in 1 .. Len(q) : q[k].url = v
      BY <2>3
    <3>2. CASE k = 1
      BY <1>6, <3>1, <3>2
    <3>3. CASE k # 1
      <4>1. k - 1 \in 1 .. Len(t) /\ k - 1 + 1 = k
        BY <1>3, <3>3
      <4>2. k - 1 \in 1 .. Len(f.queue) /\ f.queue[k - 1] = q[k]
        BY <1>5, <1>11, <4>1
      <4> QED
        BY <3>1, <4>2
    <3> QED
      BY <3>2, <3>3
  <2> QED
    BY <2>1, <2>2, <2>3
<1>15. Reached(f)
  BY <1>8, <1>10, <1>12, <1>13, <1>14 DEF Reached
<1>16. \A i \in 1 .. N : c.depth[c.urls[i]] = f.depth[c.urls[i]] /\ c.urls[i] # u
  BY <1>7, <1>9
<1> QED
  BY <1>3, <1>15, <1>16 DEF f, t

\* A page that is worked off leaves the discovery in order, and what waited behind it waiting.
Behind(c, w) ==
  /\ Reached(w) /\ LinksQueued(w) /\ c.queued \subseteq w.queued /\ Len(c.queue) - 1 <= Len(w.queue)
  /\ \A i \in 1 .. Len(c.queue) - 1 : w.queue[i] = c.queue[i + 1]

LEMMA WorkedOffReaches ==
  ASSUME site \in Site, NEW c, Reached(c), LinksQueued(c), c.queue # <<>>, c.queue[1].url \notin site.disallowed
  PROVE  Behind(c, WorkedOff(c))
<1> DEFINE u == c.queue[1].url
           d == c.queue[1].depth
           f == Fetched(c, c.queue[1])
           links == IF d < MaxCrawlDepth THEN PageLinks(u) ELSE <<>>
           w == Enqueued(f, links, d + 1)
           N == Len(c.urls)
           t == Tail(c.queue)
<1>1. /\ Reached(f) /\ Head(c.queue) = c.queue[1] /\ c.queue[1] \in QueueItem /\ Len(c.queue) \in Nat \ {0}
      /\ Len(t) = Len(c.queue) - 1 /\ \A i \in 1 .. Len(c.queue) - 1 : t[i] = c.queue[i + 1]
      /\ \A i \in 1 .. N : c.depth[c.urls[i]] = f.depth[c.urls[i]] /\ c.urls[i] # u
  BY FetchedReaches
<1>2. WorkedOff(c) = w
  <2>1. c = [urls |-> c.urls, depth |-> c.depth, queue |-> c.queue, queued |-> c.queued, links |-> c.links,
             listed |-> c.listed, complete |-> c.complete]
    BY DEF Reached, Shape
  <2> QED
    BY <1>1, <2>1, WorkedOffIs
<1>3. u \in Url /\ d \in 0 .. MaxCrawlDepth /\ MaxCrawlDepth \in Nat
  BY <1>1, DiscoveryAssumption DEF QueueItem
<1>4. f.urls = Append(c.urls, u) /\ f.depth = [c.depth EXCEPT ![u] = d] /\ f.queue = t /\ f.queued = c.queued
  BY DEF Fetched
<1>5. links \in Seq(Url) /\ (d < MaxCrawlDepth => links = PageLinks(u)) /\ (~(d < MaxCrawlDepth) => ToSet(links) = {})
  <2>1. PageLinks(u) \in Seq(Url)
    BY <1>3, LinksTyped
  <2> QED
    BY <2>1 DEF ToSet
<1>6. Sorted(c.queue) /\ u \in c.queued /\ Right(u, d) /\ 1 \in 1 .. Len(c.queue)
  <2>1. 1 \in 1 .. Len(c.queue)
    BY <1>1
  <2> QED
    BY <2>1 DEF Reached
<1>7. ASSUME NEW i \in 1 .. Len(t) PROVE t[i].depth <= d + 1 /\ d + 1 <= t[i].depth + 1
  <2>1. i + 1 \in 1 .. Len(c.queue) /\ 1 < i + 1 /\ t[i] = c.queue[i + 1]
    BY <1>1
  <2>2. d <= c.queue[i + 1].depth /\ c.queue[i + 1].depth <= d + 1
    BY <1>6, <2>1 DEF Sorted
  <2>3. c.queue[i + 1].depth \in Nat
    BY <2>1 DEF Reached, Right
  <2> QED
    BY <1>3, <2>1, <2>2, <2>3
<1> HIDE DEF links, f, t
<1>8. ASSUME Cardinality(c.queued) < MaxUrls, NEW v \in ToSet(links) \ c.queued PROVE Right(v, d + 1)
  <2>1. d < MaxCrawlDepth /\ v \in ToSet(PageLinks(u))
    BY <1>5, <1>8
  <2>2. d + 1 \in 0 .. MaxCrawlDepth /\ d \in 0 .. MaxCrawlDepth - 1 /\ d + 1 > 0 /\ d + 1 - 1 = d
    <3>1. d \in 0 .. MaxCrawlDepth /\ MaxCrawlDepth \in Nat /\ d < MaxCrawlDepth
      BY <1>3, <2>1
    <3> HIDE DEF d
    <3> QED
      BY <3>1
  <2>3. v \in Within[d + 1]
    <3>1. Within[d + 1] = WithinStep(Within[d])
      BY <2>2, WithinSteps
    <3>2. u \in Within[d] \ site.disallowed
      BY <1>6 DEF Right
    <3> QED
      BY <2>1, <3>1, <3>2 DEF WithinStep
  <2>4. v \notin Within[d]
    <3>1. Uncut(c)
      BY <1>6, <1>8 DEF Uncut
    <3>2. ASSUME NEW i \in 1 .. Len(c.queue) PROVE d <= c.queue[i].depth
      <4>1. CASE i = 1
        BY <1>3, <4>1
      <4>2. CASE i # 1
        <5>1. 1 < i
          BY <4>2
        <5> QED
          BY <1>6, <5>1 DEF Sorted
      <4> QED
        BY <4>1, <4>2
    <3>3. Within[d] \subseteq c.queued
      BY <1>3, <3>1, <3>2, FrontierKnown
    <3> QED
      BY <1>8, <3>3
  <2> QED
    BY <2>2, <2>3, <2>4 DEF Right
<1>9. /\ Reached(w) /\ w.urls = f.urls /\ w.depth = f.depth /\ f.queued \subseteq w.queued
      /\ Len(f.queue) <= Len(w.queue) /\ \A i \in 1 .. Len(f.queue) : w.queue[i] = f.queue[i]
      /\ Cardinality(w.queued) < MaxUrls => Cardinality(f.queued) < MaxUrls /\ ToSet(links) \subseteq w.queued
  <2>1. \A i \in 1 .. Len(f.queue) : f.queue[i].depth <= d + 1 /\ d + 1 <= f.queue[i].depth + 1
    BY <1>4, <1>7
  <2>2. Cardinality(f.queued) < MaxUrls => \A v \in ToSet(links) \ f.queued : Right(v, d + 1)
    BY <1>4, <1>8
  <2>3. d + 1 \in Nat
    BY <1>3
  <2> HIDE DEF d
  <2> QED
    BY <1>1, <1>5, <2>1, <2>2, <2>3, EnqueuedReaches
<1> HIDE DEF w
<1>10. LinksQueued(w)
  <2> SUFFICES ASSUME Uncut(w)
               PROVE  /\ site.home \in w.queued /\ (MaxCrawlDepth > 0 => ToSet(Listed) \subseteq w.queued)
                      /\ \A i \in 1 .. Len(w.urls) :
                           w.depth[w.urls[i]] < MaxCrawlDepth => ToSet(PageLinks(w.urls[i])) \subseteq w.queued
    BY DEF LinksQueued
  <2>1. Uncut(c) /\ ToSet(links) \subseteq w.queued
    BY <1>4, <1>6, <1>9 DEF Uncut
  <2>2. /\ site.home \in c.queued /\ (MaxCrawlDepth > 0 => ToSet(Listed) \subseteq c.queued)
        /\ \A i \in 1 .. N : c.depth[c.urls[i]] < MaxCrawlDepth => ToSet(PageLinks(c.urls[i])) \subseteq c.queued
    BY <2>1 DEF LinksQueued
  <2>3. ASSUME NEW i \in 1 .. Len(w.urls), w.depth[w.urls[i]] < MaxCrawlDepth
        PROVE  ToSet(PageLinks(w.urls[i])) \subseteq w.queued
    <3>1. /\ w.urls = Append(c.urls, u) /\ c.urls \in Seq(Url) /\ N \in Nat /\ Len(w.urls) = N + 1
          /\ w.urls[N + 1] = u /\ \A k \in 1 .. N : w.urls[k] = c.urls[k]
      <4>1. w.urls = Append(c.urls, u) /\ c.urls \in Seq(Url)
        BY <1>4, <1>9 DEF Reached, Shape
      <4> QED
        BY <1>3, <4>1
    <3>2. CASE i \in 1 .. N
      <4>1. c.depth[c.urls[i]] < MaxCrawlDepth /\ w.urls[i] = c.urls[i]
        BY <1>1, <1>9, <2>3, <3>1, <3>2
      <4> QED
        BY <1>4, <1>9, <2>2, <3>2, <4>1
    <3>3. CASE i = N + 1
      <4>1. c.depth \in [Url -> 0 .. MaxCrawlDepth]
        BY DEF Reached, Shape
      <4>2. w.depth[u] = d
        BY <1>3, <1>4, <1>9, <4>1
      <4> QED
        BY <1>5, <2>1, <2>3, <3>1, <3>3, <4>2
    <3> QED
      BY <3>1, <3>2, <3>3
  <2> QED
    BY <1>4, <1>9, <2>2, <2>3
<1>11. /\ c.queued \subseteq w.queued /\ Len(c.queue) - 1 <= Len(w.queue)
       /\ \A i \in 1 .. Len(c.queue) - 1 : w.queue[i] = c.queue[i + 1]
  <2>1. /\ Len(f.queue) = Len(c.queue) - 1 /\ f.queued = c.queued
        /\ \A i \in 1 .. Len(c.queue) - 1 : f.queue[i] = c.queue[i + 1]
    BY <1>1, <1>4
  <2> QED
    BY <1>9, <2>1
<1> QED
  BY <1>2, <1>9, <1>10, <1>11 DEF Behind

\* The queue without what robots.txt forbids.
LEMMA PendingReaches ==
  ASSUME Reached(crawl), LinksQueued(crawl)
  PROVE  \E c \in {[crawl EXCEPT !.queue = Pending]} :
           /\ Reached(c) /\ LinksQueued(c) /\ c.queue = Pending /\ c.queued = crawl.queued
           /\ \A i \in 1 .. Len(Pending) : Pending[i].url \notin site.disallowed
           /\ \A i \in 1 .. Len(crawl.queue) : crawl.queue[i].url \notin site.disallowed => Pending # <<>>
<1> DEFINE c == [crawl EXCEPT !.queue = Pending]
           q == crawl.queue
           p == Pending
<1>1. /\ q \in Seq(QueueItem) /\ crawl.urls \in Seq(Url) /\ crawl.depth \in [Url -> 0 .. MaxCrawlDepth]
      /\ crawl.queued \subseteq Url /\ IsFiniteSet(crawl.queued) /\ Cardinality(crawl.queued) <= MaxUrls
  BY DEF Reached, Shape, QueueItem
<1>2. c = [urls |-> crawl.urls, depth |-> crawl.depth, queue |-> p, queued |-> crawl.queued, links |-> crawl.links,
           listed |-> crawl.listed, complete |-> crawl.complete]
  <2> HIDE DEF p
  <2>1. crawl = [urls |-> crawl.urls, depth |-> crawl.depth, queue |-> crawl.queue, queued |-> crawl.queued,
                 links |-> crawl.links, listed |-> crawl.listed, complete |-> crawl.complete]
    BY DEF Reached, Shape
  <2>2. c = [crawl EXCEPT !.queue = p]
    BY DEF p
  <2> HIDE DEF c
  <2> QED
    BY <2>1, <2>2
<1>3. Len(q) \in Nat /\ ToSet(q) = {q[i] : i \in 1 .. Len(q)}
  BY <1>1 DEF ToSet
<1>4. p \in Seq(QueueItem) /\ Picks(p, q, Len(q), Allowed, Len(q))
  BY <1>1, <1>3, PickedWell DEF Pending
<1> HIDE DEF c, p
<1>5. c.urls = crawl.urls /\ c.depth = crawl.depth /\ c.queue = p /\ c.queued = crawl.queued
      /\ c = [urls |-> c.urls, depth |-> c.depth, queue |-> c.queue, queued |-> c.queued, links |-> c.links,
              listed |-> c.listed, complete |-> c.complete]
  BY <1>2
<1>6. Shape(c)
  BY <1>1, <1>4, <1>5 DEF Shape, QueueItem
<1>7. /\ \A i \in 1 .. Len(p) : p[i].url \notin site.disallowed /\ \E k \in 1 .. Len(q) : p[i] = q[k]
      /\ \A i, j \in 1 .. Len(p) : i < j => \E k, l \in 1 .. Len(q) : k < l /\ p[i] = q[k] /\ p[j] = q[l]
      /\ \A k \in 1 .. Len(q) : q[k].url \notin site.disallowed => \E i \in 1 .. Len(p) : p[i] = q[k]
  <2>1. \A k \in 1 .. Len(q) : q[k] \in Allowed <=> q[k].url \notin site.disallowed
    BY <1>3 DEF Allowed
  <2>2. Len(q) <= Len(q)
    BY <1>3
  <2> HIDE DEF q
  <2>3. \A i \in 1 .. Len(p) : p[i].url \notin site.disallowed /\ \E k \in 1 .. Len(q) : p[i] = q[k]
    BY <1>4 DEF Picks, Allowed
  <2>4. ASSUME NEW i \in 1 .. Len(p), NEW j \in 1 .. Len(p), i < j
        PROVE  \E k, l \in 1 .. Len(q) : k < l /\ p[i] = q[k] /\ p[j] = q[l]
    <3> DEFINE m == Len(q)
    <3>1. Picks(p, q, m, Allowed, m)
      BY <1>4
    <3> HIDE DEF m
    <3>2. p[i] # p[j] /\ \E k, l \in 1 .. m : k < l /\ p[i] = q[k] /\ p[j] = q[l]
      BY <2>4, <3>1 DEF Picks
    <3> QED
      BY <3>2 DEF m
  <2>5. \A k \in 1 .. Len(q) : q[k].url \notin site.disallowed => \E i \in 1 .. Len(p) : p[i] = q[k]
    BY <1>4, <2>1, <2>2 DEF Picks
  <2> QED
    BY <2>3, <2>4, <2>5
<1>8. Sorted(c.queue)
  <2> SUFFICES ASSUME NEW i \in 1 .. Len(p), NEW j \in 1 .. Len(p), i < j
               PROVE  p[i].url # p[j].url /\ p[i].depth <= p[j].depth /\ p[j].depth <= p[i].depth + 1
    BY <1>5 DEF Sorted
  <2>1. PICK k, l \in 1 .. Len(q) : k < l /\ p[i] = q[k] /\ p[j] = q[l]
    BY <1>7
  <2>2. Sorted(q)
    BY DEF Reached
  <2> QED
    BY <2>1, <2>2 DEF Sorted
<1>9. ASSUME NEW i \in 1 .. Len(c.queue)
      PROVE  /\ c.queue[i].url \in c.queued /\ Right(c.queue[i].url, c.queue[i].depth)
             /\ \A j \in 1 .. Len(c.urls) : c.urls[j] # c.queue[i].url
  <2>1. PICK k \in 1 .. Len(q) : p[i] = q[k]
    BY <1>5, <1>7
  <2> QED
    BY <1>5, <2>1 DEF Reached
<1>10. ASSUME NEW v \in c.queued
       PROVE  \/ v \in site.disallowed \/ \E i \in 1 .. Len(c.urls) : c.urls[i] = v
              \/ \E i \in 1 .. Len(c.queue) : c.queue[i].url = v
  <2>1. \/ v \in site.disallowed \/ (\E i \in 1 .. Len(crawl.urls) : crawl.urls[i] = v)
        \/ \E k \in 1 .. Len(q) : q[k].url = v
    <3>1. v \in crawl.queued
      BY <1>5
    <3> QED
      BY <3>1 DEF Reached
  <2>2. CASE v \notin site.disallowed /\ \E k \in 1 .. Len(q) : q[k].url = v
    <3>1. PICK k \in 1 .. Len(q) : q[k].url = v /\ q[k].url \notin site.disallowed
      BY <2>2
    <3>2. \E i \in 1 .. Len(p) : p[i] = q[k]
      BY <1>7, <3>1
    <3> QED
      BY <1>5, <3>1, <3>2
  <2> QED
    BY <1>5, <2>1, <2>2
<1>11. /\ \A i, j \in 1 .. Len(c.urls) : i < j => c.urls[i] # c.urls[j]
       /\ \A i \in 1 .. Len(c.urls) :
            c.urls[i] \in c.queued \ site.disallowed /\ Right(c.urls[i], c.depth[c.urls[i]])
  BY <1>5 DEF Reached
<1>12. Reached(c)
  BY <1>6, <1>8, <1>9, <1>10, <1>11 DEF Reached
<1>13. LinksQueued(c)
  BY <1>5 DEF LinksQueued, Uncut
<1>14. ASSUME NEW k \in 1 .. Len(q), q[k].url \notin site.disallowed PROVE p # <<>>
  <2>1. \E i \in 1 .. Len(p) : p[i] = q[k]
    BY <1>7, <1>14
  <2> QED
    BY <1>4, <2>1
<1> QED
  BY <1>5, <1>7, <1>12, <1>13, <1>14 DEF c, p

Empty(k) == [urls |-> <<>>, depth |-> [u \in Url |-> 0], queue |-> <<>>, queued |-> {}, links |-> {},
             listed |-> <<>>, complete |-> k]

LEMMA NothingReached ==
  ASSUME NEW k
  PROVE  Reached(Empty(k)) /\ LinksQueued(Empty(k))
<1> DEFINE c == Empty(k)
<1>1. c.urls = <<>> /\ c.depth = [u \in Url |-> 0] /\ c.queue = <<>> /\ c.queued = {}
      /\ c = [urls |-> c.urls, depth |-> c.depth, queue |-> c.queue, queued |-> c.queued, links |-> c.links,
              listed |-> c.listed, complete |-> c.complete]
  BY DEF Empty
<1> HIDE DEF c
<1>2. IsFiniteSet({}) /\ Cardinality({}) = 0
  BY FS_EmptySet
<1>3. <<>> \in Seq(Url) /\ <<>> \in Seq([url : Url, depth : 0 .. MaxCrawlDepth]) /\ Len(<<>>) = 0
      /\ [u \in Url |-> 0] \in [Url -> 0 .. MaxCrawlDepth] /\ 0 <= MaxUrls
  BY DiscoveryAssumption
<1>4. Shape(c)
  BY <1>1, <1>2, <1>3 DEF Shape
<1>5. \A i \in 1 .. Len(c.urls) : FALSE
  BY <1>1
<1>6. \A i \in 1 .. Len(c.queue) : FALSE
  BY <1>1
<1>7. Sorted(c.queue)
  BY <1>6 DEF Sorted
<1>8. Reached(c)
  BY <1>1, <1>4, <1>5, <1>6, <1>7 DEF Reached
<1>9. LinksQueued(c)
  BY <1>1 DEF LinksQueued, Uncut
<1> QED
  BY <1>8, <1>9 DEF c

\* A discovery begins with the home page, and with the sitemap's pages one step from it.
LEMMA SeededReaches ==
  ASSUME site \in Site
  PROVE  Reached(Seeded) /\ LinksQueued(Seeded) /\ (site.robots = "served" => Seeded.queued # {})
<1> DEFINE c == NoCrawl
<1>a. c = [urls |-> c.urls, depth |-> c.depth, queue |-> c.queue, queued |-> c.queued, links |-> c.links,
           listed |-> c.listed, complete |-> c.complete]
  BY DEF NoCrawl
<1>0. /\ c.urls = <<>> /\ c.depth = [u \in Url |-> 0] /\ c.queue = <<>> /\ c.queued = {} /\ c.links = {} /\ c.listed = <<>>
  BY DEF NoCrawl
<1> HIDE DEF c
<1>1. CASE site.robots = "down"
  <2>1. Seeded = [c EXCEPT !.complete = FALSE]
    BY <1>1 DEF Seeded, c
  <2> DEFINE w == FALSE
  <2> HIDE DEF w
  <2>2. [c EXCEPT !.complete = w]
          = [urls |-> c.urls, depth |-> c.depth, queue |-> c.queue, queued |-> c.queued, links |-> c.links,
             listed |-> c.listed, complete |-> w]
    BY <1>a
  <2>4. [c EXCEPT !.complete = w] = Empty(w)
    BY <1>0, <2>2, Zenon DEF Empty
  <2>3. Reached(Seeded) /\ LinksQueued(Seeded)
    BY <2>1, <2>4, NothingReached DEF w
  <2> QED
    BY <1>1, <2>3
<1>2. CASE site.robots # "down"
  <2> DEFINE item == Item(site.home, 0)
             l == Listed
             w == site.map # "broken"
             q == <<item>>
             s == {site.home}
             h == [c EXCEPT !.queue = q, !.queued = s, !.listed = l, !.complete = w]
             urls == IF MaxCrawlDepth = 0 THEN <<>> ELSE Listed
             e == Enqueued(h, urls, 1)
  <2>1. Seeded = e
    BY <1>2 DEF Seeded, c
  <2>2. h = [urls |-> <<>>, depth |-> [u \in Url |-> 0], queue |-> q, queued |-> s, links |-> {},
             listed |-> l, complete |-> w]
    <3> HIDE DEF q, s, l, w
    <3>0. h = [c EXCEPT !.queue = q, !.queued = s, !.listed = l, !.complete = w]
      BY Zenon
    <3> HIDE DEF h
    <3>1. h = [urls |-> c.urls, depth |-> c.depth, queue |-> q, queued |-> s, links |-> c.links,
               listed |-> l, complete |-> w]
      BY <1>a, <3>0, HomeRecord, Zenon
    <3> QED
      BY <1>0, <3>1, Zenon
  <2>3. item.url = site.home /\ item.depth = 0 /\ site.home \in Url /\ Listed \in Seq(Url) /\ item \in QueueItem
        /\ MaxCrawlDepth \in Nat
    BY LinksTyped, DiscoveryAssumption DEF Item, QueueItem
  <2> HIDE DEF item, h, e, l, w
  <2>4. h.urls = <<>> /\ h.depth = [u \in Url |-> 0] /\ h.queue = <<item>> /\ h.queued = {site.home}
        /\ h = [urls |-> h.urls, depth |-> h.depth, queue |-> h.queue, queued |-> h.queued, links |-> h.links,
                listed |-> h.listed, complete |-> h.complete]
    BY <2>2
  <2>5. Right(site.home, 0)
    BY <2>3, WithinSteps DEF Right
  <2>6. /\ Len(h.queue) = 1 /\ h.queue[1] = item /\ h.queue \in Seq(QueueItem) /\ Len(h.urls) = 0 /\ h.urls \in Seq(Url)
        /\ h.depth \in [Url -> 0 .. MaxCrawlDepth]
    BY <2>3, <2>4
  <2>7. IsFiniteSet(h.queued) /\ Cardinality(h.queued) <= MaxUrls /\ h.queued \subseteq Url
    <3>1. IsFiniteSet({site.home}) /\ Cardinality({site.home}) = 1
      BY FS_Singleton
    <3>2. 1 <= MaxUrls
      BY DiscoveryAssumption
    <3> QED
      BY <2>3, <2>4, <3>1, <3>2
  <2>8. Reached(h)
    <3>1. Shape(h)
      BY <2>4, <2>6, <2>7 DEF Shape, QueueItem
    <3>2. Sorted(h.queue)
      BY <2>6 DEF Sorted
    <3>3. \A i \in 1 .. Len(h.queue) :
            /\ h.queue[i].url \in h.queued /\ Right(h.queue[i].url, h.queue[i].depth)
            /\ \A j \in 1 .. Len(h.urls) : h.urls[j] # h.queue[i].url
      BY <2>3, <2>4, <2>5, <2>6
    <3>4. ASSUME NEW v \in h.queued PROVE \E i \in 1 .. Len(h.queue) : h.queue[i].url = v
      BY <2>3, <2>4, <2>6
    <3>5. \A i \in 1 .. Len(h.urls) : FALSE
      BY <2>6
    <3> QED
      BY <3>1, <3>2, <3>3, <3>4, <3>5 DEF Reached
  <2>9. urls \in Seq(Url) /\ (MaxCrawlDepth > 0 => urls = Listed) /\ (ToSet(urls) # {} => MaxCrawlDepth > 0)
    <3>1. ToSet(<<>>) = {}
      BY DEF ToSet
    <3> QED
      BY <2>3, <3>1
  <2> HIDE DEF urls
  <2>10. ASSUME NEW v \in ToSet(urls) \ h.queued PROVE Right(v, 1)
    <3>1. MaxCrawlDepth > 0 /\ v \in ToSet(Listed) /\ v # site.home
      BY <2>4, <2>9, <2>10
    <3>2. 1 \in 0 .. MaxCrawlDepth /\ 0 \in 0 .. MaxCrawlDepth - 1 /\ 0 + 1 = 1
      BY <2>3, <3>1
    <3>3. Within[0 + 1] = WithinStep(Within[0]) /\ Within[0] = {site.home}
      BY <3>2, WithinSteps
    <3>4. v \in Within[1] /\ v \notin Within[0]
      BY <3>1, <3>3 DEF WithinStep
    <3> QED
      BY <3>2, <3>4 DEF Right
  <2>11. /\ Reached(e) /\ e.urls = h.urls /\ h.queued \subseteq e.queued
         /\ Cardinality(e.queued) < MaxUrls => ToSet(urls) \subseteq e.queued
    <3>1. \A i \in 1 .. Len(h.queue) : h.queue[i].depth <= 1 /\ 1 <= h.queue[i].depth + 1
      BY <2>3, <2>6
    <3>2. 1 \in Nat /\ (Cardinality(h.queued) < MaxUrls => \A v \in ToSet(urls) \ h.queued : Right(v, 1))
      BY <2>10
    <3> QED
      BY <2>8, <2>9, <3>1, <3>2, EnqueuedReaches DEF e
  <2>12. LinksQueued(e)
    BY <2>4, <2>6, <2>9, <2>11 DEF LinksQueued, Uncut
  <2> QED
    BY <2>1, <2>4, <2>11, <2>12
<1> QED
  BY <1>1, <1>2

\* A batch of a discovery in order leaves it in order.
LEMMA BatchReaches ==
  ASSUME site \in Site, Reached(crawl), LinksQueued(crawl), NEW n \in Nat, n <= Len(Pending)
  PROVE  /\ Reached(BatchWorkedOff(n)) /\ LinksQueued(BatchWorkedOff(n))
         /\ crawl.queued \subseteq BatchWorkedOff(n).queued
<1> DEFINE c == [crawl EXCEPT !.queue = Pending]
<1>1. /\ Reached(c) /\ LinksQueued(c) /\ c.queue = Pending /\ c.queued = crawl.queued
      /\ \A i \in 1 .. Len(Pending) : Pending[i].url \notin site.disallowed
  BY PendingReaches
<1>2. PICK g : /\ BatchWorkedOff(n) = g[n] /\ g[0] = c
               /\ \A k \in 0 .. n - 1 : g[k + 1] = WorkedOff(g[k])
  BY BatchSteps
<1> HIDE DEF c
<1> DEFINE Good(x, k) ==
             /\ Reached(x) /\ LinksQueued(x) /\ crawl.queued \subseteq x.queued
             /\ n - k <= Len(x.queue) /\ \A i \in 1 .. n - k : x.queue[i].url \notin site.disallowed
           G == {k \in 0 .. n : Good(g[k], k)}
<1>3. 0 \in G
  <2>1. Len(Pending) \in Nat
    BY <1>1 DEF Reached, Shape
  <2>2. n - 0 = n /\ 0 \in 0 .. n
    OBVIOUS
  <2> QED
    BY <1>1, <1>2, <2>1, <2>2
<1>4. ASSUME NEW k \in 0 .. n - 1, k \in G PROVE k + 1 \in G
  <2> DEFINE x == g[k]
             w == g[k + 1]
             L == Len(x.queue)
  <2>1. w = WorkedOff(x) /\ Good(x, k) /\ k \in Nat /\ k + 1 \in 0 .. n /\ k < n
    BY <1>2, <1>4
  <2> HIDE DEF x, w
  <2>2. x.queue \in Seq(QueueItem) /\ L \in Nat /\ n - k \in Nat /\ n - k >= 1 /\ n - k <= L
    <3>1. x.queue \in Seq(QueueItem)
      BY <2>1 DEF Reached, Shape, QueueItem
    <3> HIDE DEF QueueItem
    <3>2. L \in Nat
      BY <3>1
    <3>3. n - k \in Nat /\ n - k >= 1
      BY <2>1
    <3> QED
      BY <2>1, <3>1, <3>2, <3>3
  <2>3. x.queue # <<>> /\ x.queue[1].url \notin site.disallowed
    BY <2>1, <2>2
  <2>4. Behind(x, w)
    BY <2>1, <2>3, WorkedOffReaches
  <2>5. Reached(w) /\ LinksQueued(w) /\ crawl.queued \subseteq w.queued
    BY <2>1, <2>4 DEF Behind
  <2>6. Len(w.queue) \in Nat
    BY <2>5 DEF Reached, Shape
  <2>7. n - (k + 1) <= Len(w.queue)
    BY <2>1, <2>2, <2>4, <2>6 DEF Behind
  <2>8. ASSUME NEW i \in 1 .. n - (k + 1) PROVE w.queue[i].url \notin site.disallowed
    <3>1. i + 1 \in 1 .. n - k /\ i \in 1 .. L - 1
      BY <2>1, <2>2
    <3>2. w.queue[i] = x.queue[i + 1]
      BY <2>4, <3>1 DEF Behind
    <3> QED
      BY <2>1, <3>1, <3>2
  <2>9. Good(w, k + 1)
    BY <2>5, <2>7, <2>8
  <2> QED
    BY <2>1, <2>9 DEF w
<1>5. n \in G
  <2>1. 0 .. n \subseteq G
    <3> HIDE DEF G
    <3> QED
      BY <1>3, <1>4, StepsBetween
  <2> QED
    BY <2>1
<1> QED
  BY <1>2, <1>5

-----------------------------------------------------------------------------
(* A discovery is in order from its beginning to its end *)

\* Once it has ended, and with room left, what still waits is forbidden.
DiscoveryInv ==
  /\ site \in Site /\ Reached(crawl) /\ LinksQueued(crawl)
  /\ pc \in {"discover", "check"} /\ site.robots = "served" => crawl.queued # {}
  /\ pc = "check" /\ Uncut(crawl) => \A i \in 1 .. Len(crawl.queue) : crawl.queue[i].url \in site.disallowed

LEMMA DiscoveryFollows == DiscoveryInv => DiscoveryIsWhole
<1> SUFFICES ASSUME DiscoveryInv PROVE DiscoveryIsWhole
  OBVIOUS
<1> DEFINE urls == crawl.urls
<1>1. /\ Reached(crawl) /\ urls \in Seq(Url) /\ ToSet(urls) = {urls[i] : i \in 1 .. Len(urls)}
      /\ \A i \in 1 .. Len(urls) : urls[i] \in crawl.queued \ site.disallowed /\ Right(urls[i], crawl.depth[urls[i]])
  <2>1. Reached(crawl)
    BY DEF DiscoveryInv
  <2>2. urls \in Seq(Url)
    BY <2>1 DEF Reached, Shape
  <2>3. ToSet(urls) = {urls[i] : i \in 1 .. Len(urls)}
    BY <2>2 DEF ToSet
  <2> QED
    BY <2>1, <2>2, <2>3 DEF Reached
<1>2. ASSUME NEW u \in ToSet(urls)
      PROVE  /\ u \in crawl.queued \ site.disallowed /\ Right(u, crawl.depth[u])
             /\ \E i \in 1 .. Len(urls) : urls[i] = u
  BY <1>1
<1>3. \A u \in ToSet(crawl.urls) :
         /\ crawl.depth[u] <= MaxCrawlDepth /\ u \in Within[crawl.depth[u]] \ site.disallowed
         /\ crawl.depth[u] > 0 => u \notin Within[crawl.depth[u] - 1]
  <2> SUFFICES ASSUME NEW u \in ToSet(crawl.urls)
               PROVE  /\ crawl.depth[u] <= MaxCrawlDepth /\ u \in Within[crawl.depth[u]] \ site.disallowed
                      /\ crawl.depth[u] > 0 => u \notin Within[crawl.depth[u] - 1]
    OBVIOUS
  <2>1. u \notin site.disallowed /\ Right(u, crawl.depth[u]) /\ MaxCrawlDepth \in Nat
    BY <1>2, DiscoveryAssumption
  <2> QED
    BY <2>1 DEF Right
<1>4. ASSUME pc = "check", site.robots = "served", Cardinality(crawl.queued) < MaxUrls
      PROVE  ToSet(crawl.urls) = Within[MaxCrawlDepth] \ site.disallowed
  <2>1. Uncut(crawl) /\ LinksQueued(crawl) /\ \A i \in 1 .. Len(crawl.queue) : crawl.queue[i].url \in site.disallowed
    BY <1>4 DEF DiscoveryInv, Uncut
  <2>2. MaxCrawlDepth \in 0 .. MaxCrawlDepth
    BY DiscoveryAssumption
  <2>3. Within[MaxCrawlDepth] \subseteq crawl.queued
    BY <1>1, <2>1, <2>2, FrontierKnown
  <2>4. ASSUME NEW v \in Within[MaxCrawlDepth] \ site.disallowed PROVE v \in ToSet(crawl.urls)
    <3>1. v \in crawl.queued
      BY <2>3
    <3>2. \E i \in 1 .. Len(urls) : urls[i] = v
      <4>1. \/ v \in site.disallowed \/ (\E i \in 1 .. Len(urls) : urls[i] = v)
            \/ \E i \in 1 .. Len(crawl.queue) : crawl.queue[i].url = v
        BY <1>1, <3>1 DEF Reached
      <4> QED
        BY <2>1, <2>4, <4>1
    <3> QED
      BY <1>1, <3>2
  <2>5. ASSUME NEW v \in ToSet(crawl.urls) PROVE v \in Within[MaxCrawlDepth] \ site.disallowed
    <3>1. v \notin site.disallowed /\ Right(v, crawl.depth[v])
      BY <1>2, <2>5
    <3>2. crawl.depth[v] \in 0 .. MaxCrawlDepth /\ MaxCrawlDepth \in crawl.depth[v] .. MaxCrawlDepth
      BY <3>1, DiscoveryAssumption DEF Right
    <3>3. Within[crawl.depth[v]] \subseteq Within[MaxCrawlDepth]
      BY <3>2, WithinGrows
    <3> QED
      BY <3>1, <3>3 DEF Right
  <2> QED
    BY <2>4, <2>5
<1> QED
  BY <1>3, <1>4, Zenon DEF DiscoveryIsWhole

LEMMA DiscoveryStays ==
  ASSUME DiscoveryInv, UNCHANGED <<site, crawl>>, pc' \in {"discover", "check"} => pc' = pc
  PROVE  DiscoveryInv'
<1>1. (Reached(crawl) <=> Reached(crawl)') /\ (LinksQueued(crawl) <=> LinksQueued(crawl)')
      /\ (Uncut(crawl) <=> Uncut(crawl)')
  <2>1. Within' = Within
    BY DEF Within, Listed, PageLinks
  <2>2. Reached(crawl) <=> Reached(crawl)'
    BY <2>1 DEF Reached, Right, Shape, Sorted
  <2>3. Uncut(crawl) <=> Uncut(crawl)'
    BY DEF Uncut
  <2>4. LinksQueued(crawl) <=> LinksQueued(crawl)'
    BY <2>3 DEF LinksQueued, Listed, PageLinks
  <2> QED
    BY <2>2, <2>3, <2>4
<1> QED
  BY <1>1 DEF DiscoveryInv

LEMMA LeastOfThree ==
  ASSUME NEW a \in Int, NEW b \in Int, NEW c \in Int
  PROVE  Audit!Min({a, b, c}) <= c
<1> DEFINE Least(x) == x \in {a, b, c} /\ \A y \in {a, b, c} : x <= y
<1>1. \E x : Least(x)
  <2>1. Least(a) \/ Least(b) \/ Least(c)
    OBVIOUS
  <2> QED
    BY <2>1
<1>2. Least(CHOOSE x : Least(x))
  <2> HIDE DEF Least
  <2> QED
    BY <1>1, Zenon
<1>3. Audit!Min({a, b, c}) = CHOOSE x : Least(x)
  BY DEF Audit!Min
<1> QED
  BY <1>2, <1>3

LEMMA DiscoveryBegins == ASSUME Audit!AuditAssumption, Audit!Init PROVE DiscoveryInv
<1>1. site \in Site
  BY DEF Audit!Init, Audit!AuditAssumption, Audit!Site, Site, Audit!Answer, Answer, Audit!Nowhere, Nowhere
<1>2. crawl = Empty(TRUE) /\ pc = "none"
  BY DEF Audit!Init, Audit!NoCrawl, Empty
<1>3. Reached(crawl) /\ LinksQueued(crawl)
  BY <1>2, NothingReached
<1> QED
  BY <1>1, <1>2, <1>3 DEF DiscoveryInv

LEMMA DiscoveryMoves ==
  ASSUME Reached(crawl)', LinksQueued(crawl)', site \in Site, site' = site,
         (pc \in {"discover", "check"} /\ site.robots = "served" => crawl.queued # {})', pc' # "check"
  PROVE  DiscoveryInv'
BY DEF DiscoveryInv

\* Predicates of a crawl, of the site that does not change, are the same of the next crawl.
LEMMA SiteStays ==
  ASSUME site' = site, NEW c, crawl' = c, Reached(c), LinksQueued(c)
  PROVE  Reached(crawl)' /\ LinksQueued(crawl)'
<1>1. Within' = Within
  BY DEF Within, Listed, PageLinks
<1>2. Reached(crawl)'
  BY <1>1 DEF Reached, Right, Shape, Sorted
<1>3. LinksQueued(crawl)'
  BY DEF LinksQueued, Uncut, Listed, PageLinks
<1> QED
  BY <1>2, <1>3

LEMMA BeginDiscovers == ASSUME DiscoveryInv, Audit!Begin \/ Audit!Redeliver PROVE DiscoveryInv'
<1>1. site' = site /\ site \in Site
  BY DEF DiscoveryInv, Audit!Begin, Audit!Redeliver
<1>2. CASE Audit!Begin
  <2>1. crawl' = Seeded /\ pc' = "discover"
    BY <1>2, SameSeeded DEF Audit!Begin
  <2>2. Reached(Seeded) /\ LinksQueued(Seeded) /\ (site.robots = "served" => Seeded.queued # {})
    BY <1>1, SeededReaches
  <2>3. Reached(crawl)' /\ LinksQueued(crawl)'
    BY <1>1, <2>1, <2>2, SiteStays
  <2> QED
    BY <1>1, <2>1, <2>2, <2>3, DiscoveryMoves
<1>3. CASE Audit!Redeliver
  <2>1. crawl' = Empty(TRUE) /\ pc' = "queued"
    BY <1>3 DEF Audit!Redeliver, Audit!NoCrawl, Empty
  <2>2. Reached(crawl)' /\ LinksQueued(crawl)'
    BY <1>1, <2>1, NothingReached, SiteStays
  <2> QED
    BY <1>1, <2>1, <2>2, DiscoveryMoves
<1> QED
  BY <1>2, <1>3

LEMMA BatchDiscovers == ASSUME Batch \in Nat \ {0}, DiscoveryInv, Audit!DiscoverBatch PROVE DiscoveryInv'
<1>1. /\ site' = site /\ site \in Site /\ Reached(crawl) /\ LinksQueued(crawl) /\ pc = "discover" /\ pc' = pc
      /\ (site.robots = "served" => crawl.queued # {})
  BY DEF DiscoveryInv, Audit!DiscoverBatch
<1>2. PICK n \in 1 .. Batch : /\ n = Audit!Min({Batch, MaxUrls - Len(crawl.urls), Len(Pending)})
                              /\ crawl' = BatchWorkedOff(n)
  BY SamePending, SameBatch DEF Audit!DiscoverBatch
<1>3. Len(crawl.urls) \in Int /\ Len(Pending) \in Int /\ MaxUrls \in Int /\ Batch \in Int
  <2>1. \E c \in {[crawl EXCEPT !.queue = Pending]} : Reached(c) /\ c.queue = Pending
    BY <1>1, PendingReaches
  <2>2. Len(Pending) \in Nat
    BY <2>1 DEF Reached, Shape
  <2>3. Len(crawl.urls) \in Nat
    BY <1>1 DEF Reached, Shape
  <2> QED
    BY <2>2, <2>3, DiscoveryAssumption
<1>4. n \in Nat /\ n <= Len(Pending)
  BY <1>2, <1>3, LeastOfThree
<1>5. /\ Reached(BatchWorkedOff(n)) /\ LinksQueued(BatchWorkedOff(n))
      /\ crawl.queued \subseteq BatchWorkedOff(n).queued
  BY <1>1, <1>4, BatchReaches
<1>6. Reached(crawl)' /\ LinksQueued(crawl)'
  BY <1>1, <1>2, <1>5, SiteStays
<1> QED
  BY <1>1, <1>2, <1>5, <1>6, DiscoveryMoves

LEMMA EndOfDiscovery == ASSUME DiscoveryInv, Audit!Discovered PROVE DiscoveryInv'
<1>1. /\ UNCHANGED <<site, crawl>> /\ pc = "discover" /\ pc' = "check" /\ site \in Site
      /\ Reached(crawl) /\ LinksQueued(crawl) /\ (Pending = <<>> \/ Len(crawl.urls) = MaxUrls)
      /\ (site.robots = "served" => crawl.queued # {})
  BY SamePending DEF DiscoveryInv, Audit!Discovered
<1>2. ASSUME Uncut(crawl) PROVE \A i \in 1 .. Len(crawl.queue) : crawl.queue[i].url \in site.disallowed
  <2>1. CASE Pending = <<>>
    BY <1>1, <2>1, PendingReaches
  <2>2. CASE Len(crawl.urls) = MaxUrls
    <3> DEFINE urls == crawl.urls
    <3>1. urls \in Seq(Url) /\ \A i, j \in 1 .. Len(urls) : i < j => urls[i] # urls[j]
      BY <1>1 DEF Reached, Shape
    <3>2. IsFiniteSet(ToSet(urls)) /\ Cardinality(ToSet(urls)) = Len(urls)
      BY <3>1, ListedOnce
    <3>3. ToSet(urls) \subseteq crawl.queued /\ IsFiniteSet(crawl.queued)
      <4>1. \A i \in 1 .. Len(urls) : urls[i] \in crawl.queued
        BY <1>1 DEF Reached
      <4>2. ToSet(urls) = {urls[i] : i \in 1 .. Len(urls)}
        BY <3>1 DEF ToSet
      <4>3. IsFiniteSet(crawl.queued)
        BY <1>1 DEF Reached, Shape
      <4> QED
        BY <4>1, <4>2, <4>3
    <3>4. Cardinality(ToSet(urls)) <= Cardinality(crawl.queued)
      BY <3>3, FS_Subset
    <3>5. Cardinality(crawl.queued) \in Nat /\ MaxUrls \in Nat
      BY <3>3, FS_CardinalityType, DiscoveryAssumption
    <3> QED
      BY <1>2, <2>2, <3>2, <3>4, <3>5 DEF Uncut
  <2> QED
    BY <1>1, <2>1, <2>2
<1>3. Reached(crawl)' /\ LinksQueued(crawl)'
  BY <1>1, SiteStays
<1> QED
  BY <1>1, <1>2, <1>3 DEF DiscoveryInv, Uncut

LEMMA DiscoveryStepKeeps ==
  ASSUME Batch \in Nat \ {0}, DiscoveryInv, [Audit!Next]_Audit!vars
  PROVE  DiscoveryInv'
<1>1. CASE Audit!Begin \/ Audit!Redeliver
  BY <1>1, BeginDiscovers
<1>2. CASE Audit!DiscoverBatch
  BY <1>2, BatchDiscovers
<1>3. CASE Audit!Discovered
  BY <1>3, EndOfDiscovery
<1>4. CASE \/ Audit!Create \/ Audit!Accept \/ Audit!Send \/ Audit!SendFails \/ Audit!Admit \/ Audit!BeginEnded \/ Audit!CheckBatch
           \/ Audit!Checked \/ Audit!Store \/ Audit!Return \/ Audit!Raise \/ Audit!Lose \/ Audit!Listen
           \/ Audit!Idle \/ UNCHANGED Audit!vars
  <2>1. UNCHANGED <<site, crawl>> /\ (pc' \in {"discover", "check"} => pc' = pc)
    BY <1>4 DEF Audit!Create, Audit!Accept, Audit!Send, Audit!SendFails, Audit!Admit, Audit!BeginEnded, Audit!CheckBatch, Audit!Checked,
                Audit!Store, Audit!Return, Audit!Raise, Audit!Lose, Audit!Listen, Audit!Idle, Audit!vars
  <2> QED
    BY <2>1, DiscoveryStays
<1> QED
  BY <1>1, <1>2, <1>3, <1>4 DEF Audit!Next, Audit!Task

-----------------------------------------------------------------------------
(* Theorems *)

\* That no page is checked twice rests on what the discovery finds, and what an audit answers on
\* what it has in hand.
LEMMA AuditInvariant ==
  ASSUME Audit!AuditAssumption PROVE Audit!Spec => [](DiscoveryInv /\ AuditInv /\ AnswersInv)
<1>1. Batch \in Nat \ {0}
  BY DEF Audit!AuditAssumption
<1>2. Audit!Init => DiscoveryInv /\ AuditInv /\ AnswersInv
  BY DiscoveryBegins, AuditStarts, AnswersBegin
<1>3. DiscoveryInv => Different
  BY DEF DiscoveryInv, Reached, Shape, Different
<1>4. DiscoveryInv /\ AuditInv /\ AnswersInv /\ [Audit!Next]_Audit!vars => DiscoveryInv' /\ AuditInv' /\ AnswersInv'
  BY <1>1, <1>3, DiscoveryStepKeeps, AuditStepKeeps, AnswersStepKeeps
<1> QED
  BY <1>2, <1>4, PTL DEF Audit!Spec

\* Whoever sees an audit that has ended well sees the whole of it (replace_graph and the final
\* update are one commit), and what the stream has told stays the answer: for every site, budget,
\* depth, number of hops and size of the batches, however often a request or a send fails.
THEOREM EndsAreWhole == ASSUME Audit!AuditAssumption PROVE Audit!Spec => []EndIsWhole
<1>1. AuditInv => EndIsWhole
  BY Answered DEF AuditInv, EndIsWhole, WholeIfEndedWell, EndedWell
<1> QED
  BY <1>1, AuditInvariant, PTL

\* An ended audit is not opened again.  It is called failed while its last execution returns (the
\* handler of RedirectUrlAuditService.run), or by POST /check (queue_redirect_url_audit), and what the
\* latter has called failed the execution that was sent goes on with.
THEOREM VerdictsStand == ASSUME Audit!AuditAssumption PROVE Audit!Spec => VerdictStands
<1> DEFINE Excused == \/ audit'.status = "failed" /\ (pc = "return" \/ audit'.error = "queue")
                      \/ audit.error = "queue" /\ pc \in {"begin", "discover", "store"}
<1>1. ASSUME AuditInv, [Audit!Next]_Audit!vars, audit.status \in Audit!Terminal, audit'.status # audit.status
      PROVE  Excused
  <2>1. Audit!Next /\ audit' # audit
    BY <1>1 DEF Audit!vars
  <2>2. AuditTypes
    BY <1>1 DEF AuditInv
  <2>3. CASE Audit!SendFails
    BY <2>2, <2>3 DEF Audit!SendFails, AuditTypes
  <2>4. CASE Audit!Begin \/ Audit!Discovered
    BY <1>1, <2>4 DEF AuditInv, Audit!Terminal, Audit!Begin, Audit!Discovered, Overruled
  <2>5. CASE Audit!CheckBatch
    <3>1. PICK p, q : audit' = [audit EXCEPT !.passed = p, !.failed = q]
      BY <2>1, <2>5 DEF Audit!CheckBatch
    <3>2. audit'.status = audit.status
      BY <2>2, <3>1 DEF AuditTypes
    <3> QED
      BY <1>1, <3>2
  <2>6. CASE Audit!Store
    <3>1. pc = "store" /\ (Overruled \/ (audit.status = "failed" /\ checks = {}))
      BY <1>1, <2>6 DEF AuditInv, Audit!Store, Audit!Terminal
    <3>2. \E e : audit' = [audit EXCEPT !.status = Audit!FinalStatus, !.error = e, !.complete = crawl.complete,
                                        !.graph = Audit!Stored]
      BY <2>6 DEF Audit!Store
    <3>3. audit'.status = Audit!FinalStatus
      <4> HIDE DEF Audit!FinalStatus, Audit!Stored
      <4> QED
        BY <2>2, <3>2 DEF AuditTypes
    <3> QED
      BY <1>1, <3>1, <3>3 DEF Audit!FinalStatus, Overruled
  <2>7. CASE Audit!Raise
    <3>1. pc \in Audit!Running /\ \E e : audit' = [audit EXCEPT !.status = "failed", !.error = e]
      BY <2>7 DEF Audit!Raise
    <3>2. audit'.status = "failed"
      BY <2>2, <3>1 DEF AuditTypes
    <3>3. audit.status # "failed"
      BY <1>1, <3>2
    <3> QED
      BY <1>1, <3>1, <3>2, <3>3 DEF AuditInv, Audit!Running, Audit!Terminal, Overruled
  <2>8. \/ Audit!SendFails \/ Audit!Begin \/ Audit!Discovered \/ Audit!CheckBatch \/ Audit!Store \/ Audit!Raise
    BY <2>1 DEF Audit!Next, Audit!Task, Audit!Create, Audit!Accept, Audit!Send, Audit!Admit, Audit!BeginEnded,
                Audit!DiscoverBatch, Audit!Checked, Audit!Return, Audit!Lose, Audit!Redeliver, Audit!Listen,
                Audit!Idle, Audit!vars
  <2> QED
    BY <2>3, <2>4, <2>5, <2>6, <2>7, <2>8
<1>2. AuditInv /\ [Audit!Next]_Audit!vars =>
        [audit.status \in Terminal /\ audit'.status # audit.status => Excused]_audit
  BY <1>1, Answered
<1> QED
  BY <1>2, AuditInvariant, PTL DEF Audit!Spec, VerdictStands

\* Whatever the site, the status of an audit that came to its own end and the verdict of its
\* answer say how many of its pages lead to an answer, or to a page, by no more redirects than
\* were asked for, but for those checks in which a request failed (check_redirect_chain,
\* _run_pipeline, _analyze).
THEOREM VerdictsHold == ASSUME Audit!AuditAssumption PROVE Audit!Spec => []VerdictIsTrue
BY AuditInvariant, VerdictFollows, PTL

\* The hops that build_result puts together from shared edges begin with those of the check, and
\* are these unless the check ended at the hop limit or because a request failed: whichever
\* requests of whichever checks fail.  The sources are the pages that have the link.
THEOREM AnswersAreWalks == ASSUME Audit!AuditAssumption PROVE Audit!Spec => []RebuiltAsWalked
BY AuditInvariant, RebuiltFollows, PTL

\* The depth of a page is its shortest distance from the home page, and a discovery that the
\* budget did not cut has fetched every page near enough: for every site, budget, depth and size
\* of the batches.
THEOREM PagesAreWhole == ASSUME Audit!AuditAssumption PROVE Audit!Spec => []DiscoveryIsWhole
BY AuditInvariant, DiscoveryFollows, PTL

=============================================================================
