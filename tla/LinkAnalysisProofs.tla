-------------------------- MODULE LinkAnalysisProofs --------------------------
(* What the crawl of a link analysis keeps for any site, cap, depth and number of workers. *)
EXTENDS LinkAnalysis, FiniteSetTheorems, FunctionTheorems, SequenceTheorems, WellFoundedInduction, TLAPS

\* The URLs of a queue, and that none is in it twice.
UrlsOf(q) == {q[i].url : i \in DOMAIN q}
Apart(q)  == \A i, j \in DOMAIN q : q[i].url = q[j].url => i = j

Waiting  == UrlsOf(queue)
Fetching == {i.url : i \in flight}

\* What has been queued waits in one place, is being fetched once, or is settled.
PlacesInv ==
  /\ Apart(queue)
  /\ \A i, j \in flight : i.url = j.url => i = j
  /\ Waiting \cap Fetching = {}
  /\ Waiting \cup Fetching \subseteq seen

\* Each page that was drawn, and each that is being fetched, has a place of its own.
CapInv ==
  /\ IsFiniteSet(flight)
  /\ Cardinality(graph.pages) + Cardinality(flight) <= reserved

\* What has been seen is settled unless it still waits or somebody fetches it.
ClosedInv ==
  /\ site.home \in seen
  /\ graph.truncated \/ Seeds \subseteq seen
  /\ \A u \in seen : \/ graph.truncated \/ u \in Waiting \cup Fetching \cup site.blocked
                     \/ Key(site, u) \in graph.pages
  /\ \A p \in graph.pages : Followable(site, graph.edges[p]) \subseteq seen \cup cut
  /\ phase # "crawl" => queue = <<>> /\ flight = {}

IInv == TypeOK /\ PlacesInv /\ CapInv /\ ClosedInv

-----------------------------------------------------------------------------
LEMMA SiteFacts ==
  ASSUME NEW s \in Sites
  PROVE  /\ s.home \in Url /\ s.cap \in Nat \ {0} /\ s.blocked \subseteq Url /\ s.sitemap \subseteq Url
         /\ s.final \in [Url -> Url] /\ s.answer \in [Url -> Answer] /\ s.links \in [Url -> SUBSET Link]
         /\ \A u \in Url : Key(s, u) \in Url /\ LinksOf(s, u) \subseteq Link
BY LinkAssumption DEF LinkAssumption, Site, Key, LinksOf

LEMMA TargetsAreUrls ==
  ASSUME NEW s \in Sites, NEW links \in SUBSET Link
  PROVE  Targets(links) \subseteq Url /\ Followable(s, links) \subseteq Url
BY DEF Targets, Followable, Link

\* Two links with one target differ in their texts or in their rel: there are finitely many.
LEMMA LinksAreFinite == IsFiniteSet(Link)
<1> DEFINE T == {"plain", "empty", "generic"}
           D == Url \X (T \X BOOLEAN)
           f == [x \in D |-> [to |-> x[1], text |-> x[2][1], nofollow |-> x[2][2]]]
<1>1. IsFiniteSet(D)
  <2>1. IsFiniteSet(T)
    <3>1. IsFiniteSet({"plain"} \cup {"empty"})
      BY FS_Singleton, FS_AddElement
    <3>2. IsFiniteSet(({"plain"} \cup {"empty"}) \cup {"generic"})
      BY <3>1, FS_AddElement
    <3>3. T = ({"plain"} \cup {"empty"}) \cup {"generic"}
      OBVIOUS
    <3> QED BY <3>2, <3>3
  <2>2. IsFiniteSet(BOOLEAN)
    <3>1. IsFiniteSet({TRUE} \cup {FALSE})
      BY FS_Singleton, FS_AddElement
    <3>2. BOOLEAN = {TRUE} \cup {FALSE}
      OBVIOUS
    <3> QED BY <3>1, <3>2
  <2>3. IsFiniteSet(T \X BOOLEAN)
    BY <2>1, <2>2, FS_Product
  <2> HIDE DEF T
  <2> QED BY <2>3, LinkAssumption, FS_Product DEF LinkAssumption
<1>2. f \in Surjection(D, Link)
  <2>1. f \in [D -> Link]
    BY DEF Link
  <2>2. ASSUME NEW l \in Link PROVE \E x \in D : f[x] = l
    <3>1. /\ l = [to |-> l.to, text |-> l.text, nofollow |-> l.nofollow]
          /\ l.to \in Url /\ l.text \in T /\ l.nofollow \in BOOLEAN
      BY DEF Link
    <3>2. <<l.to, <<l.text, l.nofollow>>>> \in D
      BY <3>1
    <3> QED BY <3>1, <3>2
  <2> HIDE DEF f, D
  <2> QED BY <2>1, <2>2 DEF Surjection
<1> HIDE DEF D, f
<1> QED BY <1>1, <1>2, FS_Surjection

LEMMA CountedIsNat ==
  ASSUME NEW s \in Sites, NEW u \in Url
  PROVE  \A v \in Url : Counted(s, LinksOf(s, u), v) \in Nat
<1> SUFFICES ASSUME NEW v \in Url PROVE Cardinality({l \in LinksOf(s, u) : l.to = v}) \in Nat
    BY DEF Counted
<1>1. {l \in LinksOf(s, u) : l.to = v} \subseteq Link
  BY SiteFacts
<1> QED BY <1>1, LinksAreFinite, FS_Subset, FS_CardinalityType

-----------------------------------------------------------------------------
(* The queue *)

\* Queuing URLs that are not in the queue, in any order.
LEMMA QueueGrows ==
  ASSUME NEW q \in Seq(Item), Apart(q), NEW new \in SUBSET Url, UrlsOf(q) \cap new = {},
         NEW order \in SetToSeqs(new), NEW d \in Int
  PROVE  /\ q \o Items(order, d) \in Seq(Item)
         /\ UrlsOf(q \o Items(order, d)) = UrlsOf(q) \cup new
         /\ Apart(q \o Items(order, d))
<1> DEFINE n == Cardinality(new)
           m == Len(q)
           t == Items(order, d)
           c == q \o t
<1>1. IsFiniteSet(new) /\ n \in Nat
  BY LinkAssumption, FS_Subset, FS_CardinalityType DEF LinkAssumption
<1>2. order \in [1 .. n -> new] /\ \A i, j \in 1 .. n : order[i] = order[j] => i = j
  BY DEF SetToSeqs
<1>3. order \in Injection(1 .. n, new)
  <2> HIDE DEF n
  <2> QED BY <1>2, Fun_IsInj
<1>4. \A u \in new : \E i \in 1 .. n : order[i] = u
  <2>1. Cardinality(1 .. n) = n
    BY <1>1, FS_Interval
  <2>2. order \in Surjection(1 .. n, new)
    BY <1>1, <1>3, <2>1, FS_Injection
  <2> QED BY <2>2 DEF Surjection
<1>5. t = [i \in 1 .. n |-> [url |-> order[i], depth |-> d]]
  BY <1>2 DEF Items
<1>6. t \in [1 .. n -> Item]
  BY <1>2, <1>5 DEF Item
<1>7. t \in Seq(Item) /\ Len(t) = n
  BY <1>1, <1>6
<1>8. /\ m \in Nat /\ DOMAIN q = 1 .. m
      /\ c \in Seq(Item) /\ Len(c) = m + n
      /\ \A i \in 1 .. (m + n) : c[i] = IF i <= m THEN q[i] ELSE t[i - m]
  <2> HIDE DEF t
  <2> QED BY <1>7, LenProperties, ConcatProperties
<1>9. DOMAIN c = 1 .. (m + n)
  BY <1>8, LenProperties
<1>10. \A i \in 1 .. n : t[i].url = order[i]
  BY <1>5
<1> HIDE DEF m, n, c, t
<1>11. ASSUME NEW i \in 1 .. (m + n), i <= m
       PROVE  i \in DOMAIN q /\ c[i] = q[i] /\ c[i].url \in UrlsOf(q)
  <2>1. i \in DOMAIN q /\ c[i] = q[i]
    BY <1>8, <1>11
  <2> QED BY <2>1 DEF UrlsOf
<1>12. ASSUME NEW i \in 1 .. (m + n), ~(i <= m)
       PROVE  i - m \in 1 .. n /\ c[i].url = order[i - m] /\ c[i].url \in new
  <2>1. i - m \in 1 .. n /\ c[i] = t[i - m]
    BY <1>1, <1>8, <1>12
  <2> QED BY <2>1, <1>2, <1>10
<1>13. ASSUME NEW u \in UrlsOf(q) PROVE u \in UrlsOf(c)
  <2>1. PICK i \in 1 .. m : q[i].url = u
    BY <1>8, <1>13 DEF UrlsOf
  <2>2. i \in 1 .. (m + n) /\ c[i].url = u
    BY <1>1, <1>8, <2>1
  <2> QED BY <2>2, <1>9 DEF UrlsOf
<1>14. ASSUME NEW u \in new PROVE u \in UrlsOf(c)
  <2>1. PICK i \in 1 .. n : order[i] = u
    BY <1>4
  <2>2. m + i \in 1 .. (m + n) /\ ~(m + i <= m) /\ (m + i) - m = i
    BY <1>1, <1>8, <2>1
  <2>3. c[m + i].url = u
    BY <1>12, <2>1, <2>2
  <2> QED BY <2>2, <2>3, <1>9 DEF UrlsOf
<1>15. UrlsOf(c) \subseteq UrlsOf(q) \cup new
  BY <1>9, <1>11, <1>12 DEF UrlsOf
<1>16. ASSUME NEW i \in 1 .. (m + n), NEW j \in 1 .. (m + n), c[i].url = c[j].url
       PROVE  i = j
  <2>1. CASE i <= m /\ j <= m
    BY <1>11, <1>16, <2>1 DEF Apart
  <2>2. CASE ~(i <= m) /\ ~(j <= m)
    <3>1. i - m \in 1 .. n /\ j - m \in 1 .. n /\ order[i - m] = order[j - m]
      BY <1>12, <1>16, <2>2
    <3>2. i - m = j - m
      BY <3>1, <1>2
    <3> QED BY <3>2, <1>8
  <2>3. CASE i <= m /\ ~(j <= m)
    BY <1>11, <1>12, <1>16, <2>3
  <2>4. CASE ~(i <= m) /\ j <= m
    BY <1>11, <1>12, <1>16, <2>4
  <2> QED BY <2>1, <2>2, <2>3, <2>4
<1>17. Apart(c)
  BY <1>9, <1>16 DEF Apart
<1> QED BY <1>8, <1>13, <1>14, <1>15, <1>17 DEF c, t

\* Taking the first item.
LEMMA QueueShrinks ==
  ASSUME NEW q \in Seq(Item), Apart(q), q # <<>>
  PROVE  /\ Head(q) \in Item /\ Head(q).url \in UrlsOf(q)
         /\ Tail(q) \in Seq(Item)
         /\ UrlsOf(Tail(q)) = UrlsOf(q) \ {Head(q).url}
         /\ Apart(Tail(q))
<1> DEFINE n == Len(q)
<1>1. /\ n \in Nat /\ n >= 1 /\ DOMAIN q = 1 .. n /\ Head(q) = q[1] /\ Head(q) \in Item
      /\ Tail(q) \in Seq(Item) /\ Len(Tail(q)) = n - 1
      /\ \A i \in 1 .. n - 1 : Tail(q)[i] = q[i + 1]
  BY HeadTailProperties, LenProperties, EmptySeq
<1>2. DOMAIN Tail(q) = 1 .. n - 1
  BY <1>1, LenProperties
<1> HIDE DEF n
<1>3. \A i, j \in 1 .. n : q[i].url = q[j].url => i = j
  BY <1>1 DEF Apart
<1>4. Apart(Tail(q))
  BY <1>1, <1>2, <1>3 DEF Apart
<1>5. UrlsOf(Tail(q)) \subseteq UrlsOf(q) \ {Head(q).url}
  BY <1>1, <1>2, <1>3 DEF UrlsOf
<1>6. ASSUME NEW u \in UrlsOf(q) \ {Head(q).url} PROVE u \in UrlsOf(Tail(q))
  <2>1. PICK i \in 1 .. n : u = q[i].url
    BY <1>1, <1>6 DEF UrlsOf
  <2>2. i # 1
    BY <1>1, <1>6, <2>1
  <2>3. i - 1 \in 1 .. n - 1 /\ Tail(q)[i - 1].url = u
    BY <1>1, <2>1, <2>2
  <2> QED BY <2>3, <1>2 DEF UrlsOf
<1>7. Head(q).url \in UrlsOf(q)
  BY <1>1 DEF UrlsOf
<1> QED BY <1>1, <1>4, <1>5, <1>6, <1>7

-----------------------------------------------------------------------------
(* The invariant *)

LEMMA CrawlStarts == Init => IInv
<1> SUFFICES ASSUME Init PROVE IInv
    OBVIOUS
<1> USE DEF Init
<1>1. PICK taken \in SUBSET Seeds : \E order \in SetToSeqs(taken) :
        /\ queue = Items(<<site.home>>, 0) \o Items(order, Unknown)
        /\ seen = {site.home} \cup taken
        /\ graph = [pages |-> {}, edges |-> [u \in Url |-> {}],
                    inbound |-> [u \in Url |-> 0], depth |-> [u \in Url |-> Unknown],
                    checked |-> [u \in Url |-> "unasked"], truncated |-> taken # Seeds]
  OBVIOUS
<1>2. PICK order \in SetToSeqs(taken) : queue = Items(<<site.home>>, 0) \o Items(order, Unknown)
  BY <1>1
<1>3. /\ site \in Sites /\ site.home \in Url /\ site.cap \in Nat \ {0}
      /\ Seeds \subseteq Url /\ site.home \notin Seeds
  BY SiteFacts DEF Seeds
<1> DEFINE first == Items(<<site.home>>, 0)
<1>4. /\ first \in Seq(Item) /\ Apart(first) /\ UrlsOf(first) = {site.home}
  <2>1. first = [i \in 1 .. 1 |-> [url |-> site.home, depth |-> 0]]
    BY DEF Items
  <2>2. first \in [1 .. 1 -> Item] /\ DOMAIN first = 1 .. 1 /\ \A i \in 1 .. 1 : first[i].url = site.home
    BY <2>1, <1>3 DEF Item
  <2> HIDE DEF first
  <2>3. first \in Seq(Item)
    BY <2>2
  <2> QED BY <2>2, <2>3 DEF Apart, UrlsOf
<1> HIDE DEF first
<1>5. /\ queue \in Seq(Item) /\ Apart(queue) /\ UrlsOf(queue) = {site.home} \cup taken
  <2>1. Unknown \in Int
    BY DEF Unknown
  <2>2. taken \in SUBSET Url /\ UrlsOf(first) \cap taken = {}
    BY <1>3, <1>4
  <2>3. queue = first \o Items(order, Unknown)
    BY <1>2 DEF first
  <2> HIDE DEF Init
  <2>4. /\ first \o Items(order, Unknown) \in Seq(Item)
        /\ UrlsOf(first \o Items(order, Unknown)) = UrlsOf(first) \cup taken
        /\ Apart(first \o Items(order, Unknown))
    BY <1>4, <2>1, <2>2, QueueGrows
  <2> QED BY <1>4, <2>3, <2>4
<1>6. TypeOK
  BY <1>1, <1>3, <1>5 DEF TypeOK, Graph, Class, Unknown
<1>7. PlacesInv
  BY <1>1, <1>5 DEF PlacesInv, Waiting, Fetching
<1>8. CapInv
  BY <1>1, FS_EmptySet DEF CapInv
<1>9. ClosedInv
  <2>1. graph.pages = {} /\ graph.truncated = (taken # Seeds)
    BY <1>1
  <2>2. site.home \in seen /\ Waiting = seen
    BY <1>1, <1>5 DEF Waiting
  <2>3. graph.truncated \/ Seeds \subseteq seen
    BY <1>1, <2>1
  <2>4. phase = "crawl"
    OBVIOUS
  <2> QED BY <2>1, <2>2, <2>3, <2>4 DEF ClosedInv
<1> QED BY <1>6, <1>7, <1>8, <1>9 DEF IInv

\* Turning an item away, or skipping it.
LEMMA DropKeeps ==
  ASSUME IInv, Free, queue' = Tail(queue), seen' = seen, site' = site, reserved' = reserved,
         flight' = flight, cut' = cut, phase' = phase,
         \/ graph' = [graph EXCEPT !.truncated = TRUE]
         \/ graph' = graph /\ Head(queue).url \in site.blocked
  PROVE  IInv'
<1> USE DEF IInv, Free
<1>1. /\ Tail(queue) \in Seq(Item) /\ Apart(Tail(queue))
      /\ UrlsOf(Tail(queue)) = UrlsOf(queue) \ {Head(queue).url}
  BY QueueShrinks DEF TypeOK, PlacesInv
<1>2. /\ graph' \in Graph /\ graph'.pages = graph.pages /\ graph'.edges = graph.edges
      /\ (graph.truncated => graph'.truncated)
      /\ (graph'.truncated \/ Head(queue).url \in site.blocked)
  BY DEF TypeOK, Graph
<1>3. Waiting' = Waiting \ {Head(queue).url} /\ Fetching' = Fetching
  BY <1>1 DEF Waiting, Fetching
<1>4. TypeOK'
  BY <1>1, <1>2 DEF TypeOK
<1>5. PlacesInv'
  BY <1>1, <1>3 DEF PlacesInv
<1>6. CapInv'
  BY <1>2 DEF CapInv
<1>7. ClosedInv'
  BY <1>2, <1>3 DEF ClosedInv, Seeds
<1> QED BY <1>4, <1>5, <1>6, <1>7

LEMMA FetchKeeps == IInv /\ Fetch => IInv'
<1> SUFFICES ASSUME IInv, Fetch PROVE IInv'
    OBVIOUS
<1> USE DEF IInv, Fetch, Free
<1>1. /\ Head(queue) \in Item /\ Head(queue).url \in UrlsOf(queue)
      /\ Tail(queue) \in Seq(Item) /\ Apart(Tail(queue))
      /\ UrlsOf(Tail(queue)) = UrlsOf(queue) \ {Head(queue).url}
  BY QueueShrinks DEF TypeOK, PlacesInv
<1>2. /\ Waiting' = Waiting \ {Head(queue).url} /\ Fetching' = Fetching \cup {Head(queue).url}
      /\ Head(queue).url \in Waiting
  BY <1>1 DEF Waiting, Fetching
<1>3. Head(queue) \notin flight
  BY <1>2 DEF PlacesInv, Fetching
<1>4. TypeOK'
  BY <1>1, SiteFacts DEF TypeOK
<1>5. PlacesInv'
  BY <1>1, <1>2 DEF PlacesInv, Fetching
<1>6. CapInv'
  <2>1. IsFiniteSet(flight') /\ Cardinality(flight') = Cardinality(flight) + 1
    BY <1>3, FS_AddElement DEF CapInv
  <2>2. /\ Cardinality(graph.pages) \in Nat /\ Cardinality(flight) \in Nat /\ reserved \in Int
    BY LinkAssumption, SiteFacts, FS_Subset, FS_CardinalityType DEF LinkAssumption, TypeOK, Graph, CapInv
  <2> QED BY <2>1, <2>2 DEF CapInv
<1>7. ClosedInv'
  BY <1>2 DEF ClosedInv, Seeds
<1> QED BY <1>4, <1>5, <1>6, <1>7

\* The graph with the page that was fetched.
LEMMA SettleKeeps ==
  ASSUME IInv, NEW item, Settle(item)
  PROVE  IInv'
<1> USE DEF IInv
<1> DEFINE page   == Key(site, item.url)
           links  == LinksOf(site, item.url)
           new    == Followable(site, links) \ seen
           follow == IF WithinDepth(item.depth) THEN new ELSE {}
<1>1. /\ item \in flight /\ flight' = flight \ {item}
      /\ graph' = [graph EXCEPT
                     !.pages = @ \cup {page},
                     !.edges[page] = links,
                     !.inbound = [u \in Url |-> @[u] + Counted(site, links, u)],
                     !.depth = Depths(page, item.depth, links),
                     !.checked[page] = CrawledClass(AnswerOf(site, page))]
      /\ seen' = seen \cup follow /\ cut' = cut \cup (new \ follow)
      /\ \E order \in SetToSeqs(follow) : queue' = queue \o Items(order, NextLevel(item.depth))
      /\ UNCHANGED <<site, reserved, phase, report>>
  BY DEF Settle
<1>2. /\ item.url \in Url /\ item.depth \in Int /\ page \in Url /\ links \in SUBSET Link
      /\ \A v \in Url : Counted(site, links, v) \in Nat
      /\ AnswerOf(site, page) \in Answer
  BY <1>1, SiteFacts, CountedIsNat DEF TypeOK, Item, AnswerOf
<1>3. Followable(site, links) \subseteq Url /\ follow \subseteq new /\ new \subseteq Url
  BY <1>2, TargetsAreUrls DEF TypeOK
<1>4. Depths(page, item.depth, links) \in [Url -> Int]
  BY <1>2 DEF Depths, Shorter, TypeOK, Graph
<1>5. CrawledClass(AnswerOf(site, page)) \in Class
  BY <1>2 DEF CrawledClass, Class, Answer
<1> HIDE DEF page, links, new, follow
<1>6. /\ graph' \in Graph /\ graph'.pages = graph.pages \cup {page}
      /\ graph'.edges = [graph.edges EXCEPT ![page] = links]
      /\ graph'.truncated = graph.truncated
  <2>1. graph \in Graph
    BY DEF TypeOK
  <2>2. [u \in Url |-> graph.inbound[u] + Counted(site, links, u)] \in [Url -> Nat]
    BY <1>2, <2>1 DEF Graph
  <2> QED BY <1>1, <1>2, <1>4, <1>5, <2>1, <2>2 DEF Graph
<1>7. NextLevel(item.depth) \in Int
  BY <1>2 DEF NextLevel, Unknown
<1>8. PICK order \in SetToSeqs(follow) : queue' = queue \o Items(order, NextLevel(item.depth))
  BY <1>1
<1>9. UrlsOf(queue) \cap follow = {} /\ follow \in SUBSET Url
  BY <1>3 DEF new, PlacesInv, Waiting
<1>10. queue' \in Seq(Item) /\ UrlsOf(queue') = UrlsOf(queue) \cup follow /\ Apart(queue')
  BY <1>7, <1>8, <1>9, QueueGrows DEF TypeOK, PlacesInv
<1>11. /\ Waiting' = Waiting \cup follow /\ Fetching' = Fetching \ {item.url}
       /\ item.url \in Fetching
  BY <1>1, <1>10 DEF Waiting, Fetching, PlacesInv
<1>12. TypeOK'
  BY <1>1, <1>3, <1>6, <1>10 DEF TypeOK
<1>13. PlacesInv'
  <2>1. Fetching \cap follow = {}
    <3>1. Fetching \subseteq seen
      BY DEF PlacesInv
    <3> QED BY <3>1 DEF follow, new
  <2> QED BY <1>1, <1>10, <1>11, <2>1 DEF PlacesInv
<1>14. CapInv'
  <2>1. IsFiniteSet(flight') /\ Cardinality(flight') = Cardinality(flight) - 1
    BY <1>1, FS_RemoveElement DEF CapInv
  <2>2. IsFiniteSet(graph.pages)
    BY LinkAssumption, FS_Subset DEF LinkAssumption, TypeOK, Graph
  <2>3. Cardinality(graph'.pages) <= Cardinality(graph.pages) + 1
    <3>1. /\ Cardinality(graph.pages) \in Nat
          /\ Cardinality(graph.pages \cup {page})
               = IF page \in graph.pages THEN Cardinality(graph.pages) ELSE Cardinality(graph.pages) + 1
      BY <2>2, FS_AddElement, FS_CardinalityType
    <3> QED BY <1>6, <3>1
  <2>4. /\ Cardinality(graph.pages) \in Nat /\ Cardinality(flight) \in Nat /\ reserved \in Int
        /\ Cardinality(graph'.pages) \in Nat
    <3>1. IsFiniteSet(graph.pages \cup {page})
      BY <2>2, FS_AddElement
    <3>2. Cardinality(graph'.pages) \in Nat
      BY <1>6, <3>1, FS_CardinalityType
    <3>3. Cardinality(graph.pages) \in Nat /\ Cardinality(flight) \in Nat
      BY <2>2, FS_CardinalityType DEF CapInv
    <3>4. reserved \in Int
      BY DEF TypeOK
    <3> QED BY <3>2, <3>3, <3>4
  <2> QED BY <1>1, <2>1, <2>3, <2>4 DEF CapInv
<1>15. ClosedInv'
  <2>1. \A p \in graph'.pages : Followable(site, graph'.edges[p]) \subseteq seen' \cup cut'
    <3> SUFFICES ASSUME NEW p \in graph'.pages
                 PROVE  Followable(site, graph'.edges[p]) \subseteq seen' \cup cut'
        OBVIOUS
    <3>1. graph.edges \in [Url -> SUBSET Link]
      BY DEF TypeOK, Graph
    <3>2. CASE p = page
      <4>1. graph'.edges[p] = links
        BY <1>2, <1>6, <3>1, <3>2
      <4> QED BY <4>1, <1>1 DEF new
    <3>3. CASE p # page
      <4>1. p \in graph.pages /\ graph'.edges[p] = graph.edges[p]
        BY <1>6, <3>1, <3>3
      <4> QED BY <4>1, <1>1 DEF ClosedInv
    <3> QED BY <3>2, <3>3
  <2>2. phase' = "crawl"
    BY <1>1 DEF ClosedInv
  <2>3. \A u \in seen' : \/ graph'.truncated \/ u \in Waiting' \cup Fetching' \cup site.blocked
                         \/ Key(site, u) \in graph'.pages
    <3> SUFFICES ASSUME NEW u \in seen', ~graph'.truncated
                 PROVE  u \in Waiting' \cup Fetching' \cup site.blocked \/ Key(site, u) \in graph'.pages
        OBVIOUS
    <3>1. CASE u \in follow
      BY <3>1, <1>11
    <3>2. CASE u = item.url
      BY <3>2, <1>6 DEF page
    <3>3. CASE u \in seen /\ u # item.url
      BY <3>3, <1>6, <1>11 DEF ClosedInv
    <3> QED BY <3>1, <3>2, <3>3, <1>1
  <2> QED BY <1>1, <1>6, <2>1, <2>2, <2>3 DEF ClosedInv, Seeds
<1> QED BY <1>12, <1>13, <1>14, <1>15

LEMMA CheckKeeps == IInv /\ CheckLinks => IInv'
<1> SUFFICES ASSUME IInv, CheckLinks PROVE IInv'
    OBVIOUS
<1> USE DEF IInv, CheckLinks
<1>1. PICK asked \in Asked : graph' = [graph EXCEPT !.checked =
               [u \in Url |-> IF u \in asked THEN CheckedClass(AnswerOf(site, u)) ELSE @[u]]]
  OBVIOUS
<1>2. \A u \in Url : CheckedClass(AnswerOf(site, u)) \in Class
  <2>1. \A u \in Url : AnswerOf(site, u) \in Answer
    BY SiteFacts DEF TypeOK, AnswerOf
  <2> QED BY <2>1 DEF CheckedClass, Answer, Class
<1>3. /\ graph' \in Graph /\ graph'.pages = graph.pages /\ graph'.edges = graph.edges
      /\ graph'.truncated = graph.truncated
  BY <1>1, <1>2 DEF TypeOK, Graph
<1>4. TypeOK'
  BY <1>3 DEF TypeOK
<1>5. PlacesInv'
  BY DEF PlacesInv, Waiting, Fetching
<1>6. CapInv'
  BY <1>3 DEF CapInv
<1>7. ClosedInv'
  BY <1>3 DEF ClosedInv, Seeds, Waiting, Fetching
<1> QED BY <1>4, <1>5, <1>6, <1>7

LEMMA StepKeeps == IInv /\ [Next]_vars => IInv'
<1> SUFFICES ASSUME IInv, [Next]_vars PROVE IInv'
    OBVIOUS
<1>1. CASE TurnAway
  BY <1>1, DropKeeps DEF TurnAway
<1>2. CASE SkipBlocked
  BY <1>2, DropKeeps DEF SkipBlocked
<1>3. CASE Fetch
  BY <1>3, FetchKeeps
<1>4. ASSUME NEW item \in flight, Settle(item) PROVE IInv'
  BY <1>4, SettleKeeps
<1>5. CASE Join
  BY <1>5 DEF Join, IInv, TypeOK, PlacesInv, CapInv, ClosedInv, Seeds, Waiting, Fetching
<1>6. CASE CheckLinks
  BY <1>6, CheckKeeps
<1>7. CASE Analyse
  BY <1>7 DEF Analyse, IInv, TypeOK, PlacesInv, CapInv, ClosedInv, Seeds, Waiting, Fetching
<1>8. CASE UNCHANGED vars
  BY <1>8 DEF vars, IInv, TypeOK, PlacesInv, CapInv, ClosedInv, Seeds, Waiting, Fetching
<1> QED BY <1>1, <1>2, <1>3, <1>4, <1>5, <1>6, <1>7, <1>8 DEF Next, Work, Done

LEMMA Invariant == Spec => []IInv
BY CrawlStarts, StepKeeps, PTL DEF Spec

-----------------------------------------------------------------------------
(* The page limit, and what is settled *)

\* Every state of an analysis is of its type.
THEOREM AnalysisTypeCorrect == Spec => []TypeOK
<1>1. IInv => TypeOK
  BY DEF IInv
<1> QED BY <1>1, Invariant, PTL

\* However many workers reserve, fetch and settle, the page limit holds and no URL is fetched
\* by two of them.
THEOREM PageCapHolds == Spec => []PageCapExact
<1>1. IInv => PageCapExact
  <2> SUFFICES ASSUME IInv PROVE PageCapExact
      OBVIOUS
  <2> USE DEF IInv
  <2>1. /\ Cardinality(graph.pages) \in Nat /\ Cardinality(flight) \in Nat
        /\ reserved \in Int /\ site.cap \in Int /\ reserved <= site.cap
    BY LinkAssumption, SiteFacts, FS_Subset, FS_CardinalityType DEF LinkAssumption, TypeOK, Graph, CapInv
  <2>2. Cardinality(graph.pages) + Cardinality(flight) <= site.cap
    BY <2>1 DEF CapInv
  <2>3. \A i \in DOMAIN queue : queue[i].url \in Waiting
    BY DEF Waiting, UrlsOf
  <2> QED BY <2>2, <2>3 DEF PageCapExact, PlacesInv, Apart, Fetching
<1> QED BY <1>1, Invariant, PTL

\* A crawl that does not say it left pages out has settled whatever it has seen.
THEOREM WholeUnlessTruncated == Spec => []WholeUnlessSaid
<1>1. IInv => WholeUnlessSaid
  <2> SUFFICES ASSUME IInv, phase # "crawl", ~graph.truncated
               PROVE  /\ {site.home} \cup Seeds \subseteq seen
                      /\ \A u \in seen : u \in site.blocked \/ Key(site, u) \in graph.pages
                      /\ \A p \in graph.pages : Followable(site, graph.edges[p]) \subseteq seen \cup cut
      BY DEF WholeUnlessSaid
  <2> USE DEF IInv
  <2>1. Waiting = {} /\ Fetching = {}
    BY EmptySeq, LenProperties DEF ClosedInv, Waiting, Fetching, UrlsOf
  <2> QED BY <2>1 DEF ClosedInv
<1> QED BY <1>1, Invariant, PTL

-----------------------------------------------------------------------------
(* Depths *)

\* A set of numbers that holds 0 and with each number the next holds all.
LEMMA NatSteps ==
  ASSUME NEW G, 0 \in G, \A n \in Nat : n \in G => n + 1 \in G
  PROVE  Nat \subseteq G
<1> SUFFICES ASSUME Nat \ G # {} PROVE FALSE
    OBVIOUS
<1>1. PICK n \in Nat \ G : \A k \in Nat \ G : ~(<<k, n>> \in OpToRel(<, Nat))
  BY WFMin, NatLessThanWellFounded, Nat \ G \subseteq Nat, Zenon
<1>2. n # 0 /\ n - 1 \in Nat \ G
  BY n - 1 + 1 = n
<1>3. <<n - 1, n>> \in Nat \X Nat /\ n - 1 < n
  BY <1>2
<1>4. <<n - 1, n>> \in OpToRel(<, Nat)
  BY <1>3, Zenon DEF OpToRel
<1> QED BY <1>1, <1>2, <1>4, Zenon

\* What the chains of each length are.
LEMMA ChainsStep ==
  ASSUME NEW s
  PROVE  /\ Chains(s)[0] = {<<s.home>>}
         /\ \A n \in 1 .. Cardinality(Url) : Chains(s)[n] = Longer(s, Chains(s)[n - 1])
<1> DEFINE N == Cardinality(Url)
           Step(g, n) == IF n = 0 THEN {<<s.home>>} ELSE Longer(s, g[n - 1])
           Is(g, m) == g = [n \in 0 .. m |-> Step(g, n)]
           M == {m \in Nat : \E g : Is(g, m)}
<1>1. N \in Nat
  BY LinkAssumption, FS_CardinalityType DEF LinkAssumption
<1>2. 0 \in M
  <2> DEFINE g == [n \in 0 .. 0 |-> {<<s.home>>}]
  <2>1. Is(g, 0)
    OBVIOUS
  <2> HIDE DEF g, Is
  <2> QED BY <2>1
<1>3. ASSUME NEW m \in Nat, m \in M PROVE m + 1 \in M
  <2>1. PICK g : Is(g, m)
    BY <1>3
  <2> DEFINE h == [n \in 0 .. m + 1 |-> IF n <= m THEN g[n] ELSE Step(g, n)]
  <2>2. \A n \in 0 .. m : g[n] = Step(g, n)
    BY <2>1
  <2>3. \A n \in 0 .. m + 1 : Step(h, n) = Step(g, n)
    OBVIOUS
  <2>4. \A n \in 0 .. m + 1 : h[n] = Step(g, n)
    <3> HIDE DEF Step
    <3> QED BY <2>2
  <2>5. h = [n \in 0 .. m + 1 |-> h[n]]
    OBVIOUS
  <2>6. Is(h, m + 1)
    <3> HIDE DEF h, Step
    <3> QED BY <2>3, <2>4, <2>5
  <2> HIDE DEF h, Is
  <2> QED BY <2>6
<1>4. \E g : Is(g, N)
  <2> HIDE DEF M
  <2>1. N \in M
    BY <1>1, <1>2, <1>3, NatSteps
  <2> QED BY <2>1 DEF M
<1>5. Chains(s) = (CHOOSE g : Is(g, N))
  BY DEF Chains
<1>6. Is(Chains(s), N)
  <2> HIDE DEF Is
  <2> QED BY <1>4, <1>5, Zenon
<1> HIDE DEF Step
<1>7. \A n \in 0 .. N : Chains(s)[n] = Step(Chains(s), n)
  BY <1>6
<1> QED BY <1>1, <1>7 DEF Step

\* A chain of depth links, among URLs that have been seen.
Way(s, c, u, depth, known) ==
  /\ c \in Seq(Url) /\ Len(c) = depth + 1 /\ Last(c) = u /\ c \in Chains(s)[depth]
  /\ ToSet(c) \subseteq known
  /\ \A i, j \in 1 .. depth + 1 : c[i] = c[j] => i = j

\* One more link to a URL that is not on the chain: there are URLs enough for it.
LEMMA WayGrows ==
  ASSUME NEW s \in Sites, NEW depth \in 0 .. Cardinality(Url) - 1, NEW known, NEW u \in Url, NEW c, NEW v \in Url,
         Way(s, c, v, depth, known), v \notin s.blocked, u \in Targets(LinksOf(s, v)), u \notin ToSet(c)
  PROVE  /\ depth + 1 \in 0 .. Cardinality(Url) - 1
         /\ Way(s, Append(c, u), u, depth + 1, known \cup {u})
<1> DEFINE N == Cardinality(Url)
           n == depth + 1
           e == Append(c, u)
<1>1. /\ IsFiniteSet(Url) /\ N \in Nat /\ n \in Nat /\ n <= N
  BY LinkAssumption, FS_CardinalityType DEF LinkAssumption
<1>2. /\ c \in Seq(Url) /\ Len(c) = n /\ c[n] = v /\ c \in Chains(s)[depth] /\ ToSet(c) \subseteq known
      /\ \A i, j \in 1 .. n : c[i] = c[j] => i = j
  BY DEF Way, Last
<1>3. /\ e \in Seq(Url) /\ Len(e) = n + 1 /\ \A i \in 1 .. n : e[i] = c[i]
      /\ e[n + 1] = u
  BY <1>2, AppendProperties
<1>4. \A i \in 1 .. n : c[i] # u
  BY <1>2 DEF ToSet
<1> HIDE DEF e, N, n
<1>5. \A i, j \in 1 .. n + 1 : e[i] = e[j] => i = j
  <2> SUFFICES ASSUME NEW i \in 1 .. n + 1, NEW j \in 1 .. n + 1, e[i] = e[j] PROVE i = j
      OBVIOUS
  <2>1. i \in 1 .. n \/ i = n + 1
    BY <1>1
  <2>2. j \in 1 .. n \/ j = n + 1
    BY <1>1
  <2> QED BY <1>2, <1>3, <1>4, <2>1, <2>2
<1>6. n + 1 <= N
  <2>1. e \in [1 .. n + 1 -> Url]
    BY <1>3, LenProperties
  <2>2. e \in Injection(1 .. n + 1, Url)
    BY <1>5, <2>1, Fun_IsInj
  <2>3. Cardinality(1 .. n + 1) = n + 1
    BY <1>1, FS_Interval
  <2> QED BY <1>1, <2>2, <2>3, FS_Injection DEF N
<1>7. ToSet(e) \subseteq known \cup {u}
  <2>1. DOMAIN e = 1 .. n + 1 /\ DOMAIN c = 1 .. n
    BY <1>2, <1>3, LenProperties
  <2> QED BY <1>1, <1>2, <1>3, <2>1 DEF ToSet
<1>8. e \in Chains(s)[n]
  <2>1. Chains(s)[n] = Longer(s, Chains(s)[n - 1]) /\ n - 1 = depth
    BY <1>1, <1>6, ChainsStep DEF n, N
  <2>2. <<c, u>> \in Chains(s)[depth] \X Url /\ Last(c) = v
    BY <1>2 DEF Last
  <2>3. e \in Longer(s, Chains(s)[depth])
    BY <2>2 DEF Longer, e
  <2> QED BY <2>1, <2>3
<1> QED BY <1>1, <1>3, <1>5, <1>6, <1>7, <1>8 DEF Way, Last, e, n, N

\* A way is a way among more URLs.
LEMMA WayStays ==
  ASSUME NEW s, NEW c, NEW u, NEW depth, NEW known, NEW more, known \subseteq more, Way(s, c, u, depth, known)
  PROVE  Way(s, c, u, depth, more)
BY DEF Way

\* What a way shows of the URL it leads to, of the page behind it, and of the page's links.
LEMMA WayShows ==
  ASSUME NEW s, NEW c, NEW v, NEW depth \in Nat, NEW known, Way(s, c, v, depth, known)
  PROVE  /\ Within(s, depth, v) /\ Within(s, depth, Key(s, v))
         /\ v \notin s.blocked => \A u \in Targets(LinksOf(s, v)) : Within(s, depth + 1, u)
<1>1. c \in Chains(s)[depth] /\ Last(c) = v
  BY DEF Way
<1>2. depth + 1 > 0 /\ (depth + 1) - 1 = depth
  OBVIOUS
<1> HIDE DEF Chains, Key, LinksOf, Targets, Last
<1> QED BY <1>1, <1>2 DEF Within

\* An item that has a depth waits at the end of a chain of that length.
Led(item) ==
  item.depth # Unknown =>
    /\ item.depth \in 0 .. Cardinality(Url) - 1
    /\ \E c : Way(site, c, item.url, item.depth, seen)

\* A URL that has a depth lies within it.
DepthShown(depth, u) == depth # Unknown => depth \in 0 .. Cardinality(Url) /\ Within(site, depth, u)

\* Items wait at the ends of chains, links are cut where a chain is too long, and the depths
\* that have been drawn are lengths of chains.
ChainInv ==
  /\ \A item \in flight \cup ToSet(queue) : Led(item)
  /\ \A item \in flight : item.url \notin site.blocked
  /\ \A u \in cut : \E d \in MaxDepth .. Cardinality(Url) : Within(site, d, u)
  /\ \A u \in Url : DepthShown(graph.depth[u], u)

\* The items of a queue that has grown.
LEMMA ItemsGrow ==
  ASSUME NEW q \in Seq(Item), NEW new \in SUBSET Url, NEW order \in SetToSeqs(new), NEW d \in Int
  PROVE  \A item \in ToSet(q \o Items(order, d)) : item \in ToSet(q) \/ (item.url \in new /\ item.depth = d)
<1> DEFINE n == Cardinality(new)
           m == Len(q)
           t == Items(order, d)
           c == q \o t
<1>1. IsFiniteSet(new) /\ n \in Nat
  BY LinkAssumption, FS_Subset, FS_CardinalityType DEF LinkAssumption
<1>2. order \in [1 .. n -> new]
  BY DEF SetToSeqs
<1>3. t = [i \in 1 .. n |-> [url |-> order[i], depth |-> d]]
  BY <1>2 DEF Items
<1>4. t \in Seq(Item) /\ Len(t) = n
  <2>1. t \in [1 .. n -> Item]
    BY <1>2, <1>3 DEF Item
  <2> HIDE DEF n, t
  <2> QED BY <1>1, <2>1
<1>5. /\ m \in Nat /\ DOMAIN q = 1 .. m /\ DOMAIN c = 1 .. (m + n)
      /\ \A i \in 1 .. (m + n) : c[i] = IF i <= m THEN q[i] ELSE t[i - m]
  <2> HIDE DEF t
  <2>1. m \in Nat /\ DOMAIN q = 1 .. m
    BY LenProperties
  <2>2. /\ c \in Seq(Item) /\ Len(c) = m + n
        /\ \A i \in 1 .. (m + n) : c[i] = IF i <= m THEN q[i] ELSE t[i - m]
    BY <1>4, ConcatProperties
  <2>3. DOMAIN c = 1 .. (m + n)
    BY <2>2, LenProperties
  <2> QED BY <2>1, <2>2, <2>3
<1>6. \A i \in 1 .. n : t[i].url \in new /\ t[i].depth = d
  BY <1>2, <1>3
<1> HIDE DEF m, n, c, t
<1> SUFFICES ASSUME NEW i \in 1 .. (m + n)
             PROVE  c[i] \in ToSet(q) \/ (c[i].url \in new /\ c[i].depth = d)
    BY <1>5 DEF ToSet, c, t
<1>7. CASE i <= m
  BY <1>5, <1>7 DEF ToSet
<1>8. CASE ~(i <= m)
  <2>1. i - m \in 1 .. n /\ c[i] = t[i - m]
    BY <1>1, <1>5, <1>8
  <2> QED BY <2>1, <1>6
<1> QED BY <1>7, <1>8

\* The items of a queue that has shrunk.
LEMMA ItemsShrink ==
  ASSUME NEW q \in Seq(Item), q # <<>>
  PROVE  ToSet(Tail(q)) \subseteq ToSet(q) /\ Head(q) \in ToSet(q)
<1> DEFINE n == Len(q)
<1>1. /\ n \in Nat /\ n >= 1 /\ DOMAIN q = 1 .. n /\ Head(q) = q[1]
      /\ Tail(q) \in Seq(Item) /\ Len(Tail(q)) = n - 1
      /\ \A i \in 1 .. n - 1 : Tail(q)[i] = q[i + 1]
  BY HeadTailProperties, LenProperties, EmptySeq
<1>2. DOMAIN Tail(q) = 1 .. n - 1
  BY <1>1, LenProperties
<1> HIDE DEF n
<1> QED BY <1>1, <1>2 DEF ToSet

-----------------------------------------------------------------------------
(* The invariant of the depths *)

LEMMA ChainsBegin == Init => ChainInv
<1> SUFFICES ASSUME Init PROVE ChainInv
    OBVIOUS
<1>1. PICK taken \in SUBSET Seeds : \E order \in SetToSeqs(taken) :
        /\ queue = Items(<<site.home>>, 0) \o Items(order, Unknown)
        /\ seen = {site.home} \cup taken
        /\ graph = [pages |-> {}, edges |-> [u \in Url |-> {}],
                    inbound |-> [u \in Url |-> 0], depth |-> [u \in Url |-> Unknown],
                    checked |-> [u \in Url |-> "unasked"], truncated |-> taken # Seeds]
  BY DEF Init
<1>2. PICK order \in SetToSeqs(taken) : queue = Items(<<site.home>>, 0) \o Items(order, Unknown)
  BY <1>1
<1>3. /\ site \in Sites /\ site.home \in Url /\ Seeds \subseteq Url /\ flight = {} /\ cut = {}
      /\ site.home \in seen
  BY <1>1, SiteFacts DEF Seeds, Init
<1>4. IsFiniteSet(Url) /\ Cardinality(Url) \in Nat \ {0}
  BY <1>3, LinkAssumption, FS_CardinalityType, FS_EmptySet DEF LinkAssumption
<1> DEFINE home == [url |-> site.home, depth |-> 0]
           first == Items(<<site.home>>, 0)
<1>5. first \in Seq(Item) /\ ToSet(first) = {home}
  <2>1. first = [i \in 1 .. 1 |-> home]
    BY DEF Items
  <2>2. first \in [1 .. 1 -> Item] /\ DOMAIN first = 1 .. 1 /\ \A i \in 1 .. 1 : first[i] = home
    BY <2>1, <1>3 DEF Item
  <2> HIDE DEF first, home
  <2>3. ToSet(first) = {home}
    BY <2>2 DEF ToSet
  <2>4. first \in Seq(Item)
    BY <2>2
  <2> QED BY <2>3, <2>4
<1>6. Led(home)
  <2> DEFINE c == <<site.home>>
  <2>1. /\ c \in Seq(Url) /\ Len(c) = 1 /\ c[1] = site.home /\ DOMAIN c = 1 .. 1
    BY <1>3
  <2>2. c \in Chains(site)[0]
    BY ChainsStep
  <2> HIDE DEF c
  <2>3. Way(site, c, site.home, 0, seen)
    BY <1>3, <2>1, <2>2 DEF Way, Last, ToSet
  <2> QED BY <1>4, <2>3 DEF Led
<1>7. \A item \in ToSet(queue) : item = home \/ item.depth = Unknown
  <2> HIDE DEF first, home
  <2>1. \A item \in ToSet(first \o Items(order, Unknown)) : item \in ToSet(first) \/ (item.url \in taken /\ item.depth = Unknown)
    BY <1>3, <1>5, ItemsGrow DEF Unknown
  <2> QED BY <1>2, <1>5, <2>1 DEF first
<1>8. \A item \in ToSet(queue) : Led(item)
  <2> HIDE DEF home
  <2>1. \A item : item.depth = Unknown => Led(item)
    BY DEF Led
  <2> QED BY <1>6, <1>7, <2>1
<1>9. \A u \in Url : DepthShown(graph.depth[u], u)
  BY <1>1 DEF DepthShown
<1> QED BY <1>3, <1>8, <1>9 DEF ChainInv

\* A step that settles nothing: items only move.
LEMMA MoveKeepsChains ==
  ASSUME IInv, ChainInv, site' = site, seen' = seen, cut' = cut, graph'.depth = graph.depth,
         flight' \cup ToSet(queue)' \subseteq flight \cup ToSet(queue),
         \A item \in flight' : item \in flight \/ item.url \notin site.blocked
  PROVE  ChainInv'
<1>1. ASSUME NEW item, Led(item) PROVE Led(item)'
  BY <1>1 DEF Led
<1>2. ASSUME NEW u \in Url PROVE DepthShown(graph.depth[u], u)'
  BY DEF ChainInv, DepthShown
<1>3. \A item \in (flight \cup ToSet(queue))' : Led(item)'
  BY <1>1 DEF ChainInv
<1>4. \A u \in cut' : \E d \in MaxDepth .. Cardinality(Url) : Within(site', d, u)
  BY DEF ChainInv
<1> QED BY <1>2, <1>3, <1>4 DEF ChainInv

LEMMA SettleKeepsChains == ASSUME IInv, ChainInv, NEW item \in flight, Settle(item) PROVE ChainInv'
<1> DEFINE page   == Key(site, item.url)
           links  == LinksOf(site, item.url)
           new    == Followable(site, links) \ seen
           follow == IF WithinDepth(item.depth) THEN new ELSE {}
           N == Cardinality(Url)
<1>1. /\ site' = site /\ flight' = flight \ {item} /\ seen' = seen \cup follow
      /\ cut' = cut \cup (new \ follow)
      /\ graph' = [graph EXCEPT
                     !.pages = @ \cup {page},
                     !.edges[page] = links,
                     !.inbound = [u \in Url |-> @[u] + Counted(site, links, u)],
                     !.depth = Depths(page, item.depth, links),
                     !.checked[page] = CrawledClass(AnswerOf(site, page))]
      /\ \E order \in SetToSeqs(follow) : queue' = queue \o Items(order, NextLevel(item.depth))
  BY DEF Settle
<1>2. /\ site \in Sites /\ queue \in Seq(Item) /\ item.url \in Url /\ item.depth \in Int /\ page \in Url
      /\ links \in SUBSET Link /\ graph \in Graph /\ graph.depth \in [Url -> Int]
  BY SiteFacts DEF IInv, TypeOK, Item, Graph
<1>3. /\ new \subseteq Url /\ new \subseteq Targets(links) /\ follow \subseteq new
  BY <1>2, TargetsAreUrls DEF Followable
<1>4. N \in Nat /\ MaxDepth \in Nat
  BY LinkAssumption, FS_CardinalityType DEF LinkAssumption
<1>5. graph'.depth = Depths(page, item.depth, links)
  BY <1>1, <1>2 DEF Graph
<1>6. Led(item) /\ item.url \notin site.blocked
  BY DEF ChainInv
<1> HIDE DEF page, follow
<1>7. ASSUME NEW other, Led(other) PROVE Led(other)'
  <2> SUFFICES ASSUME other.depth # Unknown
               PROVE  other.depth \in 0 .. N - 1 /\ \E c : Way(site, c, other.url, other.depth, seen')
      BY <1>1 DEF Led
  <2>1. PICK c : Way(site, c, other.url, other.depth, seen)
    BY <1>7 DEF Led
  <2>2. seen \subseteq seen'
    BY <1>1
  <2>3. Way(site, c, other.url, other.depth, seen')
    BY <2>1, <2>2, WayStays
  <2> QED BY <1>7, <2>3 DEF Led
<1>8. ASSUME item.depth # Unknown
      PROVE  /\ item.depth \in 0 .. N - 1
             /\ Within(site, item.depth, page)
             /\ \A u \in Targets(links) : Within(site, item.depth + 1, u)
             /\ \A u \in new : /\ item.depth + 1 \in 0 .. N - 1
                               /\ \E c : Way(site, c, u, item.depth + 1, seen \cup {u})
  <2>1. item.depth \in 0 .. N - 1
    BY <1>6, <1>8 DEF Led
  <2>2. PICK c : Way(site, c, item.url, item.depth, seen)
    BY <1>6, <1>8 DEF Led
  <2>3. item.depth \in Nat
    BY <2>1, <1>4
  <2>4. Within(site, item.depth, page) /\ \A u \in Targets(links) : Within(site, item.depth + 1, u)
    BY <1>6, <2>2, <2>3, WayShows DEF page
  <2>5. ASSUME NEW u \in new
        PROVE  item.depth + 1 \in 0 .. N - 1 /\ Way(site, Append(c, u), u, item.depth + 1, seen \cup {u})
    <3>1. u \in Url /\ u \in Targets(LinksOf(site, item.url)) /\ u \notin seen
      BY <1>3
    <3>2. u \notin ToSet(c)
      BY <2>2, <3>1 DEF Way
    <3> HIDE DEF new, links
    <3> QED BY <1>2, <1>6, <2>1, <2>2, <3>1, <3>2, WayGrows
  <2> HIDE DEF new, N, links
  <2> QED BY <2>1, <2>4, <2>5
<1>9. \A other \in (flight \cup ToSet(queue))' : Led(other)'
  <2>1. PICK order \in SetToSeqs(follow) : queue' = queue \o Items(order, NextLevel(item.depth))
    BY <1>1
  <2>2. NextLevel(item.depth) \in Int
    BY <1>2 DEF NextLevel, Unknown
  <2>3. \A other \in ToSet(queue') : other \in ToSet(queue) \/ (other.url \in follow /\ other.depth = NextLevel(item.depth))
    BY <1>2, <1>3, <2>1, <2>2, ItemsGrow
  <2>4. ASSUME NEW other, other.url \in follow, other.depth = NextLevel(item.depth) PROVE Led(other)'
    <3> SUFFICES ASSUME other.depth # Unknown
                 PROVE  other.depth \in 0 .. N - 1 /\ \E c : Way(site, c, other.url, other.depth, seen')
        BY <1>1 DEF Led
    <3>1. item.depth # Unknown /\ other.depth = item.depth + 1
      BY <2>4 DEF NextLevel
    <3>2. other.url \in new /\ seen \cup {other.url} \subseteq seen'
      BY <1>1, <1>3, <2>4
    <3> HIDE DEF new, N
    <3>3. PICK c : Way(site, c, other.url, item.depth + 1, seen \cup {other.url})
      BY <1>8, <3>1, <3>2
    <3>4. Way(site, c, other.url, item.depth + 1, seen')
      BY <3>2, <3>3, WayStays
    <3> QED BY <1>8, <3>1, <3>2, <3>4
  <2>5. \A other \in flight' \cup ToSet(queue) : Led(other)'
    BY <1>1, <1>7 DEF ChainInv
  <2> QED BY <2>3, <2>4, <2>5
<1>10. \A u \in cut' : \E d \in MaxDepth .. N : Within(site', d, u)
  <2> SUFFICES ASSUME NEW u \in cut' PROVE \E d \in MaxDepth .. N : Within(site, d, u)
      BY <1>1
  <2>1. CASE u \in cut
    BY <2>1 DEF ChainInv
  <2>2. CASE u \in new \ follow
    <3>1. item.depth # Unknown /\ ~(item.depth + 1 < MaxDepth)
      BY <2>2 DEF follow, WithinDepth
    <3>2. u \in Targets(links)
      BY <1>3, <2>2
    <3> HIDE DEF new, links
    <3>3. item.depth \in 0 .. N - 1 /\ Within(site, item.depth + 1, u)
      BY <1>8, <3>1, <3>2
    <3>4. item.depth + 1 \in MaxDepth .. N
      BY <1>4, <3>1, <3>3
    <3> QED BY <3>3, <3>4
  <2> QED BY <1>1, <2>1, <2>2
<1>11. \A u \in Url : DepthShown(graph'.depth[u], u)
  <2> SUFFICES ASSUME NEW u \in Url PROVE DepthShown(graph'.depth[u], u)
      OBVIOUS
  <2> DEFINE own == IF u = page THEN item.depth ELSE graph.depth[u]
  <2>1. \/ graph'.depth[u] = own
        \/ item.depth # Unknown /\ u \in Targets(links) /\ graph'.depth[u] = item.depth + 1
    BY <1>2, <1>5 DEF Depths, Shorter
  <2>2. DepthShown(own, u)
    <3>1. CASE u = page
      <4> SUFFICES ASSUME item.depth # Unknown PROVE item.depth \in 0 .. N /\ Within(site, item.depth, u)
          BY <3>1 DEF DepthShown
      <4> HIDE DEF N
      <4> QED BY <1>4, <1>8, <3>1
    <3>2. CASE u # page
      BY <3>2 DEF ChainInv
    <3> QED BY <3>1, <3>2
  <2>3. CASE item.depth # Unknown /\ u \in Targets(links) /\ graph'.depth[u] = item.depth + 1
    <3> HIDE DEF links, N, new
    <3>1. item.depth \in 0 .. N - 1 /\ Within(site, item.depth + 1, u)
      BY <1>8, <2>3
    <3>2. item.depth + 1 \in 0 .. N
      BY <1>4, <3>1
    <3> QED BY <2>3, <3>1, <3>2 DEF DepthShown, N
  <2> HIDE DEF own
  <2> QED BY <2>1, <2>2, <2>3
<1>12. \A u \in Url : DepthShown(graph.depth[u], u)'
  BY <1>1, <1>11 DEF DepthShown
<1>13. \A other \in flight' : other.url \notin site'.blocked
  BY <1>1 DEF ChainInv
<1> QED BY <1>9, <1>10, <1>12, <1>13 DEF ChainInv

LEMMA StepKeepsChains == IInv /\ ChainInv /\ [Next]_vars => ChainInv'
<1> SUFFICES ASSUME IInv, ChainInv, [Next]_vars PROVE ChainInv'
    OBVIOUS
<1>0. queue \in Seq(Item) /\ graph \in Graph
  BY DEF IInv, TypeOK
<1>1. CASE TurnAway \/ SkipBlocked
  <2>1. queue # <<>> /\ queue' = Tail(queue) /\ flight' = flight
    BY <1>1 DEF TurnAway, SkipBlocked, Free
  <2>2. ToSet(queue)' \subseteq ToSet(queue)
    BY <1>0, <2>1, ItemsShrink
  <2>3. site' = site /\ seen' = seen /\ cut' = cut /\ graph'.depth = graph.depth
    BY <1>0, <1>1 DEF TurnAway, SkipBlocked, Graph
  <2> QED BY <2>1, <2>2, <2>3, MoveKeepsChains
<1>2. CASE Fetch
  <2>1. /\ queue # <<>> /\ queue' = Tail(queue) /\ flight' = flight \cup {Head(queue)}
        /\ Head(queue).url \notin site.blocked
        /\ site' = site /\ seen' = seen /\ cut' = cut /\ graph' = graph
    BY <1>2 DEF Fetch, Free
  <2>2. ToSet(queue)' \subseteq ToSet(queue) /\ Head(queue) \in ToSet(queue)
    BY <1>0, <2>1, ItemsShrink
  <2> QED BY <2>1, <2>2, MoveKeepsChains
<1>3. ASSUME NEW item \in flight, Settle(item) PROVE ChainInv'
  BY <1>3, SettleKeepsChains
<1>4. CASE Join \/ CheckLinks \/ Analyse \/ UNCHANGED vars
  <2>1. /\ site' = site /\ seen' = seen /\ cut' = cut /\ flight' = flight /\ queue' = queue
        /\ graph'.depth = graph.depth
    BY <1>0, <1>4 DEF Join, CheckLinks, Analyse, vars, Graph
  <2> QED BY <2>1, MoveKeepsChains
<1> QED BY <1>1, <1>2, <1>3, <1>4 DEF Next, Work, Done

LEMMA DepthInvariant == Spec => []ChainInv
<1>1. Init => ChainInv
  BY ChainsBegin
<1>2. IInv /\ ChainInv /\ [Next]_vars => ChainInv'
  BY StepKeepsChains
<1> QED BY <1>1, <1>2, Invariant, PTL DEF Spec

\* The depths of pages, and the links left out for theirs, are what the crawl says of them,
\* whatever the order of the fetches.
THEOREM DepthsHaveChains == Spec => []DepthsAreChains
<1>1. IInv /\ ChainInv => DepthsAreChains
  BY DEF IInv, TypeOK, Graph, ChainInv, DepthsAreChains, DepthShown
<1> QED BY <1>1, Invariant, DepthInvariant, PTL

-----------------------------------------------------------------------------
(* What there is to request *)

\* Induction up to a bound.
LEMMA StepsUpTo ==
  ASSUME NEW N \in Nat, NEW G, 0 \in G, \A n \in 0 .. N - 1 : n \in G => n + 1 \in G
  PROVE  0 .. N \subseteq G
<1> DEFINE H == {n \in Nat : n <= N => n \in G}
<1>1. 0 \in H
  OBVIOUS
<1>2. \A n \in Nat : n \in H => n + 1 \in H
  OBVIOUS
<1>3. Nat \subseteq H
  <2> HIDE DEF H
  <2> QED BY <1>1, <1>2, NatSteps
<1> QED BY <1>3

LEMMA RequestedSteps ==
  ASSUME NEW s
  PROVE  /\ RequestedIn(s)[0] = Entrances(s)
         /\ \A n \in 1 .. Cardinality(Url) : RequestedIn(s)[n] = Reach(s, RequestedIn(s)[n - 1])
<1> DEFINE N == Cardinality(Url)
           Step(g, n) == IF n = 0 THEN Entrances(s) ELSE Reach(s, g[n - 1])
           Is(g, m) == g = [n \in 0 .. m |-> Step(g, n)]
           M == {m \in Nat : \E g : Is(g, m)}
<1>1. N \in Nat
  BY LinkAssumption, FS_CardinalityType DEF LinkAssumption
<1>2. 0 \in M
  <2> DEFINE g == [n \in 0 .. 0 |-> Entrances(s)]
  <2>1. Is(g, 0)
    OBVIOUS
  <2> HIDE DEF g, Is
  <2> QED BY <2>1
<1>3. ASSUME NEW m \in Nat, m \in M PROVE m + 1 \in M
  <2>1. PICK g : Is(g, m)
    BY <1>3
  <2> DEFINE h == [n \in 0 .. m + 1 |-> IF n <= m THEN g[n] ELSE Step(g, n)]
  <2>2. \A n \in 0 .. m : g[n] = Step(g, n)
    BY <2>1
  <2>3. \A n \in 0 .. m + 1 : Step(h, n) = Step(g, n)
    OBVIOUS
  <2>4. \A n \in 0 .. m + 1 : h[n] = Step(g, n)
    <3> HIDE DEF Step
    <3> QED BY <2>2
  <2>5. h = [n \in 0 .. m + 1 |-> h[n]]
    OBVIOUS
  <2>6. Is(h, m + 1)
    <3> HIDE DEF h, Step
    <3> QED BY <2>3, <2>4, <2>5
  <2> HIDE DEF h, Is
  <2> QED BY <2>6
<1>4. \E g : Is(g, N)
  <2> HIDE DEF M
  <2>1. N \in M
    BY <1>1, <1>2, <1>3, NatSteps
  <2> QED BY <2>1 DEF M
<1>5. RequestedIn(s) = (CHOOSE g : Is(g, N))
  BY DEF RequestedIn
<1>6. Is(RequestedIn(s), N)
  <2> HIDE DEF Is
  <2> QED BY <1>4, <1>5, Zenon
<1> HIDE DEF Step
<1>7. \A n \in 0 .. N : RequestedIn(s)[n] = Step(RequestedIn(s), n)
  BY <1>6
<1> QED BY <1>1, <1>7 DEF Step

\* What is requested: the least set of allowed URLs that holds the entrances and all to which
\* its members lead.  There are steps enough to close it.
LEMMA RequestedIsLeast ==
  ASSUME NEW s \in Sites
  PROVE  /\ Requested(s) \subseteq Url \ s.blocked
         /\ Entrances(s) \subseteq Requested(s)
         /\ \A u \in Requested(s) : Followable(s, LinksOf(s, u)) \subseteq Requested(s)
         /\ \A K : /\ Entrances(s) \subseteq K
                   /\ \A u \in K : Followable(s, LinksOf(s, u)) \subseteq K
                   => Requested(s) \subseteq K
<1> DEFINE N == Cardinality(Url)
           X(n) == RequestedIn(s)[n]
           Closed(S) == \A u \in S : Followable(s, LinksOf(s, u)) \subseteq S
<1>1. IsFiniteSet(Url) /\ N \in Nat
  BY LinkAssumption, FS_CardinalityType DEF LinkAssumption
<1>2. X(0) = Entrances(s) /\ \A n \in 0 .. N - 1 : X(n + 1) = Reach(s, X(n))
  <2>1. \A n \in 0 .. N - 1 : n + 1 \in 1 .. N /\ (n + 1) - 1 = n
    BY <1>1
  <2> QED BY <2>1, RequestedSteps
<1>3. Requested(s) = X(N)
  BY DEF Requested
<1>4. Entrances(s) \subseteq Url \ s.blocked
  BY SiteFacts DEF Entrances
<1>5. \A u \in Url : Followable(s, LinksOf(s, u)) \subseteq Url \ s.blocked
  <2> SUFFICES ASSUME NEW u \in Url PROVE Followable(s, LinksOf(s, u)) \subseteq Url \ s.blocked
      OBVIOUS
  <2>1. LinksOf(s, u) \in SUBSET Link /\ \A l \in LinksOf(s, u) : l.to \notin s.blocked
    BY SiteFacts DEF LinksOf
  <2>2. Followable(s, LinksOf(s, u)) \subseteq Url
    BY <2>1, TargetsAreUrls
  <2> QED BY <2>1, <2>2 DEF Followable, Targets
<1> HIDE DEF N, X
<1>6. 0 .. N \subseteq {n \in 0 .. N : X(n) \subseteq Url \ s.blocked /\ Entrances(s) \subseteq X(n)}
  <2> DEFINE G == {n \in 0 .. N : X(n) \subseteq Url \ s.blocked /\ Entrances(s) \subseteq X(n)}
  <2>1. 0 \in G
    BY <1>1, <1>2, <1>4
  <2>2. ASSUME NEW n \in 0 .. N - 1, n \in G PROVE n + 1 \in G
    <3>1. X(n + 1) = Reach(s, X(n)) /\ n + 1 \in 0 .. N
      BY <1>1, <1>2
    <3>2. X(n + 1) \subseteq Url \ s.blocked
      BY <1>5, <2>2, <3>1 DEF Reach
    <3>3. Entrances(s) \subseteq X(n + 1)
      BY <2>2, <3>1 DEF Reach
    <3> QED BY <3>1, <3>2, <3>3
  <2> HIDE DEF G
  <2>3. 0 .. N \subseteq G
    BY <1>1, <2>1, <2>2, StepsUpTo
  <2> QED BY <2>3 DEF G
<1>7. N \in 0 .. N
  BY <1>1
<1>8. ASSUME NEW K, Entrances(s) \subseteq K, \A u \in K : Followable(s, LinksOf(s, u)) \subseteq K
      PROVE  X(N) \subseteq K
  <2> DEFINE G == {n \in 0 .. N : X(n) \subseteq K}
  <2>1. 0 \in G
    BY <1>1, <1>2, <1>8
  <2>2. ASSUME NEW n \in 0 .. N - 1, n \in G PROVE n + 1 \in G
    <3>1. X(n + 1) = Reach(s, X(n)) /\ n + 1 \in 0 .. N
      BY <1>1, <1>2
    <3>2. X(n + 1) \subseteq K
      BY <1>8, <2>2, <3>1 DEF Reach
    <3> QED BY <3>1, <3>2
  <2> HIDE DEF G
  <2>3. 0 .. N \subseteq G
    BY <1>1, <2>1, <2>2, StepsUpTo
  <2> QED BY <1>7, <2>3 DEF G
<1>9. Closed(X(N))
  <2>1. \A n \in 0 .. N : X(n) \subseteq Url /\ IsFiniteSet(X(n)) /\ Cardinality(X(n)) \in Nat
    <3>1. \A n \in 0 .. N : X(n) \subseteq Url
      BY <1>6
    <3> QED BY <1>1, <3>1, FS_Subset, FS_CardinalityType
  <2> DEFINE G == {n \in 0 .. N : Closed(X(n)) \/ Cardinality(X(n)) >= n}
  <2>2. 0 \in G
    BY <1>1, <2>1
  <2>3. ASSUME NEW n \in 0 .. N - 1, n \in G PROVE n + 1 \in G
    <3>1. /\ X(n + 1) = Reach(s, X(n)) /\ n + 1 \in 0 .. N /\ n \in 0 .. N /\ n \in Nat
      BY <1>1, <1>2
    <3>2. CASE Closed(X(n))
      <4>1. X(n + 1) = X(n)
        BY <3>1, <3>2 DEF Reach
      <4> QED BY <3>1, <3>2, <4>1
    <3>3. CASE ~Closed(X(n))
      <4>1. Cardinality(X(n)) >= n
        BY <2>3, <3>3
      <4>2. X(n) \subseteq X(n + 1)
        BY <3>1 DEF Reach
      <4>3. X(n) # X(n + 1)
        BY <3>1, <3>3 DEF Reach
      <4> DEFINE A == X(n)  B == X(n + 1)
      <4>4. /\ IsFiniteSet(B) /\ A \subseteq B /\ A # B /\ Cardinality(A) \in Nat /\ Cardinality(B) \in Nat
        BY <2>1, <3>1, <4>2, <4>3
      <4> HIDE DEF A, B
      <4>5. Cardinality(A) <= Cardinality(B) /\ (Cardinality(A) = Cardinality(B) => A = B)
        BY <4>4, FS_Subset
      <4>6. Cardinality(B) >= Cardinality(A) + 1
        BY <4>4, <4>5
      <4>7. Cardinality(B) >= n + 1
        BY <4>1, <4>4, <4>6, <3>1 DEF A
      <4> QED BY <4>7, <3>1 DEF B
    <3> QED BY <3>2, <3>3
  <2> HIDE DEF G
  <2>4. N \in G
    BY <1>1, <1>7, <2>2, <2>3, StepsUpTo
  <2>5. Closed(X(N)) \/ Cardinality(X(N)) >= N
    BY <2>4 DEF G
  <2>6. CASE Cardinality(X(N)) >= N
    <3> DEFINE A == X(N)
    <3>1. A \subseteq Url /\ Cardinality(A) \in Nat
      BY <1>7, <2>1
    <3> HIDE DEF A
    <3>2. Cardinality(A) <= N /\ (Cardinality(A) = N => A = Url)
      BY <1>1, <3>1, FS_Subset DEF N
    <3>3. A = Url
      BY <1>1, <2>6, <3>1, <3>2 DEF A
    <3> QED BY <1>5, <3>3 DEF A
  <2> QED BY <2>5, <2>6
<1> QED BY <1>3, <1>6, <1>7, <1>8, <1>9

-----------------------------------------------------------------------------
(* What the graph and the report say of the site *)

\* A page is what its URL was: it answers as it did, and has the same links.
LEMMA KeyFacts ==
  ASSUME NEW s \in Sites, NEW u \in Url
  PROVE  /\ Key(s, u) \in Url /\ AnswerOf(s, Key(s, u)) = AnswerOf(s, u)
         /\ LinksOf(s, Key(s, u)) = LinksOf(s, u)
<1>1. s.final \in [Url -> Url] /\ s.final[s.final[u]] = s.final[u] /\ Key(s, u) \in Url
  BY SiteFacts, LinkAssumption DEF LinkAssumption
<1>2. s.final[Key(s, u)] = s.final[u]
  BY <1>1 DEF Key
<1> QED BY <1>1, <1>2 DEF AnswerOf, LinksOf

\* The pages drawn that link to a URL.
Linking(u) == {p \in graph.pages : u \in Targets(LinksOf(site, p))}

\* What is known of a URL is what it answers, to the crawler for pages, or to the checker.
ClassInv ==
  \A u \in Url : \/ graph.checked[u] = "unasked"
                 \/ u \in graph.pages /\ graph.checked[u] = CrawledClass(AnswerOf(site, u))
                 \/ graph.checked[u] = CheckedClass(AnswerOf(site, u))

\* Links to a URL of the site are counted from zero, over one, to many.
InboundInv ==
  \A u \in Url :
    /\ OnSite(site, u) /\ graph.inbound[u] = 0 => Linking(u) = {}
    /\ graph.inbound[u] # 0 => OnSite(site, u) /\ Linking(u) # {}
    /\ OnSite(site, u) /\ graph.inbound[u] = 1 => \A p, q \in Linking(u) : p = q

\* Nothing is crawled but what there is to request, and pages have the links of the site.
TruthInv ==
  /\ seen \ site.blocked \subseteq Requested(site)
  /\ \A p \in graph.pages : \E r \in Requested(site) : p = Key(site, r)
  /\ \A p \in graph.pages : graph.edges[p] = LinksOf(site, p)
  /\ ClassInv
  /\ InboundInv
  /\ phase # "done" => report.findings = {}
  /\ phase = "done" => \E home \in SUBSET Url : report.findings = Findings(site, graph, home)

LEMMA TruthBegins == Init => TruthInv
<1> SUFFICES ASSUME Init PROVE TruthInv
    OBVIOUS
<1>1. PICK taken \in SUBSET Seeds :
        /\ seen = {site.home} \cup taken
        /\ graph = [pages |-> {}, edges |-> [u \in Url |-> {}],
                    inbound |-> [u \in Url |-> 0], depth |-> [u \in Url |-> Unknown],
                    checked |-> [u \in Url |-> "unasked"], truncated |-> taken # Seeds]
  BY DEF Init
<1>2. site \in Sites /\ phase = "crawl" /\ report.findings = {}
  BY DEF Init, NoReport
<1>3. seen \ site.blocked \subseteq Requested(site)
  BY <1>1, <1>2, RequestedIsLeast DEF Entrances, Seeds
<1>4. ClassInv /\ InboundInv
  BY <1>1 DEF ClassInv, InboundInv, Linking
<1> QED BY <1>1, <1>2, <1>3, <1>4 DEF TruthInv

\* A step that neither settles nor checks nor reports.
LEMMA MoveKeepsTruth ==
  ASSUME TruthInv, site' = site, seen' = seen, report' = report, phase # "done", phase' # "done",
         graph'.pages = graph.pages, graph'.edges = graph.edges, graph'.inbound = graph.inbound,
         graph'.checked = graph.checked
  PROVE  TruthInv'
BY DEF TruthInv, ClassInv, InboundInv, Linking

LEMMA SettleKeepsTruth ==
  ASSUME IInv, ChainInv, TruthInv, phase = "crawl", NEW item \in flight, Settle(item)
  PROVE  TruthInv'
<1> DEFINE page   == Key(site, item.url)
           links  == LinksOf(site, item.url)
           new    == Followable(site, links) \ seen
           follow == IF WithinDepth(item.depth) THEN new ELSE {}
           count(u) == Counted(site, links, u)
<1>1. /\ site' = site /\ seen' = seen \cup follow /\ phase' = phase /\ report' = report
      /\ graph' = [graph EXCEPT
                     !.pages = @ \cup {page},
                     !.edges[page] = links,
                     !.inbound = [u \in Url |-> @[u] + count(u)],
                     !.depth = Depths(page, item.depth, links),
                     !.checked[page] = CrawledClass(AnswerOf(site, page))]
  BY DEF Settle
<1>2. /\ site \in Sites /\ item.url \in Url /\ graph \in Graph
      /\ graph.edges \in [Url -> SUBSET Link] /\ graph.inbound \in [Url -> Nat] /\ graph.checked \in [Url -> Class]
  BY DEF IInv, TypeOK, Item, Graph
<1>3. /\ page \in Url /\ links \in SUBSET Link /\ LinksOf(site, page) = links
      /\ \A u \in Url : count(u) \in Nat
  BY <1>2, SiteFacts, KeyFacts, CountedIsNat
<1>4. item.url \in Requested(site)
  <2>1. item.url \in seen
    BY DEF IInv, PlacesInv, Fetching
  <2> QED BY <2>1 DEF ChainInv, TruthInv
<1>5. follow \subseteq Requested(site)
  BY <1>2, <1>4, RequestedIsLeast
<1> HIDE DEF page, links, follow
<1>6. /\ graph'.pages = graph.pages \cup {page}
      /\ graph'.edges = [graph.edges EXCEPT ![page] = links]
      /\ graph'.inbound = [u \in Url |-> graph.inbound[u] + count(u)]
      /\ graph'.checked = [graph.checked EXCEPT ![page] = CrawledClass(AnswerOf(site, page))]
  BY <1>1, <1>2 DEF Graph
<1>7. seen' \ site.blocked \subseteq Requested(site)
  BY <1>1, <1>5 DEF TruthInv
<1>8. \A p \in graph'.pages : \E r \in Requested(site) : p = Key(site, r)
  BY <1>4, <1>6 DEF TruthInv, page
<1>9. \A p \in graph'.pages : graph'.edges[p] = LinksOf(site, p)
  BY <1>2, <1>3, <1>6 DEF TruthInv
<1>10. ClassInv'
  <2> SUFFICES ASSUME NEW u \in Url
               PROVE  \/ graph'.checked[u] = "unasked"
                      \/ u \in graph'.pages /\ graph'.checked[u] = CrawledClass(AnswerOf(site, u))
                      \/ graph'.checked[u] = CheckedClass(AnswerOf(site, u))
      BY <1>1 DEF ClassInv
  <2>1. CASE u = page
    BY <1>2, <1>6, <2>1
  <2>2. CASE u # page
    <3>1. graph'.checked[u] = graph.checked[u] /\ (u \in graph.pages => u \in graph'.pages)
      BY <1>2, <1>6, <2>2
    <3> QED BY <3>1 DEF ClassInv, TruthInv
  <2> QED BY <2>1, <2>2
<1>11. InboundInv'
  <2> SUFFICES ASSUME NEW u \in Url
               PROVE  /\ OnSite(site, u) /\ graph'.inbound[u] = 0 => Linking(u)' = {}
                      /\ graph'.inbound[u] # 0 => OnSite(site, u) /\ Linking(u)' # {}
                      /\ OnSite(site, u) /\ graph'.inbound[u] = 1 => \A p, q \in Linking(u)' : p = q
      BY <1>1 DEF InboundInv
  <2>1. Linking(u)' = Linking(u) \cup (IF u \in Targets(links) THEN {page} ELSE {})
    BY <1>1, <1>3, <1>6 DEF Linking
  <2>2. graph'.inbound[u] = graph.inbound[u] + count(u) /\ count(u) \in Nat /\ graph.inbound[u] \in Nat
    BY <1>2, <1>3, <1>6
  <2>3. /\ count(u) # 0 => OnSite(site, u) /\ u \in Targets(links)
        /\ OnSite(site, u) /\ count(u) = 0 => u \notin Targets(links)
    <3> DEFINE L == {l \in links : l.to = u}
    <3>1. IsFiniteSet(L) /\ (Cardinality(L) = 0 <=> L = {})
      BY <1>3, LinksAreFinite, FS_Subset, FS_EmptySet
    <3>2. L = {} <=> u \notin Targets(links)
      BY DEF Targets
    <3>3. count(u) = IF OnSite(site, u) THEN Cardinality(L) ELSE 0
      BY DEF Counted
    <3> HIDE DEF L, count
    <3> QED BY <3>1, <3>2, <3>3
  <2>4. /\ OnSite(site, u) /\ graph.inbound[u] = 0 => Linking(u) = {}
        /\ graph.inbound[u] # 0 => OnSite(site, u) /\ Linking(u) # {}
        /\ OnSite(site, u) /\ graph.inbound[u] = 1 => \A p, q \in Linking(u) : p = q
    BY DEF TruthInv, InboundInv
  <2> HIDE DEF count
  <2>5. OnSite(site, u) /\ graph'.inbound[u] = 0 => Linking(u)' = {}
    BY <2>1, <2>2, <2>3, <2>4
  <2>6. graph'.inbound[u] # 0 => OnSite(site, u) /\ Linking(u)' # {}
    BY <2>1, <2>2, <2>3, <2>4
  <2>7. ASSUME OnSite(site, u), graph'.inbound[u] = 1 PROVE \A p, q \in Linking(u)' : p = q
    <3>1. \/ graph.inbound[u] = 1 /\ count(u) = 0
          \/ graph.inbound[u] = 0 /\ count(u) = 1
      BY <2>2, <2>7
    <3>2. CASE graph.inbound[u] = 1 /\ count(u) = 0
      BY <2>1, <2>3, <2>4, <2>7, <3>2
    <3>3. CASE graph.inbound[u] = 0 /\ count(u) = 1
      BY <2>1, <2>4, <2>7, <3>3
    <3> QED BY <3>1, <3>2, <3>3
  <2> QED BY <2>5, <2>6, <2>7
<1>12. phase' # "done" /\ report'.findings = {}
  BY <1>1 DEF TruthInv
<1> QED BY <1>1, <1>7, <1>8, <1>9, <1>10, <1>11, <1>12 DEF TruthInv

LEMMA StepKeepsTruth == IInv /\ ChainInv /\ TruthInv /\ [Next]_vars => TruthInv'
<1> SUFFICES ASSUME IInv, ChainInv, TruthInv, [Next]_vars PROVE TruthInv'
    OBVIOUS
<1>0. graph \in Graph /\ phase \in {"crawl", "check", "analyse", "done"}
  BY DEF IInv, TypeOK
<1>1. CASE TurnAway \/ SkipBlocked \/ Fetch \/ Join
  <2>1. /\ site' = site /\ seen' = seen /\ report' = report /\ phase = "crawl" /\ phase' # "done"
        /\ graph' = graph \/ graph' = [graph EXCEPT !.truncated = TRUE]
    BY <1>1 DEF TurnAway, SkipBlocked, Fetch, Join, Free
  <2>2. /\ graph'.pages = graph.pages /\ graph'.edges = graph.edges /\ graph'.inbound = graph.inbound
        /\ graph'.checked = graph.checked
    BY <1>0, <2>1 DEF Graph
  <2> QED BY <2>1, <2>2, MoveKeepsTruth
<1>2. ASSUME NEW item \in flight, Settle(item) PROVE TruthInv'
  <2>1. phase = "crawl"
    BY <1>2 DEF IInv, ClosedInv
  <2> QED BY <1>2, <2>1, SettleKeepsTruth
<1>3. CASE CheckLinks
  <2>1. PICK asked : graph' = [graph EXCEPT !.checked =
                       [u \in Url |-> IF u \in asked THEN CheckedClass(AnswerOf(site, u)) ELSE @[u]]]
    BY <1>3 DEF CheckLinks
  <2>2. /\ graph'.pages = graph.pages /\ graph'.edges = graph.edges /\ graph'.inbound = graph.inbound
        /\ graph'.checked = [u \in Url |-> IF u \in asked THEN CheckedClass(AnswerOf(site, u)) ELSE graph.checked[u]]
    BY <1>0, <2>1 DEF Graph
  <2>3. site' = site /\ seen' = seen /\ report' = report /\ phase # "done" /\ phase' # "done"
    BY <1>3 DEF CheckLinks
  <2>4. ClassInv'
    BY <2>2, <2>3 DEF TruthInv, ClassInv
  <2>5. InboundInv'
    BY <2>2, <2>3 DEF TruthInv, InboundInv, Linking
  <2> QED BY <2>2, <2>3, <2>4, <2>5 DEF TruthInv
<1>4. CASE Analyse
  <2>1. /\ site' = site /\ seen' = seen /\ graph' = graph /\ phase' = "done"
        /\ \E h1, h2 \in HomeChoices : \E findings \in {Findings(site, graph, h1)} : report'.findings = findings
    BY <1>4 DEF Analyse
  <2>2. HomeChoices \subseteq SUBSET Url
    BY <1>0 DEF HomeChoices, HomeCandidates, Graph
  <2>3. \E home \in SUBSET Url : report'.findings = Findings(site, graph, home)
    <3> HIDE DEF Findings, HomeChoices
    <3> QED BY <2>1, <2>2
  <2> HIDE DEF Findings
  <2>4. ClassInv' /\ InboundInv'
    BY <2>1 DEF TruthInv, ClassInv, InboundInv, Linking
  <2> QED BY <2>1, <2>3, <2>4 DEF TruthInv
<1>5. CASE UNCHANGED vars
  BY <1>5 DEF vars, TruthInv, ClassInv, InboundInv, Linking
<1> QED BY <1>1, <1>2, <1>3, <1>4, <1>5 DEF Next, Work, Done

LEMMA TruthInvariant == Spec => []TruthInv
<1>1. Init => TruthInv
  BY TruthBegins
<1>2. IInv /\ ChainInv /\ TruthInv /\ [Next]_vars => TruthInv'
  BY StepKeepsTruth
<1> QED BY <1>1, <1>2, Invariant, DepthInvariant, PTL DEF Spec

\* The pages there are to crawl, and those of them that link to a URL.
PagesOf(s) == {Key(s, r) : r \in Requested(s)}
LinkingTo(s, u) == {p \in PagesOf(s) : u \in Targets(LinksOf(s, p))}

\* What an analysis knows when it is done.
Known == IInv /\ ChainInv /\ TruthInv /\ phase = "done"

\* The sources that the graph shows are the fetched pages with such a link, all of the site.
LEMMA SourcesAreTrue ==
  ASSUME Known
  PROVE  /\ graph.pages \subseteq PagesOf(site)
         /\ \A u : Sources(graph, u) = Linking(u) /\ Linking(u) \subseteq LinkingTo(site, u)
BY DEF Known, TruthInv, PagesOf, LinkingTo, Linking, Sources

Linkwise == {"broken_internal", "broken_external", "redirect_internal", "redirect_external"}
Pagewise == {"sitemap_url_error", "orphan", "weakly_linked_page", "deep_page", "dead_end_page", "excessive_outlinks"}

\* What every finding of a type has to say of its sources.
SourcesTold(f) ==
  /\ f.sources = {p \in graph.pages : f.target \in Targets(Alleged(site, f.type, p))}
  /\ Linking(f.target) \subseteq LinkingTo(site, f.target)

LEMMA LinkwiseSources ==
  ASSUME Known, NEW f, f.type \in Linkwise, f.sources = Sources(graph, f.target)
  PROVE  SourcesTold(f)
<1>1. \A p : Alleged(site, f.type, p) = LinksOf(site, p)
  BY DEF Alleged, Linkwise
<1>2. f.sources = Linking(f.target) /\ Linking(f.target) \subseteq LinkingTo(site, f.target)
  BY SourcesAreTrue
<1> QED BY <1>1, <1>2 DEF SourcesTold, Linking

LEMMA PagewiseSources ==
  ASSUME Known, NEW f, f.type \in Pagewise, f.sources = {}
  PROVE  SourcesTold(f)
<1>1. \A p : Targets(Alleged(site, f.type, p)) = {}
  BY DEF Alleged, Pagewise, Targets
<1>2. Linking(f.target) \subseteq LinkingTo(site, f.target)
  BY SourcesAreTrue
<1> QED BY <1>1, <1>2 DEF SourcesTold

\* A crawl that leaves out nothing has requested all there is, and drawn every page.
LEMMA WholeCrawl ==
  ASSUME Known, ~graph.truncated, cut = {}
  PROVE  Requested(site) \subseteq seen \ site.blocked /\ PagesOf(site) \subseteq graph.pages
<1> USE DEF Known
<1>1. site \in Sites /\ seen \subseteq Url
  BY DEF IInv, TypeOK
<1>2. Waiting = {} /\ Fetching = {}
  BY EmptySeq, LenProperties DEF IInv, ClosedInv, Waiting, Fetching, UrlsOf
<1>3. /\ site.home \in seen /\ Seeds \subseteq seen
      /\ \A u \in seen \ site.blocked : Key(site, u) \in graph.pages
      /\ \A p \in graph.pages : Followable(site, graph.edges[p]) \subseteq seen
  BY <1>2 DEF IInv, ClosedInv
<1>4. Entrances(site) \subseteq seen \ site.blocked
  BY <1>3 DEF Entrances, Seeds
<1>5. \A u \in seen \ site.blocked : Followable(site, LinksOf(site, u)) \subseteq seen \ site.blocked
  <2> SUFFICES ASSUME NEW u \in seen \ site.blocked
               PROVE  Followable(site, LinksOf(site, u)) \subseteq seen \ site.blocked
      OBVIOUS
  <2>1. graph.edges[Key(site, u)] = LinksOf(site, u)
    BY <1>1, <1>3, KeyFacts DEF TruthInv
  <2>2. Followable(site, LinksOf(site, u)) \subseteq seen
    BY <1>3, <2>1
  <2>3. Followable(site, LinksOf(site, u)) \cap site.blocked = {}
    BY DEF Followable, LinksOf, Targets
  <2> QED BY <2>2, <2>3
<1>6. Requested(site) \subseteq seen \ site.blocked
  BY <1>1, <1>4, <1>5, RequestedIsLeast
<1> QED BY <1>3, <1>6 DEF PagesOf

LEMMA StandardAreTrue ==
  ASSUME Known,
         NEW f \in BrokenInternal(site, graph) \cup BrokenExternal(site, graph) \cup Redirects(site, graph)
                     \cup SitemapErrors(site, graph)
  PROVE  FindingIsTrue(f)
<1>1. site \in Sites /\ \A u \in Url : AnswerOf(site, u) \in Answer
  BY SiteFacts DEF Known, IInv, TypeOK, AnswerOf
<1>2. \A u \in Url : graph.checked[u] = "broken" =>
        /\ AnswerOf(site, u) \in {"gone", "guarded"}
        /\ AnswerOf(site, u) = "guarded" => u \in graph.pages
  BY <1>1 DEF Known, TruthInv, ClassInv, CrawledClass, CheckedClass, Answer
<1>3. \A u \in Url : graph.checked[u] = "redirect" => AnswerOf(site, u) \in {"loop", "itself"}
  BY <1>1 DEF Known, TruthInv, ClassInv, CrawledClass, CheckedClass, Answer
<1> HIDE DEF Known
<1>4. CASE f \in BrokenInternal(site, graph)
  <2>1. PICK u \in Broken(graph) : OnSite(site, u) /\ f = Finding("broken_internal", "high", u, Sources(graph, u))
    BY <1>4 DEF BrokenInternal
  <2>2. f.type = "broken_internal" /\ f.target = u /\ f.sources = Sources(graph, u)
    BY <2>1 DEF Finding
  <2>3. SourcesTold(f)
    BY <2>2, LinkwiseSources DEF Linkwise
  <2> QED BY <1>2, <2>1, <2>2, <2>3 DEF FindingIsTrue, Broken, SourcesTold, Linking, LinkingTo, PagesOf
<1>5. CASE f \in BrokenExternal(site, graph)
  <2>1. PICK u \in Broken(graph) : ~OnSite(site, u) /\ f = Finding("broken_external", "medium", u, Sources(graph, u))
    BY <1>5 DEF BrokenExternal
  <2>2. f.type = "broken_external" /\ f.target = u /\ f.sources = Sources(graph, u)
    BY <2>1 DEF Finding
  <2>3. SourcesTold(f)
    BY <2>2, LinkwiseSources DEF Linkwise
  <2> QED BY <1>2, <2>1, <2>2, <2>3 DEF FindingIsTrue, Broken, SourcesTold, Linking, LinkingTo, PagesOf
<1>6. CASE f \in Redirects(site, graph)
  <2>1. PICK u \in Url : /\ graph.checked[u] = "redirect"
                         /\ f = Finding(IF OnSite(site, u) THEN "redirect_internal" ELSE "redirect_external",
                                        IF OneHop(site, u) THEN "low" ELSE "medium", u, Sources(graph, u))
    BY <1>6 DEF Redirects
  <2>2. /\ f.type = IF OnSite(site, u) THEN "redirect_internal" ELSE "redirect_external"
        /\ f.target = u /\ f.sources = Sources(graph, u)
    BY <2>1 DEF Finding
  <2>3. SourcesTold(f)
    BY <2>2, LinkwiseSources DEF Linkwise
  <2> QED BY <1>3, <2>1, <2>2, <2>3 DEF FindingIsTrue, SourcesTold, Linking, LinkingTo, PagesOf
<1>7. CASE f \in SitemapErrors(site, graph)
  <2>1. PICK u \in site.sitemap \cap Broken(graph) : f = Finding("sitemap_url_error", "medium", u, {})
    BY <1>7 DEF SitemapErrors
  <2>2. f.type = "sitemap_url_error" /\ f.target = u /\ f.sources = {}
    BY <2>1 DEF Finding
  <2>3. SourcesTold(f)
    BY <2>2, PagewiseSources DEF Pagewise
  <2> QED BY <1>2, <2>1, <2>2, <2>3 DEF FindingIsTrue, Broken, SourcesTold, Linking, LinkingTo, PagesOf
<1> QED BY <1>4, <1>5, <1>6, <1>7

\* The URLs that no fetched page links to, and those that one does: those of the site, if
\* the crawl is whole.
LEMMA InboundAreTrue ==
  ASSUME Known, NEW home \in SUBSET Url, NEW f \in Orphans(site, graph, home) \cup WeaklyLinked(site, graph)
  PROVE  FindingIsTrue(f)
<1>1. /\ site \in Sites /\ seen \subseteq Url /\ graph.pages \subseteq Url /\ site.sitemap \subseteq Url
  BY SiteFacts DEF Known, IInv, TypeOK, Graph
<1>2. ASSUME ~graph.truncated, cut = {}, NEW u PROVE LinkingTo(site, u) = Linking(u)
  BY <1>2, WholeCrawl, SourcesAreTrue DEF LinkingTo, Linking
<1>3. CASE f \in Orphans(site, graph, home)
  <2>1. PICK u \in OrphanUrls(site, graph, home) :
          f = Finding("orphan", IF graph.truncated THEN "low" ELSE "medium", u, {})
    BY <1>3 DEF Orphans
  <2>2. f.type = "orphan" /\ f.target = u /\ f.sources = {}
    BY <2>1 DEF Finding
  <2>3. SourcesTold(f)
    BY <2>2, PagewiseSources DEF Pagewise
  <2>4. CASE u \in graph.pages
    <3>1. graph.inbound[u] = 0
      BY <2>1, <2>4 DEF OrphanUrls
    <3>2. OnSite(site, u) => Linking(u) = {}
      BY <1>1, <2>4, <3>1 DEF Known, TruthInv, InboundInv
    <3>3. OnSite(site, u) /\ ~graph.truncated /\ cut = {} => LinkingTo(site, u) = {}
      BY <1>2, <3>2
    <3> QED BY <2>2, <2>3, <2>4, <3>2, <3>3 DEF FindingIsTrue, SourcesTold, Linking, LinkingTo, PagesOf
  <2>5. CASE u \notin graph.pages
    <3>1. u \in site.sitemap
      BY <2>1, <2>5 DEF OrphanUrls
    <3>2. ASSUME ~graph.truncated, cut = {}, u \notin site.blocked \cup site.foreign, site.final[u] = u
          PROVE  FALSE
      <4>1. Waiting = {} /\ Fetching = {}
        BY EmptySeq, LenProperties DEF Known, IInv, ClosedInv, Waiting, Fetching, UrlsOf
      <4>2. u \in seen
        BY <3>1, <3>2 DEF Known, IInv, ClosedInv, Seeds, OnSite
      <4>3. Key(site, u) \in graph.pages
        BY <3>2, <4>1, <4>2 DEF Known, IInv, ClosedInv
      <4> QED BY <2>5, <3>2, <4>3 DEF Key
    <3> QED BY <2>2, <2>3, <2>5, <3>1, <3>2 DEF FindingIsTrue, SourcesTold, Linking, LinkingTo, PagesOf
  <2> QED BY <2>4, <2>5
<1>4. CASE f \in WeaklyLinked(site, graph)
  <2>1. PICK u \in graph.pages : /\ ~graph.truncated /\ graph.inbound[u] = 1
                                 /\ f = Finding("weakly_linked_page", "low", u, {})
    BY <1>4 DEF WeaklyLinked
  <2>2. f.type = "weakly_linked_page" /\ f.target = u /\ f.sources = {}
    BY <2>1 DEF Finding
  <2>3. SourcesTold(f)
    BY <2>2, PagewiseSources DEF Pagewise
  <2>4. OnSite(site, u) /\ Linking(u) # {} /\ \A p, q \in Linking(u) : p = q
    BY <1>1, <2>1 DEF Known, TruthInv, InboundInv
  <2>5. PICK p : Linking(u) = {p}
    BY <2>4
  <2>6. Cardinality(Linking(u)) = 1
    BY <2>5, FS_Singleton
  <2>7. ~graph.truncated /\ cut = {} => Cardinality(LinkingTo(site, u)) = 1
    BY <1>2, <2>6
  <2> QED BY <2>2, <2>3, <2>6, <2>7 DEF FindingIsTrue, SourcesTold, Linking, LinkingTo, PagesOf
<1> QED BY <1>3, <1>4

\* What is said of one page and its links.
LEMMA PageFindingsAreTrue ==
  ASSUME Known,
         NEW f \in DeepPages(site, graph) \cup DeadEnds(site, graph) \cup ExcessiveOutlinks(site, graph)
  PROVE  FindingIsTrue(f)
<1>1. /\ site \in Sites /\ graph.pages \subseteq Url
      /\ \A p \in graph.pages : graph.edges[p] = LinksOf(site, p)
  BY DEF Known, IInv, TypeOK, Graph, TruthInv
<1>2. CASE f \in DeepPages(site, graph)
  <2>1. PICK u \in graph.pages : graph.depth[u] > DeepPage /\ f = Finding("deep_page", "low", u, {})
    BY <1>2 DEF DeepPages
  <2>2. f.type = "deep_page" /\ f.target = u /\ f.sources = {}
    BY <2>1 DEF Finding
  <2>3. graph.depth[u] \in Int /\ DeepPage \in Nat
    BY <1>1, ThresholdAssumption DEF Known, IInv, TypeOK, Graph
  <2>4. graph.depth[u] # Unknown
    BY <2>1, <2>3 DEF Unknown
  <2>5. graph.depth[u] \in 0 .. Cardinality(Url) /\ Within(site, graph.depth[u], u)
    BY <1>1, <2>4 DEF Known, ChainInv, DepthShown
  <2>6. Cardinality(Url) \in Nat
    BY LinkAssumption, FS_CardinalityType DEF LinkAssumption
  <2>7. graph.depth[u] \in DeepPage + 1 .. Cardinality(Url)
    BY <2>1, <2>3, <2>5, <2>6
  <2>8. \E d \in DeepPage + 1 .. Cardinality(Url) : Within(site, d, u)
    BY <2>5, <2>7
  <2>9. SourcesTold(f)
    BY <2>2, PagewiseSources DEF Pagewise
  <2> QED BY <2>2, <2>8, <2>9 DEF FindingIsTrue, SourcesTold, Linking, LinkingTo, PagesOf
<1>3. CASE f \in DeadEnds(site, graph)
  <2>1. PICK u \in graph.pages : /\ graph.checked[u] = "ok" /\ InternalLinks(site, graph, u) = {}
                                 /\ f = Finding("dead_end_page", "low", u, {})
    BY <1>3 DEF DeadEnds, Ok
  <2>2. f.type = "dead_end_page" /\ f.target = u /\ f.sources = {}
    BY <2>1 DEF Finding
  <2>3. SourcesTold(f)
    BY <2>2, PagewiseSources DEF Pagewise
  <2>4. AnswerOf(site, u) \in {"page", "file"}
    <3>1. AnswerOf(site, u) \in Answer
      BY <1>1, SiteFacts DEF AnswerOf
    <3>2. "ok" \in {CrawledClass(AnswerOf(site, u)), CheckedClass(AnswerOf(site, u))}
      BY <1>1, <2>1 DEF Known, TruthInv, ClassInv
    <3> QED BY <3>1, <3>2 DEF CrawledClass, CheckedClass, Answer
  <2>5. ~\E l \in LinksOf(site, u) : OnSite(site, l.to)
    BY <1>1, <2>1 DEF InternalLinks
  <2> QED BY <2>2, <2>3, <2>4, <2>5 DEF FindingIsTrue, SourcesTold, Linking, LinkingTo, PagesOf
<1>4. CASE f \in ExcessiveOutlinks(site, graph)
  <2>1. PICK u \in graph.pages : /\ Cardinality(graph.edges[u]) > MaxOutlinks
                                 /\ f = Finding("excessive_outlinks", "low", u, {})
    BY <1>4 DEF ExcessiveOutlinks
  <2>2. f.type = "excessive_outlinks" /\ f.target = u /\ f.sources = {}
    BY <2>1 DEF Finding
  <2>3. SourcesTold(f)
    BY <2>2, PagewiseSources DEF Pagewise
  <2>4. Cardinality(LinksOf(site, u)) > MaxOutlinks
    BY <1>1, <2>1
  <2> QED BY <2>2, <2>3, <2>4 DEF FindingIsTrue, SourcesTold, Linking, LinkingTo, PagesOf
<1> QED BY <1>2, <1>3, <1>4

\* What is said of the links to one target.
LEMMA GroupedAreTrue ==
  ASSUME Known, NEW type \in {"empty_anchor", "generic_anchor", "nofollow_internal", "insecure_link"},
         NEW severity, NEW links \in [Url -> SUBSET Link], \A p \in graph.pages : links[p] = Alleged(site, type, p),
         NEW f \in Grouped(type, severity, graph, links)
  PROVE  FindingIsTrue(f)
<1>1. PICK u \in UNION {Targets(links[p]) : p \in graph.pages} :
        f = Finding(type, severity, u, {p \in graph.pages : u \in Targets(links[p])})
  BY DEF Grouped
<1>2. f.type = type /\ f.target = u /\ f.sources = {p \in graph.pages : u \in Targets(links[p])}
  BY <1>1 DEF Finding
<1>3. f.sources # {}
  BY <1>1, <1>2
<1>4. Linking(u) \subseteq LinkingTo(site, u)
  BY SourcesAreTrue
<1>5. f.sources = {p \in graph.pages : u \in Targets(Alleged(site, type, p))}
  BY <1>2
<1> HIDE DEF Known
<1> QED BY <1>2, <1>3, <1>4, <1>5 DEF FindingIsTrue, Linking, LinkingTo, PagesOf

\* Whatever the cap, the depth and the check limits left out, every finding is true in the
\* sense of its type: of the site, or of the fetched pages and then of a site that was
\* crawled whole.
THEOREM FindingsHold == Spec => []FindingsAreTrue
<1>1. ASSUME IInv, ChainInv, TruthInv PROVE FindingsAreTrue
  <2> SUFFICES ASSUME NEW f \in report.findings PROVE FindingIsTrue(f)
      BY DEF FindingsAreTrue
  <2>1. phase = "done" /\ Known
    BY <1>1 DEF TruthInv, Known
  <2>2. PICK home \in SUBSET Url : f \in Findings(site, graph, home)
    BY <2>1 DEF TruthInv, Known
  <2>3. /\ graph.edges \in [Url -> SUBSET Link] /\ graph.pages \subseteq Url
        /\ \A p \in graph.pages : graph.edges[p] = LinksOf(site, p)
    BY <1>1 DEF IInv, TypeOK, Graph, TruthInv
  <2> HIDE DEF Known
  <2>4. CASE f \in AnchorIssues(site, graph)
    <3> DEFINE empty == [p \in Url |-> {l \in graph.edges[p] : l.text = "empty"}]
               generic == [p \in Url |-> {l \in graph.edges[p] : l.text = "generic"}]
    <3>1. /\ empty \in [Url -> SUBSET Link] /\ generic \in [Url -> SUBSET Link]
          /\ \A p \in graph.pages : /\ empty[p] = Alleged(site, "empty_anchor", p)
                                    /\ generic[p] = Alleged(site, "generic_anchor", p)
      BY <2>3 DEF Alleged
    <3>2. f \in Grouped("empty_anchor", "low", graph, empty) \/ f \in Grouped("generic_anchor", "low", graph, generic)
      BY <2>4 DEF AnchorIssues
    <3> HIDE DEF empty, generic
    <3> QED BY <2>1, <3>1, <3>2, GroupedAreTrue
  <2>5. CASE f \in Nofollow(site, graph)
    <3> DEFINE bad == [p \in Url |-> {l \in InternalLinks(site, graph, p) : l.nofollow}]
    <3>1. /\ bad \in [Url -> SUBSET Link]
          /\ \A p \in graph.pages : bad[p] = Alleged(site, "nofollow_internal", p)
      BY <2>3 DEF InternalLinks, Alleged
    <3>2. f \in Grouped("nofollow_internal", "low", graph, bad)
      BY <2>5 DEF Nofollow
    <3> HIDE DEF bad
    <3> QED BY <2>1, <3>1, <3>2, GroupedAreTrue
  <2>6. CASE f \in InsecureLinks(site, graph)
    <3> DEFINE bad == [p \in Url |-> IF site.final[p] \in site.insecure THEN {}
                                     ELSE {l \in InternalLinks(site, graph, p) : l.to \in site.insecure}]
    <3>1. /\ bad \in [Url -> SUBSET Link]
          /\ \A p \in graph.pages : bad[p] = Alleged(site, "insecure_link", p)
      BY <2>3 DEF InternalLinks, Alleged
    <3>2. f \in Grouped("insecure_link", "medium", graph, bad)
      BY <2>6 DEF InsecureLinks
    <3> HIDE DEF bad
    <3> QED BY <2>1, <3>1, <3>2, GroupedAreTrue
  <2>7. CASE f \in BrokenInternal(site, graph) \cup BrokenExternal(site, graph) \cup Redirects(site, graph)
                    \cup SitemapErrors(site, graph)
    BY <2>1, <2>7, StandardAreTrue
  <2>8. CASE f \in Orphans(site, graph, home) \cup WeaklyLinked(site, graph)
    BY <2>1, <2>8, InboundAreTrue
  <2>9. CASE f \in DeepPages(site, graph) \cup DeadEnds(site, graph) \cup ExcessiveOutlinks(site, graph)
    BY <2>1, <2>9, PageFindingsAreTrue
  <2>10. f \in AnchorIssues(site, graph) \cup Nofollow(site, graph) \cup InsecureLinks(site, graph)
                 \cup (BrokenInternal(site, graph) \cup BrokenExternal(site, graph) \cup Redirects(site, graph)
                         \cup SitemapErrors(site, graph))
                 \cup (Orphans(site, graph, home) \cup WeaklyLinked(site, graph))
                 \cup (DeepPages(site, graph) \cup DeadEnds(site, graph) \cup ExcessiveOutlinks(site, graph))
    BY <2>2, Zenon DEF Findings
  <2> QED BY <2>4, <2>5, <2>6, <2>7, <2>8, <2>9, <2>10
<1> QED BY <1>1, Invariant, DepthInvariant, TruthInvariant, PTL

-----------------------------------------------------------------------------
(* The whole graph *)

\* A request more brings the links that its page has.
LEMMA BroughtByOneMore ==
  ASSUME NEW s \in Sites, NEW u \in Url, NEW R \in SUBSET Url, NEW r \in Url \ R
  PROVE  Inbound(s, u, R \cup {r}) = Inbound(s, u, R) + Counted(s, LinksOf(s, r), u)
<1> DEFINE L(x) == {l \in LinksOf(s, x) : l.to = u}
           A == Brought(s, u, R)
           B == {r} \X L(r)
<1>1. \A x \in Url : IsFiniteSet(L(x)) /\ L(x) \subseteq Link
  BY SiteFacts, LinksAreFinite, FS_Subset
<1>2. Brought(s, u, R \cup {r}) = A \cup B
  BY DEF Brought
<1>3. A \cap B = {}
  BY DEF Brought
<1>4. IsFiniteSet(A)
  <2>1. IsFiniteSet(Url \X Link)
    BY LinkAssumption, LinksAreFinite, FS_Product DEF LinkAssumption
  <2>2. A = UNION {{x} \X L(x) : x \in R}
    BY DEF Brought
  <2>3. \A x \in R : {x} \X L(x) \subseteq Url \X Link
    <3> HIDE DEF L
    <3> QED BY <1>1
  <2>4. A \subseteq Url \X Link
    <3> HIDE DEF A, L
    <3> QED BY <2>2, <2>3
  <2> QED BY <2>1, <2>4, FS_Subset
<1>5. IsFiniteSet(B) /\ Cardinality(B) = Cardinality(L(r))
  <2>1. IsFiniteSet({r}) /\ Cardinality({r}) = 1 /\ IsFiniteSet(L(r)) /\ Cardinality(L(r)) \in Nat
    BY <1>1, FS_Singleton, FS_CardinalityType
  <2> HIDE DEF L
  <2>2. IsFiniteSet(B) /\ Cardinality(B) = Cardinality({r}) * Cardinality(L(r))
    BY <2>1, FS_Product
  <2> QED BY <2>1, <2>2
<1>6. Counted(s, LinksOf(s, r), u) = IF OnSite(s, u) THEN Cardinality(L(r)) ELSE 0
  BY DEF Counted
<1> HIDE DEF A, B, L
<1>7. Cardinality(A \cup B) = Cardinality(A) + Cardinality(B) /\ Cardinality(A) \in Nat
  <2>1. Cardinality(A \cup B) = Cardinality(A) + Cardinality(B) - Cardinality(A \cap B)
    BY <1>4, <1>5, FS_Union
  <2>2. Cardinality(A \cap B) = 0 /\ Cardinality(A) \in Nat /\ Cardinality(B) \in Nat
    BY <1>3, <1>4, <1>5, FS_EmptySet, FS_CardinalityType
  <2> QED BY <2>1, <2>2
<1>8. Inbound(s, u, R) = IF OnSite(s, u) THEN Cardinality(A) ELSE 0
  BY DEF Inbound, A
<1>9. Inbound(s, u, R \cup {r}) = IF OnSite(s, u) THEN Cardinality(A \cup B) ELSE 0
  BY <1>2 DEF Inbound
<1> QED BY <1>5, <1>6, <1>7, <1>8, <1>9

\* The URLs that have been requested and settled.
Settled == (seen \ site.blocked) \ (Waiting \cup Fetching)

\* The class of a URL before the check, and after one that asks for all there is to ask.
AsCrawled(u) == IF u \in graph.pages THEN CrawledClass(AnswerOf(site, u)) ELSE "unasked"
AllChecked(u) == IF u \in ExternalLinked \cup Unfetched THEN CheckedClass(AnswerOf(site, u)) ELSE AsCrawled(u)

WithinCaps == Cardinality(ExternalLinked) <= MaxExternal /\ Cardinality(Unfetched) <= MaxInternal

\* The report of an analysis is made of its graph.
Reported ==
  \E h1, h2 \in HomeChoices :
    /\ report.findings = Findings(site, graph, h1)
    /\ report.overall = Overall(report.findings)
    /\ report.pages = {PageRow(site, graph, h2, p) : p \in graph.pages}

\* The graph holds what the settled requests have brought, and nothing else.
WholeInv ==
  /\ \A u \in Url \ graph.pages : graph.edges[u] = {}
  /\ graph.truncated \/ \A u \in Url : graph.inbound[u] = Inbound(site, u, Settled)
  /\ phase \in {"crawl", "check"} => \A u \in Url : graph.checked[u] = AsCrawled(u)
  /\ phase \in {"analyse", "done"} /\ WithinCaps => \A u \in Url : graph.checked[u] = AllChecked(u)
  /\ phase = "done" => Reported

LEMMA WholeBegins == Init => WholeInv
<1> SUFFICES ASSUME Init PROVE WholeInv
    OBVIOUS
<1>1. PICK taken \in SUBSET Seeds : \E order \in SetToSeqs(taken) :
        /\ queue = Items(<<site.home>>, 0) \o Items(order, Unknown)
        /\ seen = {site.home} \cup taken
        /\ graph = [pages |-> {}, edges |-> [u \in Url |-> {}],
                    inbound |-> [u \in Url |-> 0], depth |-> [u \in Url |-> Unknown],
                    checked |-> [u \in Url |-> "unasked"], truncated |-> taken # Seeds]
  BY DEF Init
<1>2. phase = "crawl"
  BY DEF Init
<1>3. graph.truncated \/ Settled = {}
  <2>1. IInv
    BY CrawlStarts
  <2>2. graph.pages = {} /\ \A u \in seen : graph.truncated \/ u \in Waiting \cup Fetching \cup site.blocked
    BY <1>1, <2>1 DEF IInv, ClosedInv
  <2> QED BY <2>2 DEF Settled
<1>4. \A u \in Url : Inbound(site, u, {}) = 0
  BY FS_EmptySet DEF Inbound, Brought
<1>5. \A u \in Url : graph.inbound[u] = 0 /\ graph.edges[u] = {} /\ graph.checked[u] = AsCrawled(u)
  BY <1>1 DEF AsCrawled
<1> QED BY <1>2, <1>3, <1>4, <1>5 DEF WholeInv

\* A step that neither settles nor checks nor reports.
LEMMA MoveKeepsWhole ==
  ASSUME WholeInv, site' = site, phase = "crawl", phase' \in {"crawl", "check"},
         graph'.pages = graph.pages, graph'.edges = graph.edges, graph'.inbound = graph.inbound,
         graph'.checked = graph.checked, graph.truncated => graph'.truncated,
         graph'.truncated \/ Settled' = Settled
  PROVE  WholeInv'
<1>1. \A u \in Url : AsCrawled(u)' = AsCrawled(u)
  BY DEF AsCrawled
<1>2. graph'.truncated \/ \A u \in Url : graph'.inbound[u] = Inbound(site, u, Settled')
  BY DEF WholeInv
<1> HIDE DEF Reported, AllChecked, WithinCaps
<1> QED BY <1>1, <1>2 DEF WholeInv

LEMMA SettleKeepsWhole ==
  ASSUME IInv, IInv', ChainInv, TruthInv, WholeInv, phase = "crawl", NEW item \in flight, Settle(item)
  PROVE  WholeInv'
<1> DEFINE page   == Key(site, item.url)
           links  == LinksOf(site, item.url)
           new    == Followable(site, links) \ seen
           follow == IF WithinDepth(item.depth) THEN new ELSE {}
           count(u) == Counted(site, links, u)
<1>1. /\ site' = site /\ seen' = seen \cup follow /\ phase' = phase /\ flight' = flight \ {item}
      /\ graph' = [graph EXCEPT
                     !.pages = @ \cup {page},
                     !.edges[page] = links,
                     !.inbound = [u \in Url |-> @[u] + count(u)],
                     !.depth = Depths(page, item.depth, links),
                     !.checked[page] = CrawledClass(AnswerOf(site, page))]
      /\ \E order \in SetToSeqs(follow) : queue' = queue \o Items(order, NextLevel(item.depth))
  BY DEF Settle
<1>2. /\ site \in Sites /\ item.url \in Url /\ item.depth \in Int /\ graph \in Graph /\ seen \subseteq Url
      /\ graph.edges \in [Url -> SUBSET Link] /\ graph.inbound \in [Url -> Nat] /\ graph.checked \in [Url -> Class]
      /\ queue \in Seq(Item)
  BY DEF IInv, TypeOK, Item, Graph
<1>3. page \in Url /\ links \in SUBSET Link
  BY <1>2, SiteFacts
<1>4. follow \subseteq Url /\ follow \cap seen = {} /\ follow \cap site.blocked = {}
  <2>1. follow \subseteq Followable(site, links) /\ follow \cap seen = {}
    OBVIOUS
  <2>2. Followable(site, links) \subseteq Url /\ Followable(site, links) \cap site.blocked = {}
    BY <1>2, <1>3, TargetsAreUrls DEF Followable, Targets, LinksOf
  <2> QED BY <2>1, <2>2
<1> HIDE DEF page, links, follow
<1>5. /\ graph'.pages = graph.pages \cup {page}
      /\ graph'.edges = [graph.edges EXCEPT ![page] = links]
      /\ graph'.inbound = [u \in Url |-> graph.inbound[u] + count(u)]
      /\ graph'.checked = [graph.checked EXCEPT ![page] = CrawledClass(AnswerOf(site, page))]
      /\ graph'.truncated = graph.truncated
  BY <1>1, <1>2 DEF Graph
<1>6. Settled' = Settled \cup {item.url} /\ item.url \notin Settled /\ Settled \subseteq Url
  <2>1. Waiting' = Waiting \cup follow
    <3>1. PICK order \in SetToSeqs(follow) : queue' = queue \o Items(order, NextLevel(item.depth))
      BY <1>1
    <3>2. NextLevel(item.depth) \in Int
      BY <1>2 DEF NextLevel, Unknown
    <3>3. Apart(queue) /\ UrlsOf(queue) \cap follow = {}
      BY <1>4 DEF IInv, PlacesInv, Waiting
    <3>4. UrlsOf(queue') = UrlsOf(queue) \cup follow
      BY <1>2, <1>4, <3>1, <3>2, <3>3, QueueGrows
    <3> QED BY <3>4 DEF Waiting
  <2>2. Fetching' = Fetching \ {item.url} /\ item.url \in Fetching
    BY <1>1 DEF Fetching, IInv, PlacesInv
  <2>3. item.url \in seen \ site.blocked /\ item.url \notin Waiting
    BY <2>2 DEF IInv, PlacesInv, ChainInv
  <2>4. Settled' = (seen' \ site.blocked) \ (Waiting' \cup Fetching')
    BY <1>1 DEF Settled
  <2>5. seen' = seen \cup follow
    BY <1>1
  <2>6. item.url \notin follow /\ Fetching \subseteq seen
    BY <1>4, <2>3 DEF IInv, PlacesInv
  <2>7. Settled' = Settled \cup {item.url}
    BY <1>4, <2>1, <2>2, <2>3, <2>4, <2>5, <2>6 DEF Settled
  <2>8. item.url \notin Settled
    BY <2>2 DEF Settled
  <2> QED BY <1>2, <2>7, <2>8 DEF Settled
<1>7. graph'.truncated \/ \A u \in Url : graph'.inbound[u] = Inbound(site, u, Settled')
  <2> SUFFICES ASSUME ~graph.truncated, NEW u \in Url PROVE graph'.inbound[u] = Inbound(site, u, Settled')
      BY <1>5
  <2>1. graph.inbound[u] = Inbound(site, u, Settled)
    BY DEF WholeInv
  <2>2. Inbound(site, u, Settled \cup {item.url}) = Inbound(site, u, Settled) + count(u)
    BY <1>2, <1>6, BroughtByOneMore DEF links
  <2> HIDE DEF count
  <2> QED BY <1>5, <1>6, <2>1, <2>2
<1>8. \A u \in Url : graph'.checked[u] = AsCrawled(u)'
  <2>1. \A u \in Url : AsCrawled(u)' = IF u \in graph'.pages THEN CrawledClass(AnswerOf(site, u)) ELSE "unasked"
    BY <1>1 DEF AsCrawled
  <2>2. \A u \in Url : graph.checked[u] = IF u \in graph.pages THEN CrawledClass(AnswerOf(site, u)) ELSE "unasked"
    BY DEF WholeInv, AsCrawled
  <2> QED BY <1>2, <1>3, <1>5, <2>1, <2>2
<1>9. \A u \in Url \ graph'.pages : graph'.edges[u] = {}
  BY <1>2, <1>5 DEF WholeInv
<1>10. phase' = "crawl"
  BY <1>1
<1> HIDE DEF Reported, AllChecked, WithinCaps
<1> QED BY <1>1, <1>7, <1>8, <1>9, <1>10 DEF WholeInv

LEMMA StepKeepsWhole == IInv /\ IInv' /\ ChainInv /\ TruthInv /\ WholeInv /\ [Next]_vars => WholeInv'
<1> SUFFICES ASSUME IInv, IInv', ChainInv, TruthInv, WholeInv, [Next]_vars PROVE WholeInv'
    OBVIOUS
<1>0. graph \in Graph /\ phase \in {"crawl", "check", "analyse", "done"} /\ queue \in Seq(Item) /\ Apart(queue)
  BY DEF IInv, TypeOK, PlacesInv
<1>1. CASE TurnAway \/ SkipBlocked
  <2>1. /\ queue # <<>> /\ queue' = Tail(queue) /\ flight' = flight /\ seen' = seen
        /\ site' = site /\ phase = "crawl" /\ phase' = "crawl"
        /\ \/ graph' = [graph EXCEPT !.truncated = TRUE]
           \/ graph' = graph /\ Head(queue).url \in site.blocked
    BY <1>1 DEF TurnAway, SkipBlocked, Free
  <2>2. Waiting' = Waiting \ {Head(queue).url} /\ Fetching' = Fetching
    BY <1>0, <2>1, QueueShrinks DEF Waiting, Fetching
  <2>3. /\ graph'.pages = graph.pages /\ graph'.edges = graph.edges /\ graph'.inbound = graph.inbound
        /\ graph'.checked = graph.checked /\ (graph.truncated => graph'.truncated)
        /\ (graph'.truncated \/ Head(queue).url \in site.blocked)
    BY <1>0, <2>1 DEF Graph
  <2>4. graph'.truncated \/ Settled' = Settled
    BY <2>1, <2>2, <2>3 DEF Settled
  <2> QED BY <2>1, <2>3, <2>4, MoveKeepsWhole
<1>2. CASE Fetch
  <2>1. /\ queue # <<>> /\ queue' = Tail(queue) /\ flight' = flight \cup {Head(queue)}
        /\ seen' = seen /\ site' = site /\ phase = "crawl" /\ phase' = "crawl" /\ graph' = graph
    BY <1>2 DEF Fetch, Free
  <2>2. /\ Waiting' = Waiting \ {Head(queue).url} /\ Fetching' = Fetching \cup {Head(queue).url}
        /\ Head(queue).url \in Waiting
    BY <1>0, <2>1, QueueShrinks DEF Waiting, Fetching
  <2>3. Settled' = Settled
    BY <2>1, <2>2 DEF Settled
  <2> QED BY <2>1, <2>3, MoveKeepsWhole
<1>3. ASSUME NEW item \in flight, Settle(item) PROVE WholeInv'
  <2>1. phase = "crawl"
    BY <1>3 DEF IInv, ClosedInv
  <2> QED BY <1>3, <2>1, SettleKeepsWhole
<1>4. CASE Join
  <2>1. site' = site /\ graph' = graph /\ phase = "crawl" /\ phase' = "check" /\ Settled' = Settled
    BY <1>4 DEF Join, Settled, Waiting, Fetching
  <2> QED BY <2>1, MoveKeepsWhole
<1>5. CASE CheckLinks
  <2>1. PICK asked \in Asked : graph' = [graph EXCEPT !.checked =
                       [u \in Url |-> IF u \in asked THEN CheckedClass(AnswerOf(site, u)) ELSE @[u]]]
    BY <1>5 DEF CheckLinks
  <2>2. /\ graph'.pages = graph.pages /\ graph'.edges = graph.edges /\ graph'.inbound = graph.inbound
        /\ graph'.truncated = graph.truncated
        /\ graph'.checked = [u \in Url |-> IF u \in asked THEN CheckedClass(AnswerOf(site, u)) ELSE graph.checked[u]]
    BY <1>0, <2>1 DEF Graph
  <2>3. site' = site /\ phase = "check" /\ phase' = "analyse" /\ Settled' = Settled
    BY <1>5 DEF CheckLinks, Settled, Waiting, Fetching
  <2>4. /\ ExternalLinked' = ExternalLinked /\ Unfetched' = Unfetched
        /\ \A u : AsCrawled(u)' = AsCrawled(u) /\ AllChecked(u)' = AllChecked(u)
    BY <2>2, <2>3 DEF ExternalLinked, Unfetched, Linked, AsCrawled, AllChecked
  <2>5. ASSUME WithinCaps PROVE asked = ExternalLinked \cup Unfetched
    BY <2>1, <2>5 DEF WithinCaps, Asked, Capped
  <2>6. WithinCaps' = WithinCaps
    BY <2>4 DEF WithinCaps
  <2>7. \A u \in Url : graph.checked[u] = AsCrawled(u)
    BY <2>3 DEF WholeInv
  <2>8. WithinCaps => \A u \in Url : graph'.checked[u] = AllChecked(u)
    BY <2>2, <2>5, <2>7 DEF AllChecked
  <2>9. graph'.truncated \/ \A u \in Url : graph'.inbound[u] = Inbound(site', u, Settled')
    BY <2>2, <2>3 DEF WholeInv
  <2> HIDE DEF Reported, AllChecked, WithinCaps
  <2> QED BY <2>2, <2>3, <2>4, <2>6, <2>8, <2>9 DEF WholeInv
<1>6. CASE Analyse
  <2>1. /\ site' = site /\ graph' = graph /\ phase = "analyse" /\ phase' = "done" /\ Settled' = Settled
        /\ HomeChoices' = HomeChoices
    BY <1>6 DEF Analyse, Settled, Waiting, Fetching, HomeChoices
  <2>2. /\ ExternalLinked' = ExternalLinked /\ Unfetched' = Unfetched
        /\ \A u : AsCrawled(u)' = AsCrawled(u) /\ AllChecked(u)' = AllChecked(u)
        /\ WithinCaps' = WithinCaps
    BY <2>1 DEF ExternalLinked, Unfetched, Linked, AsCrawled, AllChecked, WithinCaps
  <2>3. PICK h1 \in HomeChoices, h2 \in HomeChoices :
          report' = [findings |-> Findings(site, graph, h1), overall |-> Overall(Findings(site, graph, h1)),
                     pages |-> {PageRow(site, graph, h2, p) : p \in graph.pages}]
    <3> HIDE DEF Findings, HomeChoices, Overall, PageRow
    <3> QED BY <1>6 DEF Analyse
  <2>4. Reported'
    <3> HIDE DEF Findings, HomeChoices, Overall, PageRow
    <3> QED BY <2>1, <2>3 DEF Reported
  <2>5. graph'.truncated \/ \A u \in Url : graph'.inbound[u] = Inbound(site', u, Settled')
    BY <2>1 DEF WholeInv
  <2> HIDE DEF Reported, AllChecked, WithinCaps
  <2> QED BY <2>1, <2>2, <2>4, <2>5 DEF WholeInv
<1>7. CASE UNCHANGED vars
  <2>1. /\ site' = site /\ graph' = graph /\ phase' = phase /\ report' = report /\ seen' = seen
        /\ queue' = queue /\ flight' = flight
    BY <1>7 DEF vars
  <2> QED BY <2>1 DEF WholeInv, Settled, Waiting, Fetching, ExternalLinked, Unfetched, Linked, AsCrawled,
                      AllChecked, WithinCaps, Reported, HomeChoices
<1> QED BY <1>1, <1>2, <1>3, <1>4, <1>5, <1>6, <1>7 DEF Next, Work, Done

\* Whatever the graph's whole, home pages are sought among the URLs of the site that have been
\* drawn; there is none only if none of those was drawn.
LEMMA HomeIsFound ==
  ASSUME NEW s \in Sites, NEW g, g.pages \subseteq Url, s.home \in g.pages
  PROVE  HomeCandidates(s, g) # {}
<1> DEFINE P == {u \in g.pages : OnSite(s, u)}
           D == {s.length[u] : u \in P}
<1>1. s.home \in P /\ s.length \in [Url -> Nat]
  BY LinkAssumption DEF LinkAssumption, OnSite, Site
<1>2. D \subseteq Nat /\ D # {}
  BY <1>1
<1>3. PICK n \in D : \A k \in D : ~(<<k, n>> \in OpToRel(<, Nat))
  <2> HIDE DEF D
  <2> QED BY <1>2, WFMin, NatLessThanWellFounded, Zenon
<1>4. ASSUME NEW k \in D PROVE n <= k
  <2>1. n \in Nat /\ k \in Nat
    BY <1>2
  <2>2. <<k, n>> \in Nat \X Nat
    BY <2>1
  <2>3. ~(k < n)
    <3> HIDE DEF D
    <3> QED BY <1>3, <2>2, Zenon DEF OpToRel
  <2> QED BY <2>1, <2>3
<1>5. PICK u \in P : s.length[u] = n
  OBVIOUS
<1>6. \A v \in g.pages : OnSite(s, v) => s.length[u] <= s.length[v]
  BY <1>4, <1>5
<1>7. u \in HomeCandidates(s, g)
  BY <1>5, <1>6 DEF HomeCandidates
<1> QED BY <1>7

LEMMA GraphIsWhole ==
  ASSUME Known, WholeInv, ~graph.truncated, cut = {}, WithinCaps
  PROVE  graph = WholeGraph(site, graph.depth)
<1> DEFINE requested == Requested(site)
           pages == {Key(site, u) : u \in requested}
           edges == [u \in Url |-> IF u \in pages THEN LinksOf(site, u) ELSE {}]
           linked == UNION {Targets(edges[u]) : u \in pages}
           asked == {u \in linked : ~OnSite(site, u)} \cup ((linked \cup site.sitemap) \ pages)
           checked == [u \in Url |-> IF u \in asked THEN CheckedClass(AnswerOf(site, u))
                                     ELSE IF u \in pages THEN CrawledClass(AnswerOf(site, u)) ELSE "unasked"]
           inbound == [u \in Url |-> Inbound(site, u, requested)]
<1>1. WholeGraph(site, graph.depth) = [pages |-> pages, edges |-> edges, depth |-> graph.depth, truncated |-> FALSE,
                                       inbound |-> inbound, checked |-> checked]
  BY DEF WholeGraph
<1>2. /\ site \in Sites /\ seen \subseteq Url /\ graph \in Graph
      /\ graph.pages \subseteq Url /\ graph.edges \in [Url -> SUBSET Link]
      /\ graph.inbound \in [Url -> Nat] /\ graph.checked \in [Url -> Class]
  BY DEF Known, IInv, TypeOK, Graph
<1>3. graph.pages = pages
  BY WholeCrawl, SourcesAreTrue DEF PagesOf
<1>4. graph.edges = edges
  <2>1. \A u \in Url : graph.edges[u] = edges[u]
    BY <1>3 DEF Known, TruthInv, WholeInv
  <2> QED BY <1>2, <2>1
<1>5. graph.inbound = inbound
  <2>1. Settled = seen \ site.blocked
    BY EmptySeq, LenProperties DEF Known, IInv, ClosedInv, Waiting, Fetching, UrlsOf, Settled
  <2>2. Settled = requested
    BY <2>1, WholeCrawl DEF Known, TruthInv
  <2>3. \A u \in Url : graph.inbound[u] = Inbound(site, u, requested)
    BY <2>2 DEF WholeInv
  <2> QED BY <1>2, <2>3
<1>6. graph.checked = checked
  <2>1. Linked = linked
    <3> HIDE DEF pages, edges
    <3> QED BY <1>3, <1>4 DEF Linked
  <2> HIDE DEF linked, pages
  <2>2. ExternalLinked \cup Unfetched = asked
    BY <1>3, <2>1 DEF ExternalLinked, Unfetched
  <2> HIDE DEF asked
  <2>3. \A u \in Url : graph.checked[u] = AllChecked(u)
    BY DEF Known, WholeInv
  <2>4. \A u \in Url : graph.checked[u] = checked[u]
    BY <1>3, <2>2, <2>3 DEF AllChecked, AsCrawled
  <2> HIDE DEF checked
  <2>5. checked = [u \in Url |-> checked[u]]
    BY DEF checked
  <2> QED BY <1>2, <2>4, <2>5
<1>7. graph = [pages |-> graph.pages, edges |-> graph.edges, depth |-> graph.depth, truncated |-> graph.truncated,
               inbound |-> graph.inbound, checked |-> graph.checked]
  BY <1>2 DEF Graph
<1>8. graph.truncated = FALSE
  BY <1>2 DEF Graph
<1> HIDE DEF pages, edges, inbound, checked
<1> QED BY <1>1, <1>3, <1>4, <1>5, <1>6, <1>7, <1>8

\* The order of fetches, the number of workers and the time at which a link is seen show in
\* the click depths alone: a crawl that leaves nothing out ends with the report of the site.
THEOREM ReportsAreTheSites == Spec => []ReportIsTheSites
<1>1. IInv /\ ChainInv /\ TruthInv /\ WholeInv => ReportIsTheSites
  <2> DEFINE whole == WholeGraph(site, graph.depth)
  <2> SUFFICES ASSUME IInv, ChainInv, TruthInv, WholeInv, phase = "done", ~graph.truncated, cut = {}, WithinCaps,
                      HomeCandidates(site, whole) \subseteq {site.home}
               PROVE  /\ report.findings = Findings(site, whole, {site.home})
                      /\ report.overall = Overall(report.findings)
                      /\ report.pages = {PageRow(site, whole, {site.home}, p) : p \in whole.pages}
      BY DEF ReportIsTheSites, WithinCaps
  <2>1. graph = whole
    BY GraphIsWhole DEF Known
  <2> HIDE DEF whole
  <2>2. PICK h1 \in HomeChoices, h2 \in HomeChoices :
          /\ report.findings = Findings(site, graph, h1)
          /\ report.overall = Overall(report.findings)
          /\ report.pages = {PageRow(site, graph, h2, p) : p \in graph.pages}
    <3> HIDE DEF Findings, HomeChoices, Overall, PageRow
    <3> QED BY DEF WholeInv, Reported
  <2>3. \A h \in HomeChoices : h = {site.home} \/ (h = {} /\ site.home \notin graph.pages)
    <3>1. CASE HomeCandidates(site, graph) = {}
      <4>1. site \in Sites /\ graph.pages \subseteq Url
        BY DEF IInv, TypeOK, Graph
      <4>2. site.home \notin graph.pages
        BY <3>1, <4>1, HomeIsFound
      <4> QED BY <3>1, <4>2 DEF HomeChoices
    <3>2. CASE HomeCandidates(site, graph) # {}
      BY <2>1, <3>2 DEF HomeChoices
    <3> QED BY <3>1, <3>2
  <2>4. \A h \in HomeChoices : \A p \in graph.pages : p \in h <=> p \in {site.home}
    BY <2>3
  <2>5. \A h \in HomeChoices : OrphanUrls(site, graph, h) = OrphanUrls(site, graph, {site.home})
    BY <2>4 DEF OrphanUrls
  <2>6. \A h \in HomeChoices : Findings(site, graph, h) = Findings(site, graph, {site.home})
    BY <2>5 DEF Findings, Orphans
  <2>7. \A h \in HomeChoices : \A p \in graph.pages : PageRow(site, graph, h, p) = PageRow(site, graph, {site.home}, p)
    BY <2>4 DEF PageRow
  <2> HIDE DEF Findings, HomeChoices, Overall, PageRow
  <2> QED BY <2>1, <2>2, <2>6, <2>7
<1>2. Init => WholeInv
  BY WholeBegins
<1>3. IInv /\ IInv' /\ ChainInv /\ TruthInv /\ WholeInv /\ [Next]_vars => WholeInv'
  BY StepKeepsWhole
<1> QED BY <1>1, <1>2, <1>3, Invariant, DepthInvariant, TruthInvariant, PTL DEF Spec
=============================================================================
