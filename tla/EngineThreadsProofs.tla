------------------------- MODULE EngineThreadsProofs -------------------------
(***************************************************************************)
(* Proofs about EngineThreads: the service watcher, the health checks and  *)
(* the scraper of engine statistics, with the shutdown that ends them, for *)
(* any services, backends, engines and bounds.                             *)
(***************************************************************************)
EXTENDS EngineThreads, FiniteSetTheorems, SequenceTheorems, TLAPS

\* Leaves are left to Zenon; those that need arithmetic or sequences cite SMT.
USE Zenon

SvcEvent == [type : {"ADDED", "MODIFIED", "DELETED"}, service : Services]

\* Some event of service s has been sent and not yet read.
Awaited(s) == \E i \in DOMAIN svcEvents : svcEvents[i].service = s

\* The table says about s what the cluster does, or is about to.
Right(s) ==
  IF svcWatcher = "applying" /\ examined.service = s
  THEN examined.ok <=> s \in serving
  ELSE s \in engines <=> s \in serving

\* The types of the service watcher's state, and what its program counter implies.
WatcherTypeOK ==
  /\ exists \in SUBSET Services /\ serving \in SUBSET exists
  /\ svcEvents \in Seq(SvcEvent)
  /\ svcWatcher \in {"check", "opening", "waiting", "applying", "stopped"}
  /\ examined \in [type : {"NONE", "ADDED", "MODIFIED"}, service : Services \cup {NoService},
                   ok : BOOLEAN]
  /\ engines \in SUBSET Services /\ current \in SUBSET Services
  /\ stream \in BOOLEAN /\ watching \in BOOLEAN /\ stopFlag \in BOOLEAN
  /\ stream <=> svcWatcher \in {"waiting", "applying"}
  /\ svcWatcher = "applying" => examined.service \in Services
  /\ ~stream => svcEvents = <<>>
  /\ stopFlag => ~watching

\* A deletion is the last that is heard of a service, unless the service is there
\* again and a later event says so.
DeletionsSuperseded ==
  \A i \in DOMAIN svcEvents :
    svcEvents[i].type = "DELETED" /\ svcEvents[i].service \in exists =>
      \E j \in DOMAIN svcEvents : j > i /\ svcEvents[j].service = svcEvents[i].service

\* Whatever the watcher is doing, unless it is ending, the table is right about the
\* unchanged services no event of which is still to be read.
TableRight ==
  (svcWatcher # "stopped" /\ (svcWatcher = "check" => watching)) =>
    \A s \in current : Awaited(s) \/ Right(s)

WatcherInv == WatcherTypeOK /\ DeletionsSuperseded /\ TableRight

\* The health checks: only typed backends are ever found unhealthy, and what the
\* round in progress and the last one found is right about the steady backends.
HealthInv ==
  /\ healthy \in SUBSET Backends
  /\ steadyNow \in SUBSET Backends /\ steady \in SUBSET Backends
  /\ unchecked \in SUBSET Typed /\ failed \in SUBSET Typed /\ unhealthy \in SUBSET Typed
  /\ failed \cap unchecked = {}
  /\ task = "checking" =>
       \A b \in (steadyNow \cap Typed) \ unchecked : b \in failed <=> b \notin healthy
  /\ \A b \in steady \cap Typed : b \in unhealthy <=> b \notin healthy

\* The scraper: the figure an engine has now is among those seen since the round
\* began, and what was collected is too.
ScrapeInv ==
  /\ metric \in [Scraped -> 0 .. MaxMetric]
  /\ seenNow \in [Scraped -> SUBSET (0 .. MaxMetric)] /\ seen \in [Scraped -> SUBSET (0 .. MaxMetric)]
  /\ \A e \in Scraped : seenNow[e] # {} => metric[e] \in seenNow[e]
  /\ scraper = "scraping" => \A e \in Scraped \cap todo : seenNow[e] # {}
  /\ \A e \in DOMAIN collected : e \in Scraped /\ collected[e] \in seenNow[e]
  /\ \A e \in DOMAIN engine_stats : e \in Scraped /\ engine_stats[e] \in seen[e]

ThreadsInv == WatcherInv /\ HealthInv /\ ScrapeInv

-----------------------------------------------------------------------------
(* The health checks *)

LEMMA HealthInitially == StaticInit => HealthInv
BY DEF StaticInit, HealthInv

LEMMA HealthFrame == HealthInv /\ UNCHANGED staticVars => HealthInv'
BY DEF HealthInv, staticVars

\* Every step of a backend, of the checking coroutine and of close() keeps it.
LEMMA HealthStep ==
  ASSUME HealthInv, StaticStep \/ StartClose
  PROVE  HealthInv'
<1> USE DEF HealthInv
<1>1. ASSUME NEW b \in Backends, Flip(b) PROVE HealthInv'
  BY <1>1 DEF Flip
<1>2. CASE StartRound
  BY <1>2 DEF StartRound
<1>3. ASSUME NEW b \in Backends, CheckOne(b) PROVE HealthInv'
  BY <1>3 DEF CheckOne
<1>4. CASE EndRound
  BY <1>4 DEF EndRound
<1>5. CASE WakeUp
  BY <1>5 DEF WakeUp
<1>6. CASE RunShutdown
  BY <1>6 DEF RunShutdown
<1>7. CASE StartClose
  BY <1>7 DEF StartClose
<1>8. CASE RoundRaises
  BY <1>8 DEF RoundRaises
<1> QED
  BY <1>1, <1>2, <1>3, <1>4, <1>5, <1>6, <1>7, <1>8 DEF StaticStep, HealthThreadStep

-----------------------------------------------------------------------------
(* The scraper *)

LEMMA ScrapeInitially == ScraperInit => ScrapeInv
BY ScraperAssumption, SMT DEF ScraperInit, ScrapeInv, Nothing

LEMMA ScrapeFrame == ScrapeInv /\ UNCHANGED scraperVars => ScrapeInv'
BY DEF ScrapeInv, scraperVars

\* Every step of an engine, of the scraper and of its close() keeps it, whatever
\* endpoints the discovery returns.
LEMMA ScrapeStep ==
  ASSUME ScrapeInv, NEW endpoints,
         ScraperStep(endpoints) \/ StopScraper \/ \E e \in Scraped : MetricMoves(e)
  PROVE  ScrapeInv'
<1> USE DEF ScrapeInv
<1>1. CASE ReadEndpoints(endpoints)
  BY <1>1 DEF ReadEndpoints, Nothing
<1>2. ASSUME NEW e \in Scraped, Scrape(e) PROVE ScrapeInv'
  BY <1>2 DEF Scrape
<1>3. CASE StoreRound
  BY <1>3 DEF StoreRound, Nothing
<1>4. CASE Rested
  BY <1>4 DEF Rested
<1>5. CASE StopScraper
  BY <1>5 DEF StopScraper
<1>6. ASSUME NEW e \in Scraped, MetricMoves(e) PROVE ScrapeInv'
  BY <1>6, SMT DEF MetricMoves
<1> QED
  BY <1>1, <1>2, <1>3, <1>4, <1>5, <1>6 DEF ScraperStep

-----------------------------------------------------------------------------
(* The service watcher *)

\* Reading the first event moves the others up by one.
LEMMA Reading ==
  ASSUME NEW S, NEW q \in Seq(S), q # <<>>
  PROVE  /\ Head(q) = q[1] /\ 1 \in DOMAIN q /\ Head(q) \in S
         /\ Tail(q) \in Seq(S)
         /\ \A i \in DOMAIN Tail(q) : i + 1 \in DOMAIN q /\ Tail(q)[i] = q[i + 1]
         /\ \A i \in DOMAIN q : i # 1 => i - 1 \in DOMAIN Tail(q) /\ Tail(q)[i - 1] = q[i]
BY SMT

\* Reporting an event puts it behind the others.
LEMMA Reporting ==
  ASSUME NEW S, NEW q \in Seq(S), NEW e \in S
  PROVE  /\ Append(q, e) \in Seq(S)
         /\ \A i \in DOMAIN q : i \in DOMAIN Append(q, e) /\ Append(q, e)[i] = q[i]
         /\ \E n \in DOMAIN Append(q, e) :
              /\ Append(q, e)[n] = e
              /\ \A i \in DOMAIN q : n > i
              /\ DOMAIN Append(q, e) = DOMAIN q \cup {n}
<1>1. DOMAIN Append(q, e) = 1 .. Len(q) + 1 /\ DOMAIN q = 1 .. Len(q)
  BY SMT
<1>2. Len(q) + 1 \in DOMAIN Append(q, e) /\ Append(q, e)[Len(q) + 1] = e
  BY SMT
<1> QED
  BY <1>1, <1>2, SMT

\* A listing reports each service there is, as ADDED.
LEMMA Listing ==
  ASSUME NEW X \in SUBSET Services, NEW order \in SetToSeqs(X)
  PROVE  LET q == [i \in DOMAIN order |-> [type |-> "ADDED", service |-> order[i]]] IN
         /\ q \in Seq(SvcEvent)
         /\ \A i \in DOMAIN q : q[i].type = "ADDED"
<1>1. IsFiniteSet(X)
  BY ServicesAssumption, FS_Subset
<1>2. Cardinality(X) \in Nat
  BY <1>1, FS_CardinalityType
<1>3. order \in [1 .. Cardinality(X) -> X]
  BY DEF SetToSeqs
<1> DEFINE n == Cardinality(X)
           q == [i \in 1 .. n |-> [type |-> "ADDED", service |-> order[i]]]
<1>4. \A i \in 1 .. n : [type |-> "ADDED", service |-> order[i]] \in SvcEvent
  BY <1>3 DEF SvcEvent
<1>5. q \in [1 .. n -> SvcEvent]
  BY <1>4
<1>6. n \in Nat /\ DOMAIN order = 1 .. n /\ \A i \in DOMAIN q : q[i].type = "ADDED"
  BY <1>2, <1>3
<1>7. q = [i \in DOMAIN order |-> [type |-> "ADDED", service |-> order[i]]]
  BY <1>6
<1> HIDE DEF n, q
<1>8. q \in Seq(SvcEvent)
  BY <1>5, <1>6, SeqDef
<1> QED
  BY <1>6, <1>7, <1>8

LEMMA WatcherInitially == ServiceInit => WatcherInv
<1> SUFFICES ASSUME ServiceInit PROVE WatcherInv
  OBVIOUS
<1>1. WatcherTypeOK
  <2>1. examined \in [type : {"NONE", "ADDED", "MODIFIED"}, service : Services \cup {NoService},
                      ok : BOOLEAN]
    BY DEF ServiceInit, NotExamining
  <2>2. svcEvents \in Seq(SvcEvent)
    BY SMT DEF ServiceInit
  <2>3. /\ stream \in BOOLEAN /\ watching \in BOOLEAN /\ stopFlag \in BOOLEAN
        /\ stopFlag => ~watching
    BY DEF ServiceInit
  <2>4. stream <=> svcWatcher \in {"waiting", "applying"}
    BY DEF ServiceInit
  <2> QED
    BY <2>1, <2>2, <2>3, <2>4 DEF ServiceInit, WatcherTypeOK
<1>2. DeletionsSuperseded /\ TableRight
  BY SMT DEF ServiceInit, DeletionsSuperseded, TableRight
<1> QED
  BY <1>1, <1>2 DEF WatcherInv

LEMMA WatcherFrame == WatcherInv /\ UNCHANGED svcVars => WatcherInv'
BY SMT DEF WatcherInv, WatcherTypeOK, DeletionsSuperseded, TableRight, Awaited, Right, svcVars

\* A change of a service in the cluster: what is in the table may be wrong now, and
\* then the service is no longer current, or an event of it is on its way.
LEMMA ChangeStep ==
  ASSUME WatcherInv, NEW s \in Services, ServiceChanges(s)
  PROVE  WatcherInv'
<1> USE DEF WatcherInv
<1>1. PICK t \in {"ADDED", "MODIFIED", "DELETED"} :
        /\ t = "ADDED" <=> s \notin exists
        /\ exists' = IF t = "DELETED" THEN exists \ {s} ELSE exists \cup {s}
        /\ serving' = IF t = "DELETED" THEN serving \ {s} ELSE serving
        /\ svcEvents' = IF stream THEN Append(svcEvents, [type |-> t, service |-> s]) ELSE svcEvents
        /\ current' = IF t = "MODIFIED" THEN current ELSE current \ {s}
  BY DEF ServiceChanges
<1>2. UNCHANGED <<stream, svcWatcher, examined, engines, watching, stopFlag>>
  BY DEF ServiceChanges
<1> DEFINE e == [type |-> t, service |-> s]
<1>3. e \in SvcEvent /\ e.type = t /\ e.service = s
  BY DEF SvcEvent
<1> HIDE DEF e
<1>4. svcEvents' = IF stream THEN Append(svcEvents, e) ELSE svcEvents
  BY <1>1 DEF e
<1>5. svcEvents' \in Seq(SvcEvent)
  BY <1>3, <1>4, Reporting DEF WatcherTypeOK
<1>6. WatcherTypeOK'
  BY <1>1, <1>2, <1>4, <1>5 DEF WatcherTypeOK
<1>7. CASE ~stream
  <2>1. svcEvents = <<>> /\ svcEvents' = <<>>
    BY <1>4, <1>7 DEF WatcherTypeOK
  <2>2. DeletionsSuperseded'
    BY <2>1, SMT DEF DeletionsSuperseded
  <2>3. TableRight'
    BY <1>1, <1>2, <1>7, <2>1 DEF TableRight, Awaited, Right, WatcherTypeOK
  <2> QED
    BY <1>6, <2>2, <2>3
<1>8. CASE stream
  <2>1. PICK n \in DOMAIN svcEvents' :
          /\ svcEvents'[n] = e
          /\ \A i \in DOMAIN svcEvents : n > i /\ i \in DOMAIN svcEvents' /\ svcEvents'[i] = svcEvents[i]
          /\ DOMAIN svcEvents' = DOMAIN svcEvents \cup {n}
    BY <1>3, <1>4, <1>8, Reporting, SMT DEF WatcherTypeOK
  <2>2. DeletionsSuperseded'
    <3> SUFFICES ASSUME NEW i \in DOMAIN svcEvents', svcEvents'[i].type = "DELETED",
                        svcEvents'[i].service \in exists'
                 PROVE  \E j \in DOMAIN svcEvents' : j > i /\ svcEvents'[j].service = svcEvents'[i].service
      BY DEF DeletionsSuperseded
    <3>1. i # n
      BY <1>1, <1>3, <2>1
    <3>2. i \in DOMAIN svcEvents /\ svcEvents'[i] = svcEvents[i]
      BY <2>1, <3>1
    <3>3. CASE svcEvents[i].service = s
      BY <1>3, <2>1, <3>2, <3>3
    <3>4. CASE svcEvents[i].service # s
      <4>1. svcEvents[i].service \in exists
        BY <1>1, <3>2, <3>4
      <4> QED
        BY <2>1, <3>2, <4>1 DEF DeletionsSuperseded
    <3> QED
      BY <3>3, <3>4
  <2>3. \A x : Awaited(x) => Awaited(x)'
    BY <2>1 DEF Awaited
  <2>4. Awaited(s)'
    BY <1>3, <2>1 DEF Awaited
  <2>5. \A x \in current' : x # s => (Right(x) <=> Right(x)')
    BY <1>1, <1>2 DEF Right
  <2>6. TableRight'
    BY <1>1, <1>2, <2>3, <2>4, <2>5 DEF TableRight
  <2> QED
    BY <1>6, <2>2, <2>6
<1> QED
  BY <1>7, <1>8 DEF WatcherTypeOK

\* The endpoints of a service come or go without an event: it is no longer current.
LEMMA EndpointsStep ==
  ASSUME WatcherInv, NEW s \in Services, EndpointsChange(s)
  PROVE  WatcherInv'
<1> USE DEF WatcherInv
<1>1. WatcherTypeOK'
  BY DEF EndpointsChange, WatcherTypeOK
<1>2. DeletionsSuperseded'
  BY DEF EndpointsChange, DeletionsSuperseded
<1>3. \A x : x # s => (Right(x) <=> Right(x)')
  BY DEF EndpointsChange, Right, WatcherTypeOK
<1>4. TableRight'
  BY <1>3 DEF EndpointsChange, TableRight, Awaited
<1> QED
  BY <1>1, <1>2, <1>4

\* The top of the watcher's loop, and close().
LEMMA LoopStep ==
  ASSUME WatcherInv, SvcCheck \/ SvcClose
  PROVE  WatcherInv'
<1> USE DEF WatcherInv, WatcherTypeOK
<1>1. CASE SvcCheck
  <2>1. WatcherTypeOK'
    BY <1>1 DEF SvcCheck
  <2>2. DeletionsSuperseded' /\ TableRight'
    BY <1>1 DEF SvcCheck, DeletionsSuperseded, TableRight, Awaited, Right
  <2> QED
    BY <2>1, <2>2
<1>2. CASE SvcClose
  <2>1. WatcherTypeOK'
    BY <1>2 DEF SvcClose
  <2>2. DeletionsSuperseded' /\ TableRight'
    BY <1>2 DEF SvcClose, DeletionsSuperseded, TableRight, Awaited, Right
  <2> QED
    BY <2>1, <2>2
<1> QED
  BY <1>1, <1>2

\* A new stream brings an event of every service there is and no deletion.
LEMMA OpenStep ==
  ASSUME WatcherInv, SvcOpen
  PROVE  WatcherInv'
<1> USE DEF WatcherInv
<1>1. PICK order \in SetToSeqs(exists) :
        svcEvents' = [i \in DOMAIN order |-> [type |-> "ADDED", service |-> order[i]]]
  BY DEF SvcOpen
<1>2. svcEvents' \in Seq(SvcEvent) /\ \A i \in DOMAIN svcEvents' : svcEvents'[i].type = "ADDED"
  BY <1>1, Listing DEF WatcherTypeOK
<1>3. WatcherTypeOK'
  BY <1>2 DEF SvcOpen, WatcherTypeOK
<1>4. DeletionsSuperseded'
  BY <1>2 DEF DeletionsSuperseded
<1>5. \A s : Right(s) => Right(s)'
  BY DEF SvcOpen, Right
<1>6. \A s : ~Awaited(s)
  BY SMT DEF SvcOpen, Awaited, WatcherTypeOK
<1>7. TableRight'
  BY <1>5, <1>6 DEF SvcOpen, TableRight
<1> QED
  BY <1>3, <1>4, <1>7

\* The end of a stream: the services whose events are lost with it are no longer
\* current.
LEMMA EndStep ==
  ASSUME WatcherInv, SvcTimesOut \/ SvcRaises \/ ReadGone
  PROVE  WatcherInv'
<1> USE DEF WatcherInv
<1>1. /\ svcWatcher \in {"waiting", "applying"} /\ EndStream
      /\ UNCHANGED <<exists, serving, engines, watching, stopFlag>>
      /\ current' \subseteq current
      /\ \A s \in current' : /\ svcWatcher = "applying" => examined.service # s
                             /\ \A i \in DOMAIN svcEvents : svcEvents[i].service # s
  BY SMT DEF SvcTimesOut, SvcRaises, ReadGone, LoseStream
<1>2. WatcherTypeOK'
  <2>1. svcEvents' \in Seq(SvcEvent)
    BY <1>1, SMT DEF EndStream
  <2>2. examined' \in [type : {"NONE", "ADDED", "MODIFIED"}, service : Services \cup {NoService},
                       ok : BOOLEAN]
    BY <1>1 DEF EndStream, NotExamining
  <2>3. stream' = FALSE
    BY <1>1 DEF EndStream
  <2> QED
    BY <1>1, <2>1, <2>2, <2>3 DEF EndStream, WatcherTypeOK
<1>3. DeletionsSuperseded'
  BY <1>1, SMT DEF EndStream, DeletionsSuperseded
<1>4. \A s \in current' : s \in current /\ ~Awaited(s)
  BY <1>1 DEF Awaited
<1>5. \A s \in current' : Right(s) => Right(s)'
  BY <1>1 DEF EndStream, Right
<1>6. TableRight'
  BY <1>1, <1>4, <1>5 DEF TableRight
<1> QED
  BY <1>2, <1>3, <1>6

\* Reading a deletion: if the service is gone the table is right about it, and if it
\* is there again an event of it follows.
LEMMA DeletedStep ==
  ASSUME WatcherInv, SvcDeleted
  PROVE  WatcherInv'
<1> USE DEF WatcherInv
<1> DEFINE q == svcEvents
           d == Head(q).service
<1>1. /\ svcWatcher = "waiting" /\ q # <<>> /\ Head(q).type = "DELETED"
      /\ engines' = engines \ {d}
      /\ current' = IF d \in exists THEN current ELSE current \cup {d}
      /\ UNCHANGED <<exists, serving, examined, watching, stopFlag>>
  BY DEF SvcDeleted
<1>2. /\ svcWatcher' = IF stopFlag THEN "check" ELSE "waiting"
      /\ stream' = ~stopFlag
      /\ svcEvents' = IF stopFlag THEN <<>> ELSE Tail(q)
  BY DEF SvcDeleted, NextEvent
<1>3. q \in Seq(SvcEvent)
  BY DEF WatcherTypeOK
<1>4. /\ Head(q) = q[1] /\ 1 \in DOMAIN q /\ Head(q) \in SvcEvent
      /\ Tail(q) \in Seq(SvcEvent)
      /\ \A i \in DOMAIN Tail(q) : i + 1 \in DOMAIN q /\ Tail(q)[i] = q[i + 1] /\ i \in Nat
      /\ \A i \in DOMAIN q : i # 1 => i - 1 \in DOMAIN Tail(q) /\ Tail(q)[i - 1] = q[i]
      /\ DOMAIN q \in SUBSET (Nat \ {0})
  BY <1>1, <1>3, Reading, SMT
<1>5. d \in Services
  BY <1>4 DEF SvcEvent
<1>6. WatcherTypeOK'
  <2>1. svcEvents' \in Seq(SvcEvent)
    BY <1>2, <1>4, SMT
  <2>2. stream' \in BOOLEAN /\ (stream' <=> svcWatcher' \in {"waiting", "applying"})
    BY <1>2 DEF WatcherTypeOK
  <2>3. ~stream' => svcEvents' = <<>>
    BY <1>2
  <2> QED
    BY <1>1, <1>2, <1>5, <2>1, <2>2, <2>3 DEF WatcherTypeOK
<1>7. DeletionsSuperseded'
  <2> SUFFICES ASSUME ~stopFlag, NEW i \in DOMAIN Tail(q), Tail(q)[i].type = "DELETED",
                      Tail(q)[i].service \in exists
               PROVE  \E j \in DOMAIN Tail(q) : j > i /\ Tail(q)[j].service = Tail(q)[i].service
    BY <1>1, <1>2, SMT DEF DeletionsSuperseded
  <2>1. PICK k \in DOMAIN q : k > i + 1 /\ q[k].service = q[i + 1].service
    BY <1>4 DEF DeletionsSuperseded
  <2>2. k - 1 \in DOMAIN Tail(q) /\ Tail(q)[k - 1] = q[k] /\ k - 1 > i
    BY <1>4, <2>1, SMT
  <2> QED
    BY <1>4, <2>1, <2>2
<1>8. TableRight'
  <2> SUFFICES ASSUME ~stopFlag, NEW s \in current', ~Awaited(s)'
               PROVE  Right(s)'
    BY <1>1, <1>2 DEF TableRight, WatcherTypeOK
  <2>1. \A i \in DOMAIN Tail(q) : Tail(q)[i].service # s
    BY <1>2 DEF Awaited
  <2>2. \A i \in DOMAIN q : i # 1 => q[i].service # s
    BY <1>4, <2>1
  <2>3. CASE s = d
    <3>1. d \notin exists
      <4>1. \A j \in DOMAIN q : ~(j > 1 /\ q[j].service = q[1].service)
        BY <1>4, <2>2, <2>3, SMT
      <4> QED
        BY <1>1, <1>4, <4>1 DEF DeletionsSuperseded
    <3> QED
      BY <1>1, <1>2, <2>3, <3>1 DEF Right, WatcherTypeOK
  <2>4. CASE s # d
    <3>1. s \in current /\ ~Awaited(s)
      BY <1>1, <1>4, <2>2, <2>4 DEF Awaited
    <3>2. Right(s)
      BY <1>1, <3>1 DEF TableRight
    <3> QED
      BY <1>1, <1>2, <2>4, <3>2 DEF Right
  <2> QED
    BY <2>3, <2>4
<1> QED
  BY <1>6, <1>7, <1>8

\* Asking about the service of an event: either the answer is what the cluster says
\* now, or the query failed and the service is not current.
LEMMA ExamineStep ==
  ASSUME WatcherInv, Examine
  PROVE  WatcherInv'
<1> USE DEF WatcherInv
<1> DEFINE q == svcEvents
           d == Head(q).service
<1>1. /\ svcWatcher = "waiting" /\ q # <<>> /\ Head(q).type # "DELETED"
      /\ svcWatcher' = "applying" /\ svcEvents' = Tail(q)
      /\ UNCHANGED <<exists, serving, stream, engines, watching, stopFlag>>
  BY DEF Examine
<1>2. /\ examined'.service = d
      /\ \/ (examined'.ok <=> d \in serving) /\ current' = current \cup {d}
         \/ current' = current \ {d}
  <2>1. CASE /\ examined' = [type |-> Head(q).type, service |-> d, ok |-> d \in serving]
             /\ current' = current \cup {d}
    BY <2>1
  <2>2. CASE /\ examined' = [type |-> Head(q).type, service |-> d, ok |-> FALSE]
             /\ current' = current \ {d}
    BY <2>2
  <2> QED
    BY <2>1, <2>2 DEF Examine
<1>3. q \in Seq(SvcEvent)
  BY DEF WatcherTypeOK
<1>4. /\ Head(q) = q[1] /\ 1 \in DOMAIN q /\ Head(q) \in SvcEvent
      /\ Tail(q) \in Seq(SvcEvent)
      /\ \A i \in DOMAIN Tail(q) : i + 1 \in DOMAIN q /\ Tail(q)[i] = q[i + 1] /\ i \in Nat
      /\ \A i \in DOMAIN q : i # 1 => i - 1 \in DOMAIN Tail(q) /\ Tail(q)[i - 1] = q[i]
      /\ DOMAIN q \in SUBSET (Nat \ {0})
  BY <1>1, <1>3, Reading, SMT
<1>5. d \in Services /\ Head(q).type \in {"ADDED", "MODIFIED"}
  BY <1>1, <1>4 DEF SvcEvent
<1>6. WatcherTypeOK'
  <2>1. examined' \in [type : {"NONE", "ADDED", "MODIFIED"}, service : Services \cup {NoService},
                       ok : BOOLEAN]
    <3>1. PICK b \in BOOLEAN : examined' = [type |-> Head(q).type, service |-> d, ok |-> b]
      <4>1. \/ examined' = [type |-> Head(q).type, service |-> d, ok |-> d \in serving]
            \/ examined' = [type |-> Head(q).type, service |-> d, ok |-> FALSE]
        BY DEF Examine
      <4>2. (d \in serving) \in BOOLEAN
        BY SMT
      <4> QED
        BY <4>1, <4>2
    <3> QED
      BY <1>5, <3>1
  <2>2. stream
    BY <1>1 DEF WatcherTypeOK
  <2> QED
    BY <1>1, <1>2, <1>4, <1>5, <2>1, <2>2 DEF WatcherTypeOK
<1>7. DeletionsSuperseded'
  <2> SUFFICES ASSUME NEW i \in DOMAIN Tail(q), Tail(q)[i].type = "DELETED",
                      Tail(q)[i].service \in exists
               PROVE  \E j \in DOMAIN Tail(q) : j > i /\ Tail(q)[j].service = Tail(q)[i].service
    BY <1>1 DEF DeletionsSuperseded
  <2>1. PICK k \in DOMAIN q : k > i + 1 /\ q[k].service = q[i + 1].service
    BY <1>4 DEF DeletionsSuperseded
  <2>2. k - 1 \in DOMAIN Tail(q) /\ Tail(q)[k - 1] = q[k] /\ k - 1 > i
    BY <1>4, <2>1, SMT
  <2> QED
    BY <1>4, <2>1, <2>2
<1>8. TableRight'
  <2> SUFFICES ASSUME NEW s \in current', ~Awaited(s)'
               PROVE  Right(s)'
    BY DEF TableRight
  <2>1. CASE s = d
    BY <1>1, <1>2, <2>1 DEF Right
  <2>2. CASE s # d
    <3>1. \A i \in DOMAIN q : q[i].service # s
      BY <1>1, <1>4, <2>2 DEF Awaited
    <3>2. s \in current /\ Right(s)
      BY <1>1, <1>2, <2>2, <3>1 DEF Awaited, TableRight
    <3> QED
      BY <1>1, <1>2, <2>2, <3>2 DEF Right
  <2> QED
    BY <2>1, <2>2
<1> QED
  BY <1>6, <1>7, <1>8

\* Acting on the answer.
LEMMA ApplyStep ==
  ASSUME WatcherInv, _on_engine_update
  PROVE  WatcherInv'
<1> USE DEF WatcherInv
<1> DEFINE d == examined.service
<1>1. /\ svcWatcher = "applying"
      /\ engines' = IF examined.ok THEN engines \cup {d}
                    ELSE IF examined.type = "ADDED" THEN engines ELSE engines \ {d}
      /\ current' = IF examined.type = "ADDED" /\ ~examined.ok /\ d \in engines
                    THEN current \ {d} ELSE current
      /\ examined' = NotExamining
      /\ UNCHANGED <<exists, serving, watching, stopFlag>>
  BY DEF _on_engine_update
<1>2. /\ svcWatcher' = IF stopFlag THEN "check" ELSE "waiting"
      /\ stream' = ~stopFlag
      /\ svcEvents' = IF stopFlag THEN <<>> ELSE svcEvents
  BY DEF _on_engine_update, NextEvent
<1>3. WatcherTypeOK'
  <2>1. svcEvents' \in Seq(SvcEvent)
    BY <1>2, SMT DEF WatcherTypeOK
  <2>2. stream' \in BOOLEAN /\ (stream' <=> svcWatcher' \in {"waiting", "applying"})
    BY <1>2 DEF WatcherTypeOK
  <2>3. examined' \in [type : {"NONE", "ADDED", "MODIFIED"}, service : Services \cup {NoService},
                       ok : BOOLEAN]
    BY <1>1 DEF NotExamining
  <2>4. engines' \in SUBSET Services
    BY <1>1 DEF WatcherTypeOK, _on_engine_update
  <2> QED
    BY <1>1, <1>2, <2>1, <2>2, <2>3, <2>4 DEF WatcherTypeOK
<1>4. DeletionsSuperseded'
  BY <1>1, <1>2, SMT DEF DeletionsSuperseded
<1>5. TableRight'
  <2> SUFFICES ASSUME ~stopFlag, NEW s \in current', ~Awaited(s)'
               PROVE  s \in engines' <=> s \in serving
    BY <1>1, <1>2 DEF TableRight, Right, WatcherTypeOK
  <2>1. s \in current /\ Right(s)
    BY <1>1, <1>2 DEF TableRight, Awaited
  <2> QED
    BY <1>1, <2>1 DEF Right
<1> QED
  BY <1>3, <1>4, <1>5

LEMMA WatcherStep ==
  ASSUME WatcherInv, ServiceStep \/ SvcClose
  PROVE  WatcherInv'
BY ChangeStep, EndpointsStep, LoopStep, OpenStep, EndStep, DeletedStep, ExamineStep, ApplyStep
   DEF ServiceStep, SvcWatcherStep

-----------------------------------------------------------------------------
(* The threads together *)

LEMMA ThreadsStep ==
  ASSUME ThreadsInv, [ThreadsNext]_threadVars
  PROVE  ThreadsInv'
<1> USE DEF ThreadsInv
<1>1. CASE DiscoveryThread
  BY <1>1, WatcherStep, WatcherFrame, HealthStep, HealthFrame, ScrapeFrame DEF DiscoveryThread
<1>2. CASE ScraperThread
  BY <1>2, WatcherFrame, HealthFrame, ScrapeStep DEF ScraperThread
<1>3. CASE MetricsMove
  BY <1>3, WatcherFrame, HealthFrame, ScrapeStep DEF MetricsMove
<1>4. CASE CloseScraper
  BY <1>4, WatcherFrame, HealthFrame, ScrapeStep DEF CloseScraper
<1>5. CASE CloseDiscovery
  BY <1>5, WatcherStep, WatcherFrame, HealthStep, HealthFrame, ScrapeFrame DEF CloseDiscovery
<1>6. CASE DiscoveryClosed \/ CloseGivesUp
  BY <1>6, WatcherFrame, HealthFrame, ScrapeFrame DEF DiscoveryClosed, CloseGivesUp
<1>7. CASE UNCHANGED threadVars
  BY <1>7, WatcherFrame, HealthFrame, ScrapeFrame DEF threadVars
<1> QED
  BY <1>1, <1>2, <1>3, <1>4, <1>5, <1>6, <1>7 DEF ThreadsNext, LifespanStep, Ended

LEMMA ThreadsInvariant == ThreadsSpec => []ThreadsInv
<1>1. ThreadsInit => ThreadsInv
  BY WatcherInitially, HealthInitially, ScrapeInitially
     DEF ThreadsInit, ThreadsInv
<1>2. ThreadsInv /\ [ThreadsNext]_threadVars => ThreadsInv'
  BY ThreadsStep
<1> QED
  BY <1>1, <1>2, PTL DEF ThreadsSpec

\* For any number of services, events and faults: once the watcher of
\* K8sServiceNameServiceDiscovery has caught up, its table is right about every
\* service that has not changed since the watcher acted upon it.
THEOREM ServiceTable == ThreadsSpec => []TableAsExamined
<1>1. ThreadsInv => TableAsExamined
  BY SMT DEF ThreadsInv, WatcherInv, WatcherTypeOK, TableRight, Awaited, Right, TableAsExamined
<1> QED
  BY <1>1, ThreadsInvariant, PTL

\* For any backends: StaticServiceDiscovery offers a checked backend whose health has
\* not changed since the last round began if and only if it is healthy.
THEOREM HealthOffered == ThreadsSpec => []OfferedAsChecked
<1>1. ThreadsInv => OfferedAsChecked
  BY DEF ThreadsInv, HealthInv, OfferedAsChecked, get_endpoint_info
<1> QED
  BY <1>1, ThreadsInvariant, PTL

\* For any engines and whatever the discovery returns: the statistics that routing
\* decisions read are figures of the last completed round of EngineStatsScraper.
THEOREM StatisticsRecent == ThreadsSpec => []StatsAreRecent
<1>1. ThreadsInv => StatsAreRecent
  BY DEF ThreadsInv, ScrapeInv, StatsAreRecent
<1> QED
  BY <1>1, ThreadsInvariant, PTL

-----------------------------------------------------------------------------
(* The shutdown *)

\* When lifespan is through, no thread that it closes is running any more.
NothingRuns ==
  lifespan = "closed" =>
    /\ scraper = "over"
    /\ IF discovery = "static" THEN task = "over" ELSE svcWatcher = "stopped"

\* Whoever is waited for has been told to stop.
StopTold ==
  /\ lifespan # "serving" => ~scraper_running
  /\ lifespan \in {"discovery", "closed", "aborted"} =>
       IF discovery = "static" THEN ~checks_running /\ shutdown \in {"scheduled", "done"}
       ELSE ~watching

ShutdownInv ==
  /\ StopTold /\ NothingRuns
  /\ lifespan \in {"discovery", "closed", "aborted"} => scraper = "over"
  /\ shutdown = "done" => task = "over"

\* The parts of the state that a shutdown goes by.
LEMMA DiscoveryMoves ==
  ASSUME DiscoveryThread
  PROVE  /\ UNCHANGED <<discovery, lifespan, scraper, todo, scraper_running, checks_running, watching>>
         /\ shutdown' = shutdown \/ (shutdown = "scheduled" /\ shutdown' = "done" /\ task' = "over")
         /\ task = "over" => task' = "over"
         /\ svcWatcher = "stopped" => svcWatcher' = "stopped"
<1>1. UNCHANGED <<discovery, lifespan>> /\ UNCHANGED scraperVars
  BY DEF DiscoveryThread
<1>2. CASE ServiceStep /\ UNCHANGED staticVars
  BY <1>1, <1>2 DEF ServiceStep, ServiceChanges, EndpointsChange, SvcWatcherStep, SvcTimesOut,
    SvcRaises, SvcCheck, SvcOpen, SvcDeleted, Examine, ReadGone, _on_engine_update, LoseStream,
    scraperVars, staticVars
<1>3. CASE StaticStep /\ UNCHANGED svcVars
  BY <1>1, <1>3 DEF StaticStep, Flip, HealthThreadStep, StartRound, CheckOne, EndRound, WakeUp,
    RoundRaises, RunShutdown, scraperVars, svcVars
<1> QED
  BY <1>2, <1>3 DEF DiscoveryThread

LEMMA ShutdownStep ==
  ASSUME ShutdownInv, [ThreadsNext]_threadVars
  PROVE  ShutdownInv'
<1> USE DEF ShutdownInv, StopTold, NothingRuns
<1>1. CASE DiscoveryThread
  BY <1>1, DiscoveryMoves, SMT
<1>2. CASE ScraperThread
  <2>1. /\ UNCHANGED <<discovery, lifespan, scraper_running>>
        /\ UNCHANGED svcVars /\ UNCHANGED staticVars
        /\ scraper # "over"
    BY <1>2 DEF ScraperThread, ScraperStep, ReadEndpoints, Scrape, StoreRound, Rested
  <2> QED
    BY <2>1 DEF svcVars, staticVars
<1>3. CASE MetricsMove
  BY <1>3, SMT DEF MetricsMove, MetricMoves, svcVars, staticVars
<1>4. CASE CloseScraper
  BY <1>4 DEF CloseScraper, StopScraper, svcVars, staticVars
<1>5. CASE CloseDiscovery
  BY <1>5 DEF CloseDiscovery, SvcClose, StartClose, svcVars, staticVars, scraperVars
<1>6. CASE DiscoveryClosed \/ CloseGivesUp
  BY <1>6, SMT DEF DiscoveryClosed, CloseGivesUp, svcVars, staticVars, scraperVars
<1>7. CASE UNCHANGED threadVars
  BY <1>7 DEF threadVars, svcVars, staticVars, scraperVars
<1> QED
  BY <1>1, <1>2, <1>3, <1>4, <1>5, <1>6, <1>7 DEF ThreadsNext, LifespanStep, Ended

\* lifespan waits only for threads that it has told to stop, and when it is through
\* the scraper and the thread of the discovery are over, whichever discovery it is.
THEOREM ShutdownJoins == ThreadsSpec => [](StopTold /\ NothingRuns)
<1>1. ThreadsInit => ShutdownInv
  BY DEF ThreadsInit, StaticInit, ShutdownInv, StopTold, NothingRuns
<1>2. ShutdownInv /\ [ThreadsNext]_threadVars => ShutdownInv'
  BY ShutdownStep
<1>3. ShutdownInv => StopTold /\ NothingRuns
  BY DEF ShutdownInv
<1> QED
  BY <1>1, <1>2, <1>3, PTL DEF ThreadsSpec

LEMMA ScraperWinds ==
  ASSUME ~scraper_running, ScraperThread
  PROVE  /\ ~scraper_running'
         /\ \/ scraper' = scraper /\ todo' \subseteq todo
            \/ <<scraper, scraper'>> \in {<<"scraping", "sleeping">>, <<"sleeping", "between">>,
                                          <<"between", "over">>}
<1>1. /\ UNCHANGED scraper_running
      /\ \/ scraper = "between" /\ scraper' = "over"
         \/ UNCHANGED scraper /\ \E e : todo' = todo \ {e}
         \/ scraper = "scraping" /\ scraper' = "sleeping"
         \/ scraper = "sleeping" /\ scraper' = "between"
  BY DEF ScraperThread, ScraperStep, ReadEndpoints, Scrape, StoreRound, Rested
<1> QED
  BY <1>1, SMT

LEMMA HealthWinds ==
  ASSUME ~checks_running, StaticStep
  PROVE  /\ ~checks_running'
         /\ \/ task' = task /\ unchecked' \subseteq unchecked
            \/ <<task, task'>> \in {<<"checking", "sleeping">>, <<"checking", "between">>,
                                    <<"sleeping", "between">>, <<"sleeping", "over">>,
                                    <<"between", "over">>}
<1>1. CASE RunShutdown
  BY <1>1 DEF RunShutdown
<1>2. CASE ~RunShutdown
  <2>1. /\ UNCHANGED checks_running
        /\ \/ UNCHANGED <<task, unchecked>>
           \/ task = "between" /\ task' = "over"
           \/ UNCHANGED task /\ \E b : unchecked' = unchecked \ {b}
           \/ task = "checking" /\ task' \in {"sleeping", "between"}
           \/ task = "sleeping" /\ task' = "between"
    BY <1>2 DEF StaticStep, Flip, HealthThreadStep, StartRound, CheckOne, EndRound, WakeUp,
      RoundRaises
  <2> QED
    BY <2>1
<1> QED
  BY <1>1, <1>2

LEMMA WatcherWinds ==
  ASSUME ~watching, ServiceStep
  PROVE  /\ ~watching'
         /\ \/ svcWatcher' = svcWatcher
            \/ <<svcWatcher, svcWatcher'>> \in
                 {<<"opening", "waiting">>, <<"waiting", "applying">>, <<"applying", "waiting">>,
                  <<"waiting", "check">>, <<"applying", "check">>, <<"check", "stopped">>}
BY SMT DEF ServiceStep, ServiceChanges, EndpointsChange, SvcWatcherStep, SvcTimesOut, SvcRaises,
  SvcCheck, SvcOpen, SvcDeleted, Examine, ReadGone, _on_engine_update, LoseStream, EndStream, NextEvent

\* Once told to stop, the scraper and the health checks do no more than end their round,
\* and the watcher opens no stream after the one it has or is opening: the order along
\* which ShutdownEnds holds.
THEOREM ThreadsWindDown == ThreadsSpec => WindsDown
<1>1. [ThreadsNext]_threadVars => Winding
  <2> SUFFICES ASSUME [ThreadsNext]_threadVars PROVE Winding
    OBVIOUS
  <2>1. CASE DiscoveryThread
    <3>1. UNCHANGED <<scraper, todo, scraper_running>>
      BY <2>1 DEF DiscoveryThread, scraperVars
    <3>2. CASE ServiceStep /\ UNCHANGED staticVars
      BY <3>1, <3>2, WatcherWinds DEF Winding, staticVars
    <3>3. CASE StaticStep /\ UNCHANGED svcVars
      BY <3>1, <3>3, HealthWinds DEF Winding, svcVars
    <3> QED
      BY <2>1, <3>2, <3>3 DEF DiscoveryThread
  <2>2. CASE ScraperThread
    <3>1. UNCHANGED <<task, unchecked, checks_running, svcWatcher, watching>>
      BY <2>2 DEF ScraperThread, svcVars, staticVars
    <3> QED
      BY <2>2, <3>1, ScraperWinds DEF Winding
  <2>3. CASE ~DiscoveryThread /\ ~ScraperThread
    <3>1. /\ UNCHANGED <<scraper, todo, task, unchecked, svcWatcher>>
          /\ ~scraper_running => ~scraper_running'
          /\ ~checks_running => ~checks_running'
          /\ ~watching => ~watching'
      BY <2>3, SMT DEF ThreadsNext, LifespanStep, Ended, MetricsMove, MetricMoves, CloseScraper,
        StopScraper, CloseDiscovery, SvcClose, StartClose, DiscoveryClosed, CloseGivesUp,
        threadVars, svcVars, staticVars, scraperVars
    <3> QED
      BY <3>1 DEF Winding
  <2> QED
    BY <2>1, <2>2, <2>3
<1> QED
  BY <1>1, PTL DEF ThreadsSpec, WindsDown, Winding

=============================================================================
