------------------------- MODULE PodDiscoveryProofs -------------------------
(***************************************************************************)
(* Proofs about PodDiscovery, for any finite set of pods, any models and   *)
(* any number of changes, broken streams and failing queries.              *)
(***************************************************************************)
EXTENDS PodDiscovery, FiniteSetTheorems, SequenceTheorems, TLAPS

\* Leaves are left to Zenon; those that need arithmetic or sequences cite SMT.
USE Zenon

States == {"absent", "noip", "unready", "ready", "terminating"}

\* A pod that is gone is reported as deleted, and no other.
PodEvent ==
  {e \in [type : {"ADDED", "MODIFIED", "DELETED"}, pod : Pods, state : States] :
     e.type = "DELETED" <=> e.state = "absent"}

Handling == {"naming", "adding", "added", "scheduled", "noting"}

DiscoveryTypeOK ==
  /\ pods \in [Pods -> States]
  /\ queue \in Seq(PodEvent)
  /\ connected \in BOOLEAN /\ running \in BOOLEAN /\ stop \in BOOLEAN
  /\ event_loop_ready \in BOOLEAN
  /\ watcher \in {"check", "opening", "waiting", "stopped"} \cup Handling
  /\ available_engines \in [Pods -> SUBSET Models]
  /\ clients \in [Roles -> Pods \cup {NoPod}]
  /\ connected <=> watcher \in {"waiting"} \cup Handling
  /\ ~connected => queue = <<>>
  /\ stop => ~running
  /\ watcher \in Handling => event \in PodEvent /\ event.state = "ready"
  /\ watcher = "adding" => names # {} /\ names \subseteq Models

\* The watcher goes on: it has not stopped and is not about to.
Watching == watcher # "stopped" /\ (watcher = "check" => running)

\* The event of the pod that the watcher has in hand will change the table.
InHand(p) == watcher \in {"naming", "adding"} /\ event.pod = p

Sent(p) == \E i \in DOMAIN queue : queue[i].pod = p

\* The last event of a pod says how the pod is.
LastIsTrue ==
  /\ \A i \in DOMAIN queue :
       (\A j \in DOMAIN queue : j > i => queue[j].pod # queue[i].pod) =>
         queue[i].state = pods[queue[i].pod]
  /\ \A p \in Pods : InHand(p) /\ ~Sent(p) => pods[p] = "ready"

\* An ADDED event never takes an engine out of the table.  Where it says that its pod
\* is not ready it comes right after the deletion of the pod, or else the pod is not
\* in the table, or is one of those that changed unseen.
AddedIsNew ==
  \A i \in DOMAIN queue : queue[i].type = "ADDED" /\ queue[i].state # "ready" =>
    /\ \A j \in DOMAIN queue :
         (/\ j < i /\ queue[j].pod = queue[i].pod
          /\ \A k \in DOMAIN queue : j < k /\ k < i => queue[k].pod # queue[i].pod) =>
           queue[j].type = "DELETED"
    /\ (\A j \in DOMAIN queue : j < i => queue[j].pod # queue[i].pod) =>
         ~InHand(queue[i].pod) /\ queue[i].pod \notin Listed \ missed

\* The table is right about the pods no event of which is still to come.
TableRight ==
  Watching => \A p \in Pods : Sent(p) \/ InHand(p)
    \/ /\ p \in Listed \ missed => pods[p] = "ready"
       /\ connected /\ pods[p] = "ready" => p \in Listed \cup refused

TableInv == DiscoveryTypeOK /\ LastIsTrue /\ AddedIsNew /\ TableRight

\* Models that are routable and not yet known are those of the engine just added.
KnownSoFar ==
  /\ watcher \in {"added", "scheduled", "noting"} => available_engines[event.pod] = names
  /\ \A m \in advertised :
       m \in known_models \/ (watcher \in {"added", "scheduled", "noting"} /\ m \in names)

\* Once lifespan has opened the sessions, only the engine just added may lack one.
SessionsSoFar ==
  /\ loop # "starting" => event_loop_ready
  /\ loop = "running" =>
       \A p \in Listed : clients[Role(p)] # NoPod
                           \/ (watcher \in {"added", "scheduled"} /\ p = event.pod)

DiscoveryInv == TableInv /\ KnownSoFar /\ SessionsSoFar

-----------------------------------------------------------------------------
(* Queues of events *)

\* Reading the first event moves the others up by one.
LEMMA Reading ==
  ASSUME NEW S, NEW q \in Seq(S), q # <<>>
  PROVE  /\ Head(q) = q[1] /\ 1 \in DOMAIN q /\ Head(q) \in S
         /\ Tail(q) \in Seq(S)
         /\ \A i \in DOMAIN Tail(q) : /\ i \in Nat \ {0} /\ i + 1 \in DOMAIN q
                                      /\ Tail(q)[i] = q[i + 1]
         /\ \A i \in DOMAIN q : /\ i \in Nat \ {0}
                                /\ i # 1 => i - 1 \in DOMAIN Tail(q) /\ Tail(q)[i - 1] = q[i]
BY SMT

\* Reporting an event puts it behind the others.
LEMMA Reporting ==
  ASSUME NEW S, NEW q \in Seq(S), NEW e \in S
  PROVE  /\ Append(q, e) \in Seq(S)
         /\ \A i \in DOMAIN q : i \in Nat /\ Append(q, e)[i] = q[i]
         /\ \E n \in Nat : /\ Append(q, e)[n] = e
                           /\ \A i \in DOMAIN q : n > i
                           /\ DOMAIN Append(q, e) = DOMAIN q \cup {n}
<1>1. DOMAIN Append(q, e) = 1 .. Len(q) + 1 /\ DOMAIN q = 1 .. Len(q)
  BY SMT
<1>2. Len(q) + 1 \in DOMAIN Append(q, e) /\ Append(q, e)[Len(q) + 1] = e
  BY SMT
<1> QED
  BY <1>1, <1>2, SMT

\* A listing has one event of each pod there is, which says how the pod is.
LEMMA Listing ==
  ASSUME pods \in [Pods -> States], NEW f \in Listings(Existing)
  PROVE  LET q == [i \in DOMAIN f |-> Event("ADDED", f[i], pods[f[i]])] IN
         /\ q \in Seq(PodEvent)
         /\ \A i \in DOMAIN q : q[i].type = "ADDED" /\ q[i].state = pods[q[i].pod]
         /\ \A i, j \in DOMAIN q : q[i].pod = q[j].pod => i = j
         /\ \A p \in Pods : pods[p] # "absent" => \E i \in DOMAIN q : q[i].pod = p
<1> DEFINE n == Cardinality(Existing)
           q == [i \in 1 .. n |-> Event("ADDED", f[i], pods[f[i]])]
<1>1. Existing \in SUBSET Pods /\ IsFiniteSet(Existing)
  BY PodsAssumption, FS_Subset DEF Existing
<1>2. n \in Nat
  BY <1>1, FS_CardinalityType
<1>3. /\ f \in [1 .. n -> Existing] /\ DOMAIN f = 1 .. n
      /\ \A i, j \in 1 .. n : f[i] = f[j] => i = j
  BY DEF Listings
<1>4. \A i \in 1 .. n : f[i] \in Pods /\ pods[f[i]] \in States \ {"absent"}
  BY <1>3 DEF Existing
<1>5. \A i \in 1 .. n : Event("ADDED", f[i], pods[f[i]]) \in PodEvent
  BY <1>4 DEF PodEvent, Event
<1>6. q \in [1 .. n -> PodEvent]
  BY <1>5
<1>7. \A i \in 1 .. n : q[i].type = "ADDED" /\ q[i].pod = f[i] /\ q[i].state = pods[f[i]]
  BY DEF Event
<1>8. \A p \in Existing : \E i \in 1 .. n : f[i] = p
  <2>1. IsFiniteSet(1 .. n) /\ Cardinality(1 .. n) = n
    BY <1>2, FS_Interval, SMT
  <2>2. f \in Injection(1 .. n, Existing)
    BY <1>3 DEF Injection, IsInjective
  <2>3. f \in Surjection(1 .. n, Existing)
    BY <1>1, <2>1, <2>2, FS_Injection
  <2> QED
    BY <2>3 DEF Surjection
<1>9. q = [i \in DOMAIN f |-> Event("ADDED", f[i], pods[f[i]])] /\ DOMAIN q = 1 .. n
  BY <1>3
<1> HIDE DEF n, q
<1>10. q \in Seq(PodEvent)
  BY <1>2, <1>6, SeqDef
<1>11. \A p \in Pods : pods[p] # "absent" => \E i \in DOMAIN q : q[i].pod = p
  BY <1>7, <1>8, <1>9, SMT DEF Existing
<1>12. \A i \in DOMAIN q : q[i].type = "ADDED" /\ q[i].state = pods[q[i].pod]
  BY <1>7, <1>9, SMT
<1>13. \A i, j \in DOMAIN q : q[i].pod = q[j].pod => i = j
  BY <1>3, <1>7, <1>9, SMT
<1> QED
  BY <1>9, <1>10, <1>11, <1>12, <1>13, SMT

-----------------------------------------------------------------------------
(* The table *)

LEMMA TableInitially == DiscoveryInit => TableInv
<1> SUFFICES ASSUME DiscoveryInit PROVE TableInv
  OBVIOUS
<1>1. /\ connected \in BOOLEAN /\ running \in BOOLEAN /\ stop \in BOOLEAN
      /\ event_loop_ready \in BOOLEAN /\ stop => ~running
  BY DEF DiscoveryInit
<1>2. connected <=> watcher \in {"waiting"} \cup Handling
  BY DEF DiscoveryInit, Handling
<1>3. queue \in Seq(PodEvent)
  BY SMT DEF DiscoveryInit
<1>4. DiscoveryTypeOK
  BY <1>1, <1>2, <1>3 DEF DiscoveryInit, DiscoveryTypeOK, States, Handling
<1>5. LastIsTrue /\ AddedIsNew
  BY SMT DEF DiscoveryInit, LastIsTrue, AddedIsNew, InHand
<1>6. TableRight
  <2>1. Listed = {} /\ ~connected
    BY DEF DiscoveryInit, Listed
  <2> QED
    BY <2>1 DEF TableRight
<1> QED
  BY <1>4, <1>5, <1>6 DEF TableInv

LEMMA TypeStep ==
  ASSUME DiscoveryTypeOK, [DiscoveryNext]_vars
  PROVE  DiscoveryTypeOK'
<1>0. <<>> \in Seq(PodEvent)
  BY SMT
<1> USE DEF DiscoveryTypeOK, Handling, clusterVars, loopVars, tableVars, threadVars
<1>1. ASSUME NEW p \in Pods, PodChanges(p) PROVE DiscoveryTypeOK'
  <2>1. PICK s \in NextStates(pods[p]) :
          /\ pods' = [pods EXCEPT ![p] = s]
          /\ LET t == IF pods[p] = "absent" THEN "ADDED"
                      ELSE IF s = "absent" THEN "DELETED" ELSE "MODIFIED" IN
             queue' = IF connected THEN Append(queue, Event(t, p, s)) ELSE queue
    BY <1>1 DEF PodChanges
  <2>2. s \in States /\ (pods[p] = "absent" => s # "absent")
    BY DEF NextStates, States
  <2>3. pods' \in [Pods -> States]
    BY <2>1, <2>2
  <2> DEFINE t == IF pods[p] = "absent" THEN "ADDED" ELSE IF s = "absent" THEN "DELETED" ELSE "MODIFIED"
  <2>4. Event(t, p, s) \in PodEvent
    BY <2>2 DEF Event, PodEvent
  <2> HIDE DEF t
  <2>5. Append(queue, Event(t, p, s)) \in Seq(PodEvent)
    BY <2>4, SMT
  <2>6. queue' \in Seq(PodEvent) /\ (~connected => queue' = <<>>)
    BY <2>1, <2>5 DEF t
  <2> QED
    BY <1>1, <2>3, <2>6 DEF PodChanges
<1>2. CASE CheckRunning
  BY <1>2 DEF CheckRunning
<1>3. CASE OpenStream
  <2>1. queue' \in Seq(PodEvent)
    BY <1>3, Listing, SMT DEF OpenStream
  <2> QED
    BY <1>3, <2>1 DEF OpenStream
<1>4. CASE StreamTimesOut \/ WatcherRaises
  <2>1. CloseStream /\ UNCHANGED <<pods, running, stop, event_loop_ready, available_engines, clients>>
    BY <1>4 DEF StreamTimesOut, WatcherRaises
  <2>2. watcher' = "check" /\ ~connected' /\ connected' \in BOOLEAN /\ queue' = <<>>
    BY <2>1 DEF CloseStream
  <2> QED
    BY <1>0, <2>1, <2>2
<1>5. CASE ReadUnreadyEvent
  <2>1. Head(queue) \in PodEvent /\ Tail(queue) \in Seq(PodEvent)
    BY <1>5, Reading DEF ReadUnreadyEvent
  <2>2. available_engines' \in [Pods -> SUBSET Models]
    BY <1>5, <2>1 DEF ReadUnreadyEvent, Discard, _delete_engine, PodEvent
  <2>3. watcher' = (IF stop THEN "check" ELSE "waiting") /\ connected' = ~stop
    BY <1>5 DEF ReadUnreadyEvent
  <2>4. connected' \in BOOLEAN /\ (connected' <=> watcher' = "waiting")
    BY <2>3
  <2>5. queue' \in Seq(PodEvent) /\ (~connected' => queue' = <<>>)
    <3>1. queue' = IF stop THEN <<>> ELSE Tail(queue)
      BY <1>5 DEF ReadUnreadyEvent
    <3> QED
      BY <1>0, <2>1, <2>3, <3>1
  <2> QED
    BY <1>5, <2>2, <2>3, <2>4, <2>5 DEF ReadUnreadyEvent
<1>6. CASE ReadReadyEvent
  <2>1. Head(queue) \in PodEvent /\ Tail(queue) \in Seq(PodEvent)
    BY <1>6, Reading DEF ReadReadyEvent
  <2>2. Head(queue).state = "ready"
    BY <1>6, <2>1 DEF ReadReadyEvent, is_pod_ready, is_container_ready, _is_pod_terminating
  <2> QED
    BY <1>6, <2>1, <2>2 DEF ReadReadyEvent
<1>7. CASE _get_model_names
  <2>1. CASE names' # {}
    BY <1>7, <2>1 DEF _get_model_names
  <2>2. CASE names' = {}
    <3>1. available_engines' \in [Pods -> SUBSET Models]
      BY <1>7, <2>2 DEF _get_model_names, Discard, _delete_engine, PodEvent
    <3>2. watcher' = (IF stop THEN "check" ELSE "waiting") /\ connected' = ~stop
      BY <1>7, <2>2 DEF _get_model_names, AfterEvent
    <3>3. connected' \in BOOLEAN /\ (connected' <=> watcher' = "waiting")
      BY <3>2
    <3>4. queue' \in Seq(PodEvent) /\ (~connected' => queue' = <<>>)
      <4>1. queue' = IF stop THEN <<>> ELSE queue
        BY <1>7, <2>2 DEF _get_model_names, AfterEvent
      <4> QED
        BY <1>0, <3>2, <4>1
    <3> QED
      BY <1>7, <3>1, <3>2, <3>3, <3>4 DEF _get_model_names
  <2> QED
    BY <2>1, <2>2
<1>8. CASE _add_engine
  BY <1>8 DEF _add_engine, PodEvent
<1>9. CASE ScheduleSessions
  BY <1>9 DEF ScheduleSessions
<1>10. CASE NoteModels
  <2>1. watcher' = (IF stop THEN "check" ELSE "waiting") /\ connected' = ~stop
    BY <1>10 DEF NoteModels, AfterEvent
  <2>2. connected' \in BOOLEAN /\ (connected' <=> watcher' = "waiting")
    BY <2>1
  <2>3. queue' \in Seq(PodEvent) /\ (~connected' => queue' = <<>>)
    <3>1. queue' = IF stop THEN <<>> ELSE queue
      BY <1>10 DEF NoteModels, AfterEvent
    <3> QED
      BY <1>0, <2>1, <3>1
  <2> QED
    BY <1>10, <2>1, <2>2, <2>3 DEF NoteModels
<1>11. CASE set_event_loop
  BY <1>11 DEF set_event_loop
<1>12. CASE LifespanSessions
  BY <1>12 DEF LifespanSessions, initialize_client_sessions
<1>13. CASE RunDeferred
  BY <1>13 DEF RunDeferred, initialize_client_sessions
<1>14. CASE RunScheduled
  BY <1>14 DEF RunScheduled, initialize_client_sessions
<1>15. CASE close
  BY <1>15 DEF close
<1>16. CASE Joined
  BY <1>16 DEF Joined
<1>17. CASE UNCHANGED vars
  BY <1>17 DEF vars
<1> QED
  BY <1>1, <1>2, <1>3, <1>4, <1>5, <1>6, <1>7, <1>8, <1>9, <1>10, <1>11, <1>12, <1>13, <1>14,
     <1>15, <1>16, <1>17 DEF DiscoveryNext, WatcherStep, LoopStep

\* What TypeStep does not show of TableInv.
Right == LastIsTrue /\ AddedIsNew /\ TableRight

LEMMA Frame ==
  ASSUME Right, UNCHANGED <<pods, queue, connected, available_engines, missed, refused>>,
         \A p \in Pods : InHand(p)' <=> InHand(p), Watching' => Watching,
         DiscoveryTypeOK
  PROVE  Right'
<1>1. Listed' = Listed
  BY DEF Listed
<1>2. \A i \in DOMAIN queue : queue[i].pod \in Pods
  BY SMT DEF DiscoveryTypeOK, PodEvent
<1>3. LastIsTrue'
  BY DEF Right, LastIsTrue, Sent
<1>4. AddedIsNew'
  BY <1>1, <1>2, SMT DEF Right, AddedIsNew
<1>5. TableRight'
  BY <1>1 DEF Right, TableRight, Sent
<1> QED
  BY <1>3, <1>4, <1>5 DEF Right

\* With nothing to read and nothing in hand, a watcher about to stop is right.
LEMMA Ending ==
  ASSUME queue' = <<>>, \A p : ~InHand(p)', ~Watching'
  PROVE  Right'
BY SMT DEF Right, LastIsTrue, AddedIsNew, TableRight, Sent

LEMMA ChangeStep ==
  ASSUME TableInv, NEW p \in Pods, PodChanges(p)
  PROVE  Right'
<1>1. DiscoveryTypeOK /\ LastIsTrue /\ AddedIsNew /\ TableRight
  BY DEF TableInv
<1>2. PICK s \in NextStates(pods[p]) :
        /\ pods' = [pods EXCEPT ![p] = s]
        /\ LET t == IF pods[p] = "absent" THEN "ADDED"
                    ELSE IF s = "absent" THEN "DELETED" ELSE "MODIFIED" IN
           queue' = IF connected THEN Append(queue, Event(t, p, s)) ELSE queue
  BY DEF PodChanges
<1> DEFINE t == IF pods[p] = "absent" THEN "ADDED" ELSE IF s = "absent" THEN "DELETED" ELSE "MODIFIED"
           e == Event(t, p, s)
<1>3. /\ UNCHANGED <<connected, watcher, event, available_engines, refused, running>>
      /\ missed' = IF connected THEN missed ELSE missed \cup {p}
  BY DEF PodChanges
<1>4. /\ \A g : InHand(g)' <=> InHand(g)
      /\ Watching' <=> Watching
      /\ Listed' = Listed
  BY <1>3 DEF InHand, Watching, Listed
<1>5. pods'[p] = s /\ \A g \in Pods : g # p => pods'[g] = pods[g]
  BY <1>1, <1>2 DEF DiscoveryTypeOK
<1>6. CASE ~connected
  <2>1. queue' = <<>> /\ queue = <<>> /\ \A g : ~InHand(g)
    BY <1>1, <1>2, <1>6 DEF DiscoveryTypeOK, InHand, Handling
  <2>2. LastIsTrue' /\ AddedIsNew'
    BY <1>4, <2>1, SMT DEF LastIsTrue, AddedIsNew
  <2>3. TableRight'
    BY <1>1, <1>3, <1>4, <1>5, <1>6, <2>1 DEF TableRight, Sent
  <2> QED
    BY <2>2, <2>3 DEF Right
<1>7. CASE connected
  <2>1. s \in States /\ (pods[p] = "absent" => s # "absent")
    BY <1>1 DEF NextStates, States, DiscoveryTypeOK
  <2>2. e \in PodEvent /\ e.pod = p /\ e.state = s /\ (e.type = "ADDED" => pods[p] = "absent")
    BY <2>1 DEF Event, PodEvent
  <2>3. queue' = Append(queue, e) /\ queue \in Seq(PodEvent) /\ missed' = missed
    BY <1>1, <1>2, <1>3, <1>7 DEF DiscoveryTypeOK
  <2> HIDE DEF e
  <2>4. PICK n \in Nat : /\ queue'[n] = e
                         /\ \A i \in DOMAIN queue : n > i /\ i \in Nat /\ queue'[i] = queue[i]
                         /\ DOMAIN queue' = DOMAIN queue \cup {n}
    BY <2>2, <2>3, Reporting, SMT
  <2>5. Watching
    BY <1>1, <1>7 DEF Watching, DiscoveryTypeOK, Handling
  <2>6. \A i \in DOMAIN queue : queue[i] \in PodEvent /\ queue[i].pod \in Pods
                                /\ (queue[i].state = "absent" <=> queue[i].type = "DELETED")
    BY <2>3, SMT DEF PodEvent
  <2>7. \A g \in Pods : Sent(g)' <=> Sent(g) \/ g = p
    BY <2>2, <2>4 DEF Sent
  <2>8. LastIsTrue'
    <3>1. ASSUME NEW i \in DOMAIN queue',
                 \A j \in DOMAIN queue' : j > i => queue'[j].pod # queue'[i].pod
          PROVE  queue'[i].state = pods'[queue'[i].pod]
      <4>1. CASE i = n
        BY <1>5, <2>2, <2>4, <4>1
      <4>2. CASE i \in DOMAIN queue
        <5>1. queue'[i] = queue[i] /\ queue[i].pod # p
          BY <2>2, <2>4, <3>1, <4>2
        <5>2. queue[i].state = pods[queue[i].pod]
          BY <1>1, <2>4, <3>1, <4>2 DEF LastIsTrue
        <5> QED
          BY <1>5, <2>6, <4>2, <5>1, <5>2
      <4> QED
        BY <2>4, <4>1, <4>2
    <3>2. \A g \in Pods : InHand(g)' /\ ~Sent(g)' => pods'[g] = "ready"
      BY <1>1, <1>4, <1>5, <2>7 DEF LastIsTrue
    <3> QED
      BY <3>1, <3>2 DEF LastIsTrue
  <2>9. AddedIsNew'
    <3> SUFFICES ASSUME NEW i \in DOMAIN queue', queue'[i].type = "ADDED", queue'[i].state # "ready"
                 PROVE  /\ \A j \in DOMAIN queue' :
                             (/\ j < i /\ queue'[j].pod = queue'[i].pod
                              /\ \A k \in DOMAIN queue' :
                                   j < k /\ k < i => queue'[k].pod # queue'[i].pod) =>
                               queue'[j].type = "DELETED"
                        /\ (\A j \in DOMAIN queue' : j < i => queue'[j].pod # queue'[i].pod) =>
                             ~InHand(queue[i].pod)' /\ queue'[i].pod \notin Listed' \ missed'
      BY DEF AddedIsNew
    <3>1. CASE i \in DOMAIN queue
      <4>1. \A k \in DOMAIN queue' : k < i => k \in DOMAIN queue /\ queue'[k] = queue[k]
        BY <2>4, <3>1, SMT
      <4>2. queue'[i] = queue[i]
        BY <2>4, <3>1
      <4>3. ASSUME NEW j \in DOMAIN queue', j < i, queue'[j].pod = queue'[i].pod,
                   \A k \in DOMAIN queue' : j < k /\ k < i => queue'[k].pod # queue'[i].pod
            PROVE  queue'[j].type = "DELETED"
        <5>1. j \in DOMAIN queue /\ queue'[j] = queue[j]
          BY <4>1, <4>3
        <5>2. \A k \in DOMAIN queue : j < k /\ k < i => queue[k].pod # queue[i].pod
          BY <2>4, <4>2, <4>3
        <5> QED
          BY <1>1, <3>1, <4>2, <4>3, <5>1, <5>2 DEF AddedIsNew
      <4>4. ASSUME \A j \in DOMAIN queue' : j < i => queue'[j].pod # queue'[i].pod
            PROVE  ~InHand(queue[i].pod)' /\ queue'[i].pod \notin Listed' \ missed'
        <5>1. \A j \in DOMAIN queue : j < i => queue[j].pod # queue[i].pod
          BY <2>4, <4>2, <4>4
        <5>2. ~InHand(queue[i].pod) /\ queue[i].pod \notin Listed \ missed
          BY <1>1, <3>1, <4>2, <5>1 DEF AddedIsNew
        <5> QED
          BY <1>3, <1>4, <2>3, <4>2, <5>2 DEF InHand
      <4> QED
        BY <4>3, <4>4
    <3>2. CASE i = n
      <4>1. queue'[i] = e /\ e.pod = p /\ pods[p] = "absent"
        BY <2>2, <2>4, <3>2
      <4>2. ASSUME NEW j \in DOMAIN queue', j < i, queue'[j].pod = queue'[i].pod,
                   \A k \in DOMAIN queue' : j < k /\ k < i => queue'[k].pod # queue'[i].pod
            PROVE  queue'[j].type = "DELETED"
        <5>1. j \in DOMAIN queue /\ queue'[j] = queue[j] /\ queue[j].pod = p
          BY <2>4, <3>2, <4>1, <4>2
        <5>2. \A k \in DOMAIN queue : k > j => queue[k].pod # p
          BY <2>4, <3>2, <4>1, <4>2
        <5>3. queue[j].state = "absent"
          BY <1>1, <4>1, <5>1, <5>2 DEF LastIsTrue
        <5> QED
          BY <2>6, <5>1, <5>3
      <4>3. ASSUME \A j \in DOMAIN queue' : j < i => queue'[j].pod # queue'[i].pod
            PROVE  ~InHand(p)' /\ p \notin Listed' \ missed'
        <5>1. ~Sent(p)
          BY <2>4, <3>2, <4>1, <4>3 DEF Sent
        <5>2. ~InHand(p)
          BY <1>1, <4>1, <5>1 DEF LastIsTrue
        <5>3. p \notin Listed \ missed
          BY <1>1, <2>5, <4>1, <5>1, <5>2 DEF TableRight
        <5> QED
          BY <1>4, <2>3, <5>2, <5>3
      <4> QED
        BY <4>1, <4>2, <4>3 DEF InHand
    <3> QED
      BY <2>4, <3>1, <3>2
  <2>10. TableRight'
    BY <1>1, <1>3, <1>4, <1>5, <2>3, <2>7 DEF TableRight
  <2> QED
    BY <2>8, <2>9, <2>10 DEF Right
<1> QED
  BY <1>1, <1>6, <1>7 DEF DiscoveryTypeOK

\* Reading an event: the last ones still tell the truth, and if there is no more of
\* its pod the event itself does.
LEMMA ReadLast ==
  ASSUME TableInv, queue # <<>>, queue' = Tail(queue), pods' = pods, NEW d, d = Head(queue).pod
  PROVE  /\ Head(queue) \in PodEvent
         /\ ~Sent(d)' => Head(queue).state = pods[d]
         /\ \A g \in Pods : g # d => (Sent(g)' <=> Sent(g))
         /\ \A i \in DOMAIN queue' :
              (\A j \in DOMAIN queue' : j > i => queue'[j].pod # queue'[i].pod) =>
                queue'[i].state = pods'[queue'[i].pod]
<1> DEFINE q == queue
<1>1. q \in Seq(PodEvent) /\ LastIsTrue
  BY DEF TableInv, DiscoveryTypeOK
<1>2. /\ Head(q) = q[1] /\ 1 \in DOMAIN q /\ Head(q) \in PodEvent
      /\ \A i \in DOMAIN Tail(q) : i \in Nat \ {0} /\ i + 1 \in DOMAIN q /\ Tail(q)[i] = q[i + 1]
      /\ \A i \in DOMAIN q : /\ i \in Nat \ {0}
                             /\ i # 1 => i - 1 \in DOMAIN Tail(q) /\ Tail(q)[i - 1] = q[i]
  BY <1>1, Reading
<1>3. ASSUME ~(\E i \in DOMAIN Tail(q) : Tail(q)[i].pod = d) PROVE Head(q).state = pods[d]
  <2>1. ASSUME NEW j \in DOMAIN q, j > 1 PROVE q[j].pod # d
    <3>1. j - 1 \in DOMAIN Tail(q) /\ Tail(q)[j - 1] = q[j]
      BY <1>2, <2>1, SMT
    <3> QED
      BY <1>3, <3>1
  <2> QED
    BY <1>1, <1>2, <2>1, SMT DEF LastIsTrue
<1>4. \A g : g # d => ((\E i \in DOMAIN Tail(q) : Tail(q)[i].pod = g) <=> \E i \in DOMAIN q : q[i].pod = g)
  BY <1>2
<1>5. ASSUME NEW i \in DOMAIN Tail(q), \A j \in DOMAIN Tail(q) : j > i => Tail(q)[j].pod # Tail(q)[i].pod
      PROVE  Tail(q)[i].state = pods[Tail(q)[i].pod]
  <2>1. i + 1 \in DOMAIN q /\ Tail(q)[i] = q[i + 1] /\ i \in Nat
    BY <1>2
  <2>2. ASSUME NEW j \in DOMAIN q, j > i + 1 PROVE q[j].pod # q[i + 1].pod
    <3>1. j - 1 \in DOMAIN Tail(q) /\ Tail(q)[j - 1] = q[j] /\ j - 1 > i
      BY <1>2, <2>1, <2>2, SMT
    <3> QED
      BY <1>5, <2>1, <3>1
  <2> QED
    BY <1>1, <2>1, <2>2 DEF LastIsTrue
<1>6. queue' = Tail(q) /\ pods' = pods
  OBVIOUS
<1>7. ~Sent(d)' => Head(queue).state = pods[d]
  BY <1>3, <1>6 DEF Sent
<1>8. \A g \in Pods : g # d => (Sent(g)' <=> Sent(g))
  BY <1>4, <1>6 DEF Sent
<1> QED
  BY <1>2, <1>5, <1>6, <1>7, <1>8

LEMMA ReadAdded ==
  ASSUME TableInv, queue # <<>>, queue' = Tail(queue),
         \A g \in Pods : g # Head(queue).pod =>
           ~InHand(g)' /\ (g \in Listed' \ missed' => g \in Listed \ missed),
         Head(queue).type = "DELETED" =>
           Head(queue).pod \notin Listed' /\ watcher' \notin {"naming", "adding"}
  PROVE  AddedIsNew'
<1> DEFINE q == queue
           d == Head(queue).pod
<1>1. q \in Seq(PodEvent) /\ AddedIsNew
  BY DEF TableInv, DiscoveryTypeOK
<1>2. /\ Head(q) = q[1] /\ 1 \in DOMAIN q /\ Head(q) \in PodEvent
      /\ \A i \in DOMAIN Tail(q) : i \in Nat \ {0} /\ i + 1 \in DOMAIN q /\ Tail(q)[i] = q[i + 1]
      /\ \A i \in DOMAIN q : /\ i \in Nat \ {0}
                             /\ i # 1 => i - 1 \in DOMAIN Tail(q) /\ Tail(q)[i - 1] = q[i]
  BY <1>1, Reading
<1> SUFFICES ASSUME NEW i \in DOMAIN Tail(q), Tail(q)[i].type = "ADDED", Tail(q)[i].state # "ready"
             PROVE  /\ \A j \in DOMAIN Tail(q) :
                         (/\ j < i /\ Tail(q)[j].pod = Tail(q)[i].pod
                          /\ \A k \in DOMAIN Tail(q) :
                               j < k /\ k < i => Tail(q)[k].pod # Tail(q)[i].pod) =>
                           Tail(q)[j].type = "DELETED"
                    /\ (\A j \in DOMAIN Tail(q) : j < i => Tail(q)[j].pod # Tail(q)[i].pod) =>
                         /\ ~(watcher' \in {"naming", "adding"} /\ event'.pod = Tail(q)[i].pod)
                         /\ Tail(q)[i].pod \notin Listed' \ missed'
  BY SMT DEF AddedIsNew, InHand
<1>3. i + 1 \in DOMAIN q /\ Tail(q)[i] = q[i + 1] /\ q[i + 1] \in PodEvent /\ i \in Nat /\ i > 0
  BY <1>1, <1>2, SMT
<1>4. ASSUME NEW j \in DOMAIN Tail(q), j < i, Tail(q)[j].pod = Tail(q)[i].pod,
             \A k \in DOMAIN Tail(q) : j < k /\ k < i => Tail(q)[k].pod # Tail(q)[i].pod
      PROVE  Tail(q)[j].type = "DELETED"
  <2>1. j + 1 \in DOMAIN q /\ Tail(q)[j] = q[j + 1] /\ j + 1 < i + 1
    BY <1>2, <1>3, <1>4, SMTT(30)
  <2>2. \A k \in DOMAIN q : j + 1 < k /\ k < i + 1 => q[k].pod # q[i + 1].pod
    <3> SUFFICES ASSUME NEW k \in DOMAIN q, j + 1 < k, k < i + 1 PROVE q[k].pod # q[i + 1].pod
      OBVIOUS
    <3>1. k # 1 /\ k - 1 \in DOMAIN Tail(q) /\ Tail(q)[k - 1] = q[k] /\ j < k - 1 /\ k - 1 < i
      BY <1>2, <1>3, SMT
    <3> QED
      BY <1>3, <1>4, <3>1
  <2> QED
    BY <1>1, <1>3, <1>4, <2>1, <2>2 DEF AddedIsNew
<1>5. ASSUME \A j \in DOMAIN Tail(q) : j < i => Tail(q)[j].pod # Tail(q)[i].pod
      PROVE  /\ ~(watcher' \in {"naming", "adding"} /\ event'.pod = Tail(q)[i].pod)
             /\ Tail(q)[i].pod \notin Listed' \ missed'
  <2>1. \A k \in DOMAIN q : 1 < k /\ k < i + 1 => q[k].pod # q[i + 1].pod
    <3> SUFFICES ASSUME NEW k \in DOMAIN q, 1 < k, k < i + 1 PROVE q[k].pod # q[i + 1].pod
      OBVIOUS
    <3>1. k # 1 /\ k - 1 \in DOMAIN Tail(q) /\ Tail(q)[k - 1] = q[k] /\ k - 1 < i
      BY <1>2, <1>3, SMT
    <3> QED
      BY <1>3, <1>5, <3>1
  <2>2. CASE q[i + 1].pod = d
    <3>1. q[1].type = "DELETED"
      BY <1>1, <1>2, <1>3, <2>1, <2>2, SMT DEF AddedIsNew
    <3> QED
      BY <1>2, <1>3, <2>2, <3>1
  <2>3. CASE q[i + 1].pod # d
    <3>1. \A k \in DOMAIN q : k < i + 1 => q[k].pod # q[i + 1].pod
      <4> SUFFICES ASSUME NEW k \in DOMAIN q, k < i + 1 PROVE q[k].pod # q[i + 1].pod
        OBVIOUS
      <4>1. k \in Nat \ {0}
        BY <1>2
      <4> QED
        BY <1>2, <2>1, <2>3, <4>1, SMT
    <3>2. q[i + 1].pod \in Pods /\ q[i + 1].pod \notin Listed \ missed
      BY <1>1, <1>3, <3>1 DEF AddedIsNew, PodEvent
    <3>3. ASSUME NEW g \in Pods, g # d
          PROVE  /\ ~(watcher' \in {"naming", "adding"} /\ event'.pod = g)
                 /\ g \in Listed' \ missed' => g \in Listed \ missed
      <4>1. ~InHand(g)' /\ (g \in Listed' \ missed' => g \in Listed \ missed)
        BY <3>3
      <4> QED
        BY <4>1 DEF InHand
    <3> QED
      BY <1>3, <2>3, <3>2, <3>3
  <2> QED
    BY <2>2, <2>3
<1> QED
  BY <1>4, <1>5

LEMMA UnreadyStep ==
  ASSUME TableInv, ReadUnreadyEvent
  PROVE  Right'
<1> DEFINE h == Head(queue)
<1>0. PICK d : d = h.pod
  OBVIOUS
<1>1. DiscoveryTypeOK /\ LastIsTrue /\ AddedIsNew /\ TableRight
  BY DEF TableInv
<1>2. /\ watcher = "waiting" /\ queue # <<>>
      /\ h.type = "DELETED" \/ ~is_pod_ready(h.state)
      /\ Discard(h)
      /\ missed' = IF h.type = "ADDED" THEN missed ELSE missed \ {h.pod}
      /\ refused' = refused \ {h.pod}
      /\ watcher' = (IF stop THEN "check" ELSE "waiting")
      /\ queue' = IF stop THEN <<>> ELSE Tail(queue)
      /\ UNCHANGED <<pods, running>>
  BY DEF ReadUnreadyEvent, clusterVars, loopVars
<1>3. \A g : ~InHand(g) /\ ~InHand(g)'
  BY <1>2 DEF InHand
<1>4. CASE stop
  <2>1. ~Watching'
    BY <1>1, <1>2, <1>4 DEF Watching, DiscoveryTypeOK
  <2> QED
    BY <1>2, <1>3, <1>4, <2>1, Ending
<1>5. CASE ~stop
  <2>1. queue' = Tail(queue)
    BY <1>2, <1>5
  <2>2. /\ h \in PodEvent
        /\ ~Sent(d)' => h.state = pods[d]
        /\ \A g \in Pods : g # d => (Sent(g)' <=> Sent(g))
        /\ \A i \in DOMAIN queue' :
             (\A j \in DOMAIN queue' : j > i => queue'[j].pod # queue'[i].pod) =>
               queue'[i].state = pods'[queue'[i].pod]
    BY <1>0, <1>2, <2>1, ReadLast
  <2>3. LastIsTrue'
    BY <1>3, <2>2 DEF LastIsTrue
  <2>4. /\ h.pod \in Pods /\ h.state # "ready"
        /\ h = queue[1] /\ 1 \in DOMAIN queue /\ \A i \in DOMAIN queue : ~(i < 1)
    <3>1. h.pod \in Pods /\ h.state # "ready"
      BY <1>2, <2>2 DEF PodEvent, is_pod_ready, is_container_ready, _is_pod_terminating
    <3>2. queue \in Seq(PodEvent)
      BY <1>1 DEF DiscoveryTypeOK
    <3> QED
      BY <1>2, <3>1, <3>2, Reading, SMTT(30)
  <2>5. /\ \A g \in Pods : g # h.pod => (g \in Listed' <=> g \in Listed)
        /\ h.type = "ADDED" => Listed' = Listed
        /\ h.type # "ADDED" => h.pod \notin Listed'
    BY <1>1, <1>2, <2>4 DEF Discard, _delete_engine, Listed, DiscoveryTypeOK
  <2>6. AddedIsNew'
    <3>1. /\ \A g \in Pods : g # h.pod =>
               ~InHand(g)' /\ (g \in Listed' \ missed' => g \in Listed \ missed)
          /\ h.type = "DELETED" => h.pod \notin Listed' /\ watcher' \notin {"naming", "adding"}
      BY <1>2, <1>3, <2>5
    <3> QED
      BY <1>2, <2>1, <3>1, ReadAdded
  <2>7. TableRight'
    <3> SUFFICES ASSUME NEW g \in Pods, ~Sent(g)'
                 PROVE  /\ g \in Listed' \ missed' => pods'[g] = "ready"
                        /\ connected' /\ pods'[g] = "ready" => g \in Listed' \cup refused'
      BY DEF TableRight
    <3>1. CASE g # h.pod
      <4>1. ~Sent(g) /\ Watching /\ connected
        BY <1>0, <1>1, <1>2, <2>2, <3>1 DEF Watching, DiscoveryTypeOK
      <4> QED
        BY <1>1, <1>2, <1>3, <2>5, <3>1, <4>1 DEF TableRight
    <3>2. CASE g = h.pod
      <4>1. pods'[g] # "ready"
        BY <1>0, <1>2, <2>2, <2>4, <3>2
      <4>2. h.type = "ADDED" => h.pod \notin Listed \ missed
        BY <1>1, <2>4 DEF AddedIsNew
      <4> QED
        BY <1>2, <2>5, <3>2, <4>1, <4>2
    <3> QED
      BY <3>1, <3>2
  <2> QED
    BY <2>3, <2>6, <2>7 DEF Right
<1> QED
  BY <1>1, <1>4, <1>5 DEF DiscoveryTypeOK

LEMMA ReadyStep ==
  ASSUME TableInv, ReadReadyEvent
  PROVE  Right'
<1> DEFINE h == Head(queue)
<1>0. PICK d : d = h.pod
  OBVIOUS
<1>1. DiscoveryTypeOK /\ LastIsTrue /\ AddedIsNew /\ TableRight
  BY DEF TableInv
<1>2. /\ watcher = "waiting" /\ queue # <<>> /\ watcher' = "naming"
      /\ h.type # "DELETED" /\ h.state = "ready" /\ event' = h
      /\ queue' = Tail(queue)
      /\ UNCHANGED <<pods, running, connected, available_engines, missed, refused>>
  BY DEF ReadReadyEvent, clusterVars, loopVars, tableVars, is_pod_ready, is_container_ready,
         _is_pod_terminating
<1>3. \A g : ~InHand(g) /\ (InHand(g)' <=> g = d)
  BY <1>0, <1>2 DEF InHand
<1>4. /\ h \in PodEvent
      /\ ~Sent(d)' => h.state = pods[d]
      /\ \A g \in Pods : g # d => (Sent(g)' <=> Sent(g))
      /\ \A i \in DOMAIN queue' :
           (\A j \in DOMAIN queue' : j > i => queue'[j].pod # queue'[i].pod) =>
             queue'[i].state = pods'[queue'[i].pod]
  BY <1>0, <1>2, ReadLast
<1>5. Listed' = Listed
  BY <1>2 DEF Listed
<1>6. LastIsTrue'
  BY <1>2, <1>3, <1>4, SMTT(30) DEF LastIsTrue
<1>7. AddedIsNew'
  BY <1>0, <1>2, <1>3, <1>5, ReadAdded
<1>8. TableRight'
  BY <1>1, <1>2, <1>3, <1>4, <1>5 DEF TableRight, Watching
<1> QED
  BY <1>6, <1>7, <1>8 DEF Right

\* The event in hand is done with: the table may have changed for its pod.
LEMMA HandledStep ==
  ASSUME TableInv, NEW d \in Pods, InHand(d),
         UNCHANGED <<pods, queue, connected>>, \A g : ~InHand(g)', Watching',
         \A g \in Pods : g # d => /\ g \in Listed' <=> g \in Listed
                                  /\ g \in missed' <=> g \in missed
                                  /\ g \in refused' <=> g \in refused,
         d \in Listed' \cup refused'
  PROVE  Right'
<1>1. DiscoveryTypeOK /\ LastIsTrue /\ AddedIsNew /\ TableRight
  BY DEF TableInv
<1>2. Watching /\ \A g : InHand(g) => g = d
  BY DEF InHand, Watching
<1>3. LastIsTrue'
  BY <1>1 DEF LastIsTrue
<1>4. AddedIsNew'
  <2> SUFFICES ASSUME NEW i \in DOMAIN queue, queue[i].type = "ADDED", queue[i].state # "ready",
                      \A j \in DOMAIN queue : j < i => queue[j].pod # queue[i].pod
               PROVE  queue[i].pod \notin Listed' \ missed'
    <3>1. \A i \in DOMAIN queue : ~(watcher' \in {"naming", "adding"} /\ event'.pod = queue[i].pod)
      BY DEF InHand
    <3> QED
      BY <1>1, <3>1, SMT DEF AddedIsNew, InHand
  <2>1. ~InHand(queue[i].pod) /\ queue[i].pod \notin Listed \ missed
    BY <1>1 DEF AddedIsNew
  <2>2. queue[i].pod \in Pods /\ queue[i].pod # d
    BY <1>1, <2>1, SMT DEF DiscoveryTypeOK, PodEvent
  <2> QED
    BY <2>1, <2>2
<1>5. TableRight'
  <2> SUFFICES ASSUME NEW g \in Pods, ~Sent(g)
               PROVE  /\ g \in Listed' \ missed' => pods[g] = "ready"
                      /\ connected /\ pods[g] = "ready" => g \in Listed' \cup refused'
    BY DEF TableRight, Sent
  <2>1. CASE g = d
    <3>1. pods[g] = "ready"
      BY <1>1, <2>1 DEF LastIsTrue
    <3> QED
      BY <2>1, <3>1
  <2>2. CASE g # d
    BY <1>1, <1>2, <2>2 DEF TableRight
  <2> QED
    BY <2>1, <2>2
<1> QED
  BY <1>3, <1>4, <1>5 DEF Right

LEMMA NamesStep ==
  ASSUME TableInv, _get_model_names
  PROVE  Right'
<1>1. DiscoveryTypeOK /\ Right
  BY DEF TableInv, Right
<1>2. watcher = "naming" /\ event \in PodEvent /\ UNCHANGED <<pods, running, stop>>
  BY <1>1 DEF _get_model_names, DiscoveryTypeOK, Handling, clusterVars, loopVars
<1>3. PICK d \in Pods : d = event.pod
  BY <1>2 DEF PodEvent
<1>4. CASE names' # {}
  <2>1. /\ watcher' = "adding"
        /\ UNCHANGED <<available_engines, refused, missed, connected, queue, event>>
    BY <1>4 DEF _get_model_names
  <2>2. (\A p \in Pods : InHand(p)' <=> InHand(p)) /\ Watching
    BY <1>2, <2>1 DEF InHand, Watching
  <2> QED
    BY <1>1, <1>2, <2>1, <2>2, Frame
<1>5. CASE names' = {}
  <2>1. /\ Discard(event)
        /\ refused' = refused \cup {d}
        /\ missed' = IF event.type = "ADDED" THEN missed ELSE missed \ {d}
        /\ AfterEvent
    BY <1>3, <1>5 DEF _get_model_names
  <2>2. watcher' = (IF stop THEN "check" ELSE "waiting") /\ \A p : ~InHand(p)'
    BY <2>1 DEF AfterEvent, InHand
  <2>3. CASE stop
    <3>1. ~Watching' /\ queue' = <<>>
      BY <1>1, <1>2, <2>1, <2>2, <2>3 DEF AfterEvent, Watching, DiscoveryTypeOK
    <3> QED
      BY <2>2, <3>1, Ending
  <2>4. CASE ~stop
    <3>1. Watching' /\ queue' = queue /\ connected'
      BY <2>1, <2>2, <2>4 DEF AfterEvent, Watching
    <3>2. connected /\ InHand(d)
      BY <1>1, <1>2, <1>3 DEF InHand, DiscoveryTypeOK, Handling
    <3>3. UNCHANGED connected
      BY <1>1, <2>1, <2>4, <3>2 DEF AfterEvent, DiscoveryTypeOK
    <3>4. \A g \in Pods : g # d => /\ g \in Listed' <=> g \in Listed
                                   /\ g \in missed' <=> g \in missed
                                   /\ g \in refused' <=> g \in refused
      BY <1>1, <1>3, <2>1 DEF Discard, _delete_engine, Listed, DiscoveryTypeOK
    <3>5. d \in Listed' \cup refused'
      BY <2>1
    <3> QED
      BY <1>2, <2>2, <3>1, <3>2, <3>3, <3>4, <3>5, HandledStep
  <2> QED
    BY <1>1, <2>3, <2>4 DEF DiscoveryTypeOK
<1> QED
  BY <1>4, <1>5

LEMMA AddStep ==
  ASSUME TableInv, _add_engine
  PROVE  Right'
<1>1. DiscoveryTypeOK
  BY DEF TableInv
<1>2. /\ watcher = "adding" /\ event \in PodEvent /\ names # {} /\ watcher' = "added"
      /\ UNCHANGED <<pods, queue, connected>>
  BY <1>1 DEF _add_engine, DiscoveryTypeOK, Handling, clusterVars
<1>3. PICK d \in Pods : d = event.pod
  BY <1>2 DEF PodEvent
<1>4. /\ available_engines' = [available_engines EXCEPT ![d] = names]
      /\ missed' = missed \ {d} /\ refused' = refused \ {d}
  BY <1>3 DEF _add_engine
<1>5. InHand(d) /\ (\A g : ~InHand(g)') /\ Watching'
  BY <1>2, <1>3 DEF InHand, Watching
<1>6. /\ \A g \in Pods : g # d => /\ g \in Listed' <=> g \in Listed
                                  /\ g \in missed' <=> g \in missed
                                  /\ g \in refused' <=> g \in refused
      /\ d \in Listed'
  BY <1>1, <1>2, <1>4 DEF Listed, DiscoveryTypeOK
<1> QED
  BY <1>2, <1>5, <1>6, HandledStep

LEMMA LateStep ==
  ASSUME TableInv, ScheduleSessions \/ NoteModels \/ RunScheduled
  PROVE  Right'
<1>1. DiscoveryTypeOK /\ Right
  BY DEF TableInv, Right
<1>2. /\ watcher \in {"added", "scheduled", "noting"}
      /\ watcher' \in {"scheduled", "noting", "check", "waiting"}
      /\ UNCHANGED <<pods, running, stop, available_engines, missed, refused>>
  BY DEF ScheduleSessions, NoteModels, RunScheduled, AfterEvent, clusterVars, tableVars, loopVars,
         threadVars
<1>3. /\ \A p : ~InHand(p) /\ ~InHand(p)'
      /\ Watching
  BY <1>2 DEF InHand, Watching
<1>4. CASE NoteModels /\ stop
  <2>1. ~Watching' /\ queue' = <<>>
    BY <1>1, <1>2, <1>4 DEF NoteModels, AfterEvent, Watching, DiscoveryTypeOK
  <2> QED
    BY <1>3, <2>1, Ending
<1>5. CASE ~(NoteModels /\ stop)
  <2>1. connected /\ connected \in BOOLEAN
    BY <1>1, <1>2 DEF DiscoveryTypeOK, Handling
  <2>2. UNCHANGED <<queue, connected>>
    BY <1>5, <2>1 DEF ScheduleSessions, NoteModels, RunScheduled, AfterEvent, threadVars
  <2> QED
    BY <1>1, <1>2, <1>3, <2>2, Frame
<1> QED
  BY <1>4, <1>5

LEMMA OpenStep ==
  ASSUME TableInv, CheckRunning \/ OpenStream
  PROVE  Right'
<1>1. DiscoveryTypeOK /\ LastIsTrue /\ AddedIsNew /\ TableRight /\ Right
  BY DEF TableInv, Right
<1>2. CASE CheckRunning
  <2>1. /\ watcher = "check" /\ watcher' \in {"opening", "stopped"}
        /\ UNCHANGED <<pods, queue, connected, available_engines, missed, refused, running>>
        /\ watcher' = "opening" => running
    BY <1>2 DEF CheckRunning, clusterVars, tableVars, loopVars
  <2>2. (\A p \in Pods : InHand(p)' <=> InHand(p)) /\ (Watching' => Watching)
    BY <2>1 DEF InHand, Watching
  <2> QED
    BY <1>1, <2>1, <2>2, Frame
<1>3. CASE OpenStream
  <2>1. /\ watcher = "opening" /\ watcher' = "waiting"
        /\ UNCHANGED <<pods, available_engines, missed, refused>>
    BY <1>3 DEF OpenStream, clusterVars, tableVars
  <2>2. /\ \A i \in DOMAIN queue' : queue'[i].type = "ADDED" /\ queue'[i].state = pods[queue'[i].pod]
        /\ \A i, j \in DOMAIN queue' : queue'[i].pod = queue'[j].pod => i = j
        /\ \A p \in Pods : pods[p] # "absent" => \E i \in DOMAIN queue' : queue'[i].pod = p
        /\ queue' \in Seq(PodEvent)
    BY <1>1, <1>3, Listing, SMTT(30) DEF OpenStream, DiscoveryTypeOK
  <2>3. Watching /\ (\A g : ~InHand(g) /\ ~InHand(g)') /\ Listed' = Listed
    BY <2>1 DEF Watching, InHand, Listed
  <2>4. \A p \in Pods : p \in Listed \ missed => pods[p] = "ready"
    <3>1. queue = <<>>
      BY <1>1, <2>1 DEF DiscoveryTypeOK, Handling
    <3> QED
      BY <1>1, <2>3, <3>1, SMT DEF TableRight, Sent
  <2>5. LastIsTrue'
    BY <2>1, <2>2, <2>3 DEF LastIsTrue
  <2>6. AddedIsNew'
    <3>1. \A i, j \in DOMAIN queue' : i \in Nat /\ (j < i => queue'[j].pod # queue'[i].pod)
      BY <2>2, SMT
    <3>2. \A i \in DOMAIN queue' : queue'[i].pod \in Pods
      BY <2>2, SMT DEF PodEvent
    <3> QED
      BY <2>1, <2>2, <2>3, <2>4, <3>1, <3>2, SMT DEF AddedIsNew, InHand
  <2>7. TableRight'
    BY <2>1, <2>2, <2>3, <2>4 DEF TableRight, Sent
  <2> QED
    BY <2>5, <2>6, <2>7 DEF Right
<1> QED
  BY <1>2, <1>3

LEMMA EndStep ==
  ASSUME TableInv, StreamTimesOut \/ WatcherRaises
  PROVE  Right'
<1>1. DiscoveryTypeOK /\ LastIsTrue /\ TableRight
  BY DEF TableInv
<1>2. /\ watcher \in {"waiting", "adding"} /\ watcher' = "check" /\ queue' = <<>> /\ ~connected'
      /\ missed' = missed \cup {queue[i].pod : i \in DOMAIN queue}
      /\ UNCHANGED <<pods, available_engines>>
  BY DEF StreamTimesOut, WatcherRaises, CloseStream, clusterVars
<1>3. Watching /\ (\A g : ~InHand(g)') /\ Listed' = Listed
  BY <1>2 DEF Watching, InHand, Listed
<1>4. LastIsTrue' /\ AddedIsNew'
  BY <1>2, <1>3, SMTT(30) DEF LastIsTrue, AddedIsNew
<1>5. \A p \in Pods : p \in Listed \ missed' => pods[p] = "ready"
  BY <1>1, <1>2, <1>3 DEF LastIsTrue, TableRight, Sent
<1>6. TableRight'
  BY <1>2, <1>3, <1>5 DEF TableRight
<1> QED
  BY <1>4, <1>6 DEF Right

LEMMA TableStep ==
  ASSUME TableInv, [DiscoveryNext]_vars
  PROVE  TableInv'
<1>1. DiscoveryTypeOK'
  BY TypeStep DEF TableInv
<1>2. CASE set_event_loop \/ LifespanSessions \/ RunDeferred \/ Joined \/ close \/ UNCHANGED vars
  <2>1. /\ UNCHANGED <<pods, queue, connected, available_engines, missed, refused, watcher, event>>
        /\ running' => running
    <3>1. CASE set_event_loop
      BY <3>1 DEF set_event_loop, threadVars, clusterVars, tableVars
    <3>2. CASE LifespanSessions
      BY <3>2 DEF LifespanSessions, threadVars, clusterVars, tableVars
    <3>3. CASE RunDeferred
      BY <3>3 DEF RunDeferred, threadVars, clusterVars, tableVars
    <3>4. CASE Joined
      BY <3>4 DEF Joined, threadVars, clusterVars, tableVars
    <3>5. CASE close
      BY <3>5 DEF close, threadVars, clusterVars, tableVars
    <3>6. CASE UNCHANGED vars
      BY <3>6 DEF vars
    <3> QED
      BY <1>2, <3>1, <3>2, <3>3, <3>4, <3>5, <3>6
  <2>2. (\A p \in Pods : InHand(p)' <=> InHand(p)) /\ (Watching' => Watching)
    BY <2>1 DEF InHand, Watching
  <2>3. Right'
    BY <2>1, <2>2, Frame DEF TableInv, Right
  <2> QED
    BY <1>1, <2>3 DEF TableInv, Right
<1>3. ASSUME Right' PROVE TableInv'
  BY <1>1, <1>3 DEF TableInv, Right
<1> QED
  BY <1>2, <1>3, ChangeStep, UnreadyStep, ReadyStep, NamesStep, AddStep, LateStep, OpenStep, EndStep
     DEF DiscoveryNext, WatcherStep, LoopStep

-----------------------------------------------------------------------------
(* The models that are known and the sessions that are open *)

LEMMA KnownStep ==
  ASSUME DiscoveryTypeOK, KnownSoFar, [DiscoveryNext]_vars
  PROVE  KnownSoFar'
<1> DEFINE late == {"added", "scheduled", "noting"}
<1>1. CASE _add_engine
  <2>1. /\ watcher = "adding" /\ watcher' = "added" /\ UNCHANGED <<event, names, known_models>>
        /\ event.pod \in Pods
        /\ available_engines' = [available_engines EXCEPT ![event.pod] = names]
        /\ advertised' = advertised \cup names
    BY <1>1 DEF _add_engine, DiscoveryTypeOK, Handling, PodEvent
  <2>2. available_engines'[event.pod] = names
    BY <2>1 DEF DiscoveryTypeOK
  <2> QED
    BY <2>1, <2>2 DEF KnownSoFar
<1>2. CASE NoteModels
  <2>1. /\ watcher = "noting" /\ watcher' \in {"check", "waiting"} /\ UNCHANGED advertised
        /\ known_models' = known_models \cup names
    BY <1>2 DEF NoteModels, AfterEvent
  <2> QED
    BY <2>1 DEF KnownSoFar
<1>3. CASE UNCHANGED <<available_engines, event, names, known_models, advertised>>
           /\ (watcher' \in late <=> watcher \in late)
  BY <1>3 DEF KnownSoFar
<1>4. CASE watcher \notin late /\ watcher' \notin late /\ UNCHANGED <<known_models, advertised>>
  BY <1>4 DEF KnownSoFar
<1>5. ASSUME NEW p \in Pods, PodChanges(p) PROVE KnownSoFar'
  BY <1>3, <1>5 DEF PodChanges
<1>6. CASE CheckRunning \/ OpenStream
  BY <1>4, <1>6 DEF CheckRunning, OpenStream, tableVars
<1>7. CASE ReadUnreadyEvent \/ ReadReadyEvent
  BY <1>4, <1>7 DEF ReadUnreadyEvent, ReadReadyEvent, tableVars
<1>8. CASE _get_model_names
  BY <1>4, <1>8 DEF _get_model_names, AfterEvent
<1>9. CASE ScheduleSessions \/ RunScheduled
  BY <1>3, <1>9 DEF ScheduleSessions, RunScheduled, threadVars, tableVars
<1>10. CASE StreamTimesOut \/ WatcherRaises
  BY <1>4, <1>10 DEF StreamTimesOut, WatcherRaises, CloseStream
<1>11. CASE set_event_loop \/ LifespanSessions \/ RunDeferred \/ Joined \/ close
  BY <1>3, <1>11 DEF set_event_loop, LifespanSessions, RunDeferred, Joined, close, threadVars,
                     tableVars
<1>12. CASE UNCHANGED vars
  BY <1>3, <1>12 DEF vars
<1> QED
  BY <1>1, <1>2, <1>5, <1>6, <1>7, <1>8, <1>9, <1>10, <1>11, <1>12
     DEF DiscoveryNext, WatcherStep, LoopStep

\* After initialize_client_sessions every engine of the table has a session.
LEMMA Opening ==
  ASSUME initialize_client_sessions, UNCHANGED available_engines
  PROVE  \A p \in Listed' : clients'[Role(p)] # NoPod
<1> SUFFICES ASSUME NEW p \in Listed
             PROVE  clients'[Role(p)] # NoPod
  BY DEF Listed
<1>1. Role(p) \in Roles /\ p \in {q \in Listed : Role(q) = Role(p)}
  BY DEF Role, Roles
<1>2. clients'[Role(p)] \in {q \in Listed : Role(q) = Role(p)}
  BY <1>1 DEF initialize_client_sessions
<1> QED
  BY <1>2, PodsAssumption DEF Listed

LEMMA SessionsStep ==
  ASSUME DiscoveryTypeOK, SessionsSoFar, [DiscoveryNext]_vars
  PROVE  SessionsSoFar'
<1> DEFINE late == {"added", "scheduled"}
<1>1. CASE _add_engine
  <2>1. /\ watcher = "adding" /\ watcher' = "added"
        /\ UNCHANGED <<event, clients, loop, event_loop_ready>>
        /\ available_engines' = [available_engines EXCEPT ![event.pod] = names]
    BY <1>1 DEF _add_engine, loopVars
  <2>2. \A p \in Pods : p # event.pod => (p \in Listed' <=> p \in Listed)
    BY <2>1 DEF DiscoveryTypeOK, Listed
  <2>3. Listed' \subseteq Pods
    BY DEF Listed
  <2> QED
    BY <2>1, <2>2, <2>3 DEF SessionsSoFar
<1>2. CASE set_event_loop
  BY <1>2 DEF set_event_loop, SessionsSoFar
<1>3. CASE LifespanSessions \/ RunDeferred \/ RunScheduled
  <2>1. /\ initialize_client_sessions /\ UNCHANGED <<available_engines, event_loop_ready>>
        /\ loop # "starting"
    BY <1>3 DEF LifespanSessions, RunDeferred, RunScheduled, threadVars, tableVars
  <2> QED
    BY <2>1, Opening DEF SessionsSoFar
<1>4. CASE ScheduleSessions
  <2>1. /\ watcher = "added" /\ watcher' = (IF event_loop_ready THEN "scheduled" ELSE "noting")
        /\ UNCHANGED <<event, clients, loop, event_loop_ready, available_engines>>
    BY <1>4 DEF ScheduleSessions, tableVars, loopVars
  <2>2. Listed' = Listed
    BY <2>1 DEF Listed
  <2> QED
    BY <2>1, <2>2 DEF SessionsSoFar
<1>5. CASE close \/ Joined
  BY <1>5 DEF close, Joined, SessionsSoFar
<1>6. CASE /\ UNCHANGED <<clients, loop, event_loop_ready>>
           /\ Listed' \subseteq Listed
           /\ watcher \in late => watcher' = watcher /\ event' = event
  BY <1>6 DEF SessionsSoFar
<1>7. UNCHANGED available_engines => Listed' \subseteq Listed
  BY DEF Listed
<1>8. \A e : Discard(e) => Listed' \subseteq Listed
  BY DEF Discard, _delete_engine, Listed, DiscoveryTypeOK
<1>9. ASSUME NEW p \in Pods, PodChanges(p) PROVE SessionsSoFar'
  BY <1>6, <1>7, <1>9 DEF PodChanges
<1>10. CASE CheckRunning \/ OpenStream
  BY <1>6, <1>7, <1>10 DEF CheckRunning, OpenStream, tableVars, loopVars
<1>11. CASE ReadUnreadyEvent \/ ReadReadyEvent
  BY <1>6, <1>7, <1>8, <1>11 DEF ReadUnreadyEvent, ReadReadyEvent, tableVars, loopVars
<1>12. CASE _get_model_names
  BY <1>6, <1>7, <1>8, <1>12 DEF _get_model_names, loopVars
<1>13. CASE NoteModels
  BY <1>6, <1>7, <1>13 DEF NoteModels, loopVars
<1>14. CASE StreamTimesOut \/ WatcherRaises
  BY <1>6, <1>7, <1>14 DEF StreamTimesOut, WatcherRaises, CloseStream, loopVars
<1>15. CASE UNCHANGED vars
  BY <1>6, <1>7, <1>15 DEF vars
<1> QED
  BY <1>1, <1>2, <1>3, <1>4, <1>5, <1>9, <1>10, <1>11, <1>12, <1>13, <1>14, <1>15
     DEF DiscoveryNext, WatcherStep, LoopStep

-----------------------------------------------------------------------------

\* Every step of the cluster, the watcher thread and the loop preserves the
\* inductive invariant.
LEMMA DiscoveryInvariant == DiscoverySpec => []DiscoveryInv
<1>1. DiscoveryInit => DiscoveryInv
  <2> SUFFICES ASSUME DiscoveryInit PROVE DiscoveryInv
    OBVIOUS
  <2>1. TableInv
    BY TableInitially
  <2>2. KnownSoFar /\ SessionsSoFar
    BY DEF DiscoveryInit, KnownSoFar, SessionsSoFar
  <2> QED
    BY <2>1, <2>2 DEF DiscoveryInv
<1>2. DiscoveryInv /\ [DiscoveryNext]_vars => DiscoveryInv'
  BY TableStep, KnownStep, SessionsStep DEF DiscoveryInv, TableInv
<1> QED
  BY <1>1, <1>2, PTL DEF DiscoverySpec

\* However the changes of pods, the reading of their events, broken streams and
\* failing queries interleave, once the watcher has read all events the table is the
\* set of ready pods, up to those that changed while no stream was open and those that
\* did not name their models.
THEOREM TableFollowsCluster == DiscoverySpec => []TableExact
<1>1. DiscoveryInv => TableExact
  <2> SUFFICES ASSUME DiscoveryTypeOK, TableRight, CaughtUp
               PROVE  LET ready == {p \in Pods : pods[p] = "ready"} IN
                      Listed \ missed \subseteq ready /\ ready \ refused \subseteq Listed
    BY DEF DiscoveryInv, TableInv, TableExact
  <2>1. Watching /\ connected /\ \A p : ~Sent(p) /\ ~InHand(p)
    BY SMT DEF CaughtUp, Watching, DiscoveryTypeOK, Sent, InHand
  <2>2. Listed \subseteq Pods
    BY DEF Listed
  <2> QED
    BY <2>1, <2>2 DEF TableRight
<1> QED
  BY <1>1, DiscoveryInvariant, PTL

\* A model that was ever routable stays routable or is known, though _add_engine puts
\* it into the table before known_models has it.
THEOREM ModelsStayKnown == DiscoverySpec => []OnceRoutableIsKnown
<1>1. DiscoveryInv => OnceRoutableIsKnown
  <2> SUFFICES ASSUME DiscoveryTypeOK, KnownSoFar, NEW m \in advertised, m \notin known_models
               PROVE  \E p \in Pods : m \in available_engines[p]
    BY DEF DiscoveryInv, TableInv, OnceRoutableIsKnown
  <2>1. watcher \in {"added", "scheduled", "noting"} /\ m \in names
    BY DEF KnownSoFar
  <2>2. event.pod \in Pods /\ available_engines[event.pod] = names
    BY <2>1 DEF KnownSoFar, DiscoveryTypeOK, Handling, PodEvent
  <2> QED
    BY <2>1, <2>2
<1> QED
  BY <1>1, DiscoveryInvariant, PTL

\* Between the sessions lifespan opens and those the watcher schedules, no engine of
\* the table is left without a client session while the loop runs.
THEOREM SessionsForAll == DiscoverySpec => []SessionsOpened
<1>1. DiscoveryInv => SessionsOpened
  BY DEF DiscoveryInv, SessionsSoFar, SessionsOpened
<1> QED
  BY <1>1, DiscoveryInvariant, PTL

=============================================================================
