------------------------ MODULE ServiceNameDiscovery ------------------------
(***************************************************************************)
(* K8sServiceNameServiceDiscovery (src/vllm_router/service_discovery.py):  *)
(* the thread that watches services instead of pods.  An event of a        *)
(* service says nothing about readiness: the watcher asks for the          *)
(* service's endpoints and models when it reads the event, and changes of  *)
(* the endpoints alone cause no event.                                     *)
(*                                                                         *)
(* The thread is cut at: check (while self.running), opening (about to     *)
(* list), waiting (for an event), applying (endpoints and models read, the *)
(* other queries of _add_engine under way), stopped.                       *)
(***************************************************************************)
EXTENDS Integers, Sequences, SequencesExt

CONSTANTS Services,
          NoService,
          MaxServiceChanges,    \* bound: changes of services and endpoints
          MaxStreamFaults       \* bound: broken streams and failing queries

ASSUME ServicesAssumption == IsFiniteSet(Services) /\ NoService \notin Services

VARIABLES exists, serving,      \* the cluster: which services there are, and serve
          serviceChanges, streamFaults,
          stream,               \* open or not
          svcEvents,            \* events sent and not yet read
          svcWatcher,
          examined,             \* the event in hand, and whether its service served
          engines,              \* keys of available_engines
          watching, stopFlag,   \* self.running, k8s_watcher._stop
          current               \* history: services unchanged since they were acted upon

svcVars == <<exists, serving, serviceChanges, streamFaults, stream, svcEvents, svcWatcher, examined,
             engines, watching, stopFlag, current>>

NotExamining == [type |-> "NONE", service |-> NoService, ok |-> FALSE]

ServiceInit ==
  /\ exists \in SUBSET Services /\ serving \in SUBSET exists
  /\ serviceChanges = 0 /\ streamFaults = 0
  /\ stream = FALSE /\ svcEvents = <<>>
  /\ svcWatcher = "check" /\ examined = NotExamining
  /\ engines = {}
  /\ watching = TRUE /\ stopFlag = FALSE
  /\ current = {}

-----------------------------------------------------------------------------
(* The cluster, external *)

\* A service is created, edited or deleted; an open stream reports it.
ServiceChanges(s) ==
  /\ serviceChanges < MaxServiceChanges
  /\ serviceChanges' = serviceChanges + 1
  /\ \E t \in (IF s \in exists THEN {"MODIFIED", "DELETED"} ELSE {"ADDED"}) :
       /\ exists' = IF t = "DELETED" THEN exists \ {s} ELSE exists \cup {s}
       /\ serving' = IF t = "DELETED" THEN serving \ {s} ELSE serving
       /\ svcEvents' = IF stream THEN Append(svcEvents, [type |-> t, service |-> s]) ELSE svcEvents
       /\ current' = IF t = "MODIFIED" THEN current ELSE current \ {s}
  /\ UNCHANGED <<streamFaults, stream, svcWatcher, examined, engines, watching, stopFlag>>

\* The endpoints of a service come and go without an event of the service.
EndpointsChange(s) ==
  /\ s \in exists
  /\ serviceChanges < MaxServiceChanges
  /\ serviceChanges' = serviceChanges + 1
  /\ serving' = IF s \in serving THEN serving \ {s} ELSE serving \cup {s}
  /\ current' = current \ {s}
  /\ UNCHANGED <<exists, streamFaults, stream, svcEvents, svcWatcher, examined, engines, watching,
                 stopFlag>>

-----------------------------------------------------------------------------
(* The watcher thread *)

SvcCheck_by_flag ==
  /\ svcWatcher = "check"
  /\ svcWatcher' = IF stopFlag THEN "stopped" ELSE "opening"
  /\ UNCHANGED <<exists, serving, serviceChanges, streamFaults, stream, svcEvents, examined, engines,
                 watching, stopFlag, current>>

\* while self.running
SvcCheck ==
  /\ svcWatcher = "check"
  /\ svcWatcher' = IF watching THEN "opening" ELSE "stopped"
  /\ UNCHANGED <<exists, serving, serviceChanges, streamFaults, stream, svcEvents, examined, engines,
                 watching, stopFlag, current>>

\* The stream lists the services first, each as ADDED, and clears the stop flag.
SvcOpen ==
  /\ svcWatcher = "opening"
  /\ svcWatcher' = "waiting" /\ stream' = TRUE /\ stopFlag' = FALSE
  /\ \E order \in SetToSeqs(exists) :
       svcEvents' = [i \in DOMAIN order |-> [type |-> "ADDED", service |-> order[i]]]
  /\ UNCHANGED <<exists, serving, serviceChanges, streamFaults, examined, engines, watching, current>>

EndStream ==
  /\ svcWatcher' = "check" /\ stream' = FALSE /\ svcEvents' = <<>> /\ examined' = NotExamining

\* The API server ends the watch after its timeout.
SvcTimesOut ==
  /\ svcWatcher = "waiting" /\ svcEvents = <<>>
  /\ EndStream
  /\ UNCHANGED <<exists, serving, serviceChanges, streamFaults, engines, watching, stopFlag, current>>

\* An exception ends the stream, and its unread events are lost with it.
LoseStream ==
  /\ current' = current \ ({examined.service} \cup {svcEvents[i].service : i \in DOMAIN svcEvents})
  /\ EndStream
  /\ UNCHANGED <<exists, serving, serviceChanges, engines, watching, stopFlag>>

\* The connection breaks, the endpoints cannot be read, or a query of _add_engine
\* raises, when the event in hand is lost as well.
SvcRaises ==
  /\ svcWatcher = "waiting" \/ (svcWatcher = "applying" /\ examined.ok)
  /\ streamFaults < MaxStreamFaults
  /\ streamFaults' = streamFaults + 1
  /\ LoseStream

\* A service that is gone by now has no endpoints to read: ApiException.
ReadGone ==
  /\ svcWatcher = "waiting" /\ svcEvents # <<>>
  /\ Head(svcEvents).type # "DELETED" /\ Head(svcEvents).service \notin exists
  /\ LoseStream
  /\ UNCHANGED streamFaults

\* Watch.stream looks at its stop flag after each event it has handed over.
NextEvent(rest) ==
  /\ svcWatcher' = IF stopFlag THEN "check" ELSE "waiting"
  /\ stream' = ~stopFlag
  /\ svcEvents' = IF stopFlag THEN <<>> ELSE rest

SvcDeleted ==
  /\ svcWatcher = "waiting" /\ svcEvents # <<>> /\ Head(svcEvents).type = "DELETED"
  /\ engines' = engines \ {Head(svcEvents).service}
  /\ current' = IF Head(svcEvents).service \in exists THEN current
                ELSE current \cup {Head(svcEvents).service}
  /\ NextEvent(Tail(svcEvents))
  /\ UNCHANGED <<exists, serving, serviceChanges, streamFaults, examined, watching, stopFlag>>

\* _check_service_ready and _get_model_names; a query that fails counts as no.
Examine ==
  /\ svcWatcher = "waiting" /\ svcEvents # <<>>
  /\ LET e == Head(svcEvents) IN
     /\ e.type # "DELETED" /\ e.service \in exists
     /\ \/ /\ examined' = [type |-> e.type, service |-> e.service, ok |-> e.service \in serving]
           /\ current' = current \cup {e.service}
           /\ UNCHANGED streamFaults
        \/ /\ streamFaults < MaxStreamFaults
           /\ streamFaults' = streamFaults + 1
           /\ examined' = [type |-> e.type, service |-> e.service, ok |-> FALSE]
           /\ current' = current \ {e.service}
  /\ svcWatcher' = "applying"
  /\ svcEvents' = Tail(svcEvents)
  /\ UNCHANGED <<exists, serving, serviceChanges, stream, engines, watching, stopFlag>>

_on_engine_update_adds_only ==
  /\ svcWatcher = "applying"
  /\ engines' = IF examined.ok THEN engines \cup {examined.service} ELSE engines
  /\ examined' = NotExamining
  /\ NextEvent(svcEvents)
  /\ UNCHANGED <<exists, serving, serviceChanges, streamFaults, watching, stopFlag, current>>

\* An ADDED event of a service that does not serve is dropped, also when the
\* service is in the table from an earlier stream.
_on_engine_update ==
  /\ svcWatcher = "applying"
  /\ engines' = IF examined.ok THEN engines \cup {examined.service}
                ELSE IF examined.type = "ADDED" THEN engines ELSE engines \ {examined.service}
  /\ current' = IF examined.type = "ADDED" /\ ~examined.ok /\ examined.service \in engines
                THEN current \ {examined.service} ELSE current
  /\ examined' = NotExamining
  /\ NextEvent(svcEvents)
  /\ UNCHANGED <<exists, serving, serviceChanges, streamFaults, watching, stopFlag>>

SvcClose_only_stops_stream ==
  /\ watching
  /\ stopFlag' = TRUE
  /\ UNCHANGED <<exists, serving, serviceChanges, streamFaults, stream, svcEvents, svcWatcher, examined,
                 engines, current, watching>>

SvcClose ==
  /\ watching
  /\ watching' = FALSE /\ stopFlag' = TRUE
  /\ UNCHANGED <<exists, serving, serviceChanges, streamFaults, stream, svcEvents, svcWatcher, examined,
                 engines, current>>

SvcWatcherStep == SvcCheck \/ SvcOpen \/ SvcDeleted \/ Examine \/ ReadGone \/ _on_engine_update

ServiceStep ==
  \/ \E s \in Services : ServiceChanges(s) \/ EndpointsChange(s)
  \/ SvcWatcherStep \/ SvcTimesOut \/ SvcRaises

-----------------------------------------------------------------------------
(* Properties *)

\* Once the watcher has caught up, the table is right about every service that
\* has not changed since the watcher last acted upon an event of it: the service
\* is in the table if and only if it serves.  (A listing that finds a service of
\* the table no longer serving is not acted upon.)
TableAsExamined ==
  svcWatcher = "waiting" /\ svcEvents = <<>> =>
    \A s \in current : s \in engines <=> s \in serving

=============================================================================
