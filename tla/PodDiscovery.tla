---------------------------- MODULE PodDiscovery ----------------------------
(***************************************************************************)
(* K8sPodIPServiceDiscovery (src/vllm_router/service_discovery.py): the    *)
(* watcher thread that turns the pod events of the API server into the     *)
(* table of engines requests are routed to, and the asyncio loop of the    *)
(* router that it shares work with (the lifespan function of app.py).      *)
(*                                                                         *)
(* The watcher thread is cut where another actor can run:                  *)
(*   check     while self.running                                          *)
(*   opening   k8s_watcher.stream(...) is about to list and watch          *)
(*   waiting   blocked on the next event of the stream                     *)
(*   naming    _get_model_names                                            *)
(*   adding    _get_model_info, _check_engine_sleep_mode                   *)
(*   added     the engine is in available_engines                          *)
(*   scheduled blocked in fut.result()                                     *)
(*   noting    known_models.update                                         *)
(*   stopped   the thread has returned                                     *)
(* The loop: starting, attached (set_event_loop called), running, joining  *)
(* (blocked in watcher_thread.join()), closed.                             *)
(***************************************************************************)
EXTENDS Naturals, Sequences, FiniteSets

CONSTANTS
  Pods,                 \* pod names
  PrefillPods,          \* those whose model label is a prefill label; the others decode
  Models,               \* model names
  MaxChanges,           \* bound: changes of pods in the cluster
  MaxFaults,            \* bound: broken streams and API errors
  NoPod

ASSUME PodsAssumption == PrefillPods \subseteq Pods /\ NoPod \notin Pods /\ IsFiniteSet(Pods)

Roles == {"prefill", "decode"}
Role(p) == IF p \in PrefillPods THEN "prefill" ELSE "decode"

\* A pod is "absent", "noip" (not yet scheduled, or evicted), "unready", "ready" or
\* "terminating" (its containers are ready and it has a deletion timestamp).
VARIABLES
  pods, changes,                \* the cluster, and how often it changed
  connected, queue, faults,     \* the watch stream: events sent, not yet read
  watcher, event, names,        \* the watcher thread and its locals
  available_engines,            \* the models of each engine; {} is not in the table
  known_models,
  running, stop,                \* self.running, k8s_watcher._stop
  loop, deferred, clients,      \* the asyncio loop, its pending coroutine, app.state.*_client
  event_loop_ready,
  missed,                       \* history: pods that changed while no stream was open
  refused,                      \* history: ready pods whose models could not be read
  advertised                    \* history: models that were ever routable

clusterVars == <<pods, changes>>
loopVars == <<loop, deferred, clients, event_loop_ready, running>>
tableVars == <<available_engines, known_models, advertised, missed, refused>>
vars == <<pods, changes, connected, queue, faults, watcher, event, names, available_engines,
          known_models, running, stop, loop, deferred, clients, event_loop_ready, missed,
          refused, advertised>>

Listed == {p \in Pods : available_engines[p] # {}}

Event(t, p, s) == [type |-> t, pod |-> p, state |-> s]

\* The watcher is not handling an event.
NoEvent == Event("NONE", NoPod, "absent")

DiscoveryInit ==
  /\ pods \in [Pods -> {"absent", "unready", "ready"}] /\ changes = 0
  /\ connected = FALSE /\ queue = <<>> /\ faults = 0
  /\ watcher = "check" /\ names = {} /\ event = NoEvent
  /\ available_engines = [p \in Pods |-> {}]
  /\ known_models = {}
  /\ running = TRUE /\ stop = FALSE
  /\ loop = "starting" /\ deferred = FALSE /\ event_loop_ready = FALSE
  /\ clients = [r \in Roles |-> NoPod]
  /\ missed = {} /\ refused = {} /\ advertised = {}

-----------------------------------------------------------------------------
(* The cluster and its API server *)

NextStates(s) ==
  CASE s = "absent" -> {"noip"}
    [] s = "noip" -> {"unready", "absent"}
    [] s = "unready" -> {"ready", "noip", "absent"}
    [] s = "ready" -> {"unready", "terminating", "noip"}
    [] s = "terminating" -> {"absent", "unready"}

\* A pod changes.  An open stream reports it; otherwise nobody hears of it.
PodChanges(p) ==
  /\ changes < MaxChanges
  /\ changes' = changes + 1
  /\ \E s \in NextStates(pods[p]) :
       /\ pods' = [pods EXCEPT ![p] = s]
       /\ LET t == IF pods[p] = "absent" THEN "ADDED"
                   ELSE IF s = "absent" THEN "DELETED" ELSE "MODIFIED" IN
          queue' = IF connected THEN Append(queue, Event(t, p, s)) ELSE queue
  /\ missed' = IF connected THEN missed ELSE missed \cup {p}
  /\ UNCHANGED <<connected, faults, watcher, event, names, available_engines, known_models,
                 running, stop, loop, deferred, clients, event_loop_ready, refused, advertised>>

-----------------------------------------------------------------------------
(* The watcher thread *)

CheckRunning ==
  /\ watcher = "check"
  /\ watcher' = IF running THEN "opening" ELSE "stopped"
  /\ UNCHANGED <<clusterVars, connected, queue, faults, event, names, tableVars, stop, loopVars>>

Existing == {p \in Pods : pods[p] # "absent"}

Listings(S) ==
  {f \in [1..Cardinality(S) -> S] : \A i, j \in DOMAIN f : f[i] = f[j] => i = j}

\* Watch.stream clears its stop flag and lists the pods without a resource
\* version, so every existing pod is reported as ADDED before any change is.
OpenStream ==
  /\ watcher = "opening"
  /\ watcher' = "waiting" /\ stop' = FALSE /\ connected' = TRUE
  /\ \E f \in Listings(Existing) :
       queue' = [i \in DOMAIN f |-> Event("ADDED", f[i], pods[f[i]])]
  /\ UNCHANGED <<clusterVars, faults, event, names, tableVars, loopVars>>

\* The stream ends: its events not yet read are lost with it.
CloseStream ==
  /\ watcher' = "check"
  /\ connected' = FALSE
  /\ queue' = <<>> /\ event' = NoEvent /\ names' = {}
  /\ missed' = missed \cup {queue[i].pod : i \in DOMAIN queue}

\* The API server ends a watch after its timeout.
StreamTimesOut ==
  /\ watcher = "waiting"
  /\ queue = <<>>
  /\ CloseStream
  /\ UNCHANGED <<clusterVars, faults, available_engines, known_models, advertised, refused, stop,
                 loopVars>>

WatcherRaises_kills_thread ==
  /\ watcher \in {"waiting", "adding"}
  /\ faults < MaxFaults
  /\ faults' = faults + 1
  /\ watcher' = "stopped" /\ connected' = FALSE /\ queue' = <<>> /\ event' = NoEvent
  /\ UNCHANGED <<clusterVars, names, tableVars, stop, loopVars>>

\* The connection breaks, or an exception other than ApiException escapes from
\* _check_engine_sleep_mode: the loop starts over.
WatcherRaises ==
  /\ watcher \in {"waiting", "adding"}
  /\ faults < MaxFaults
  /\ faults' = faults + 1
  /\ CloseStream
  /\ UNCHANGED <<clusterVars, available_engines, known_models, advertised, refused, stop, loopVars>>

\* Watch.stream looks at its stop flag after each event it has handed over.
AfterEvent ==
  /\ watcher' = IF stop THEN "check" ELSE "waiting"
  /\ connected' = ~stop
  /\ queue' = IF stop THEN <<>> ELSE queue
  /\ event' = NoEvent

_delete_engine(p) == available_engines' = [available_engines EXCEPT ![p] = {}]

is_container_ready(s) == s \in {"ready", "terminating"}
_is_pod_terminating(s) == s = "terminating"
is_pod_ready_terminating(s) == is_container_ready(s)

is_pod_ready(s) == is_container_ready(s) /\ ~_is_pod_terminating(s)

\* _on_engine_update for an event that adds no engine (the pod is gone, has no IP,
\* is not ready, or names no models): an ADDED event is dropped, any other removes
\* the engine if it is in the table.
Discard(e) ==
  IF e.type = "ADDED" THEN UNCHANGED available_engines ELSE _delete_engine(e.pod)

\* An event of a pod that is gone or not ready.
ReadUnreadyEvent ==
  /\ watcher = "waiting" /\ queue # <<>>
  /\ LET e == Head(queue) IN
       /\ e.type = "DELETED" \/ ~is_pod_ready(e.state)
       /\ Discard(e)
       /\ missed' = IF e.type = "ADDED" THEN missed ELSE missed \ {e.pod}
       /\ refused' = refused \ {e.pod}
       /\ watcher' = IF stop THEN "check" ELSE "waiting"
       /\ connected' = ~stop
       /\ queue' = IF stop THEN <<>> ELSE Tail(queue)
  /\ UNCHANGED <<clusterVars, faults, event, names, known_models, advertised, stop, loopVars>>

ReadReadyEvent ==
  /\ watcher = "waiting" /\ queue # <<>>
  /\ LET e == Head(queue) IN
       /\ e.type # "DELETED" /\ is_pod_ready(e.state)
       /\ event' = e
  /\ queue' = Tail(queue)
  /\ watcher' = "naming"
  /\ UNCHANGED <<clusterVars, connected, faults, names, tableVars, stop, loopVars>>

\* The models the pod reports; none when the query fails.
_get_model_names ==
  /\ watcher = "naming"
  /\ names' \in SUBSET Models
  /\ IF names' = {}
     THEN /\ Discard(event)
          /\ refused' = refused \cup {event.pod}
          /\ missed' = IF event.type = "ADDED" THEN missed ELSE missed \ {event.pod}
          /\ AfterEvent
     ELSE /\ watcher' = "adding"
          /\ UNCHANGED <<available_engines, refused, missed, connected, queue, event>>
  /\ UNCHANGED <<clusterVars, faults, known_models, advertised, stop, loopVars>>

_add_engine ==
  /\ watcher = "adding"
  /\ available_engines' = [available_engines EXCEPT ![event.pod] = names]
  /\ advertised' = advertised \cup names
  /\ missed' = missed \ {event.pod} /\ refused' = refused \ {event.pod}
  /\ watcher' = "added"
  /\ UNCHANGED <<clusterVars, connected, queue, faults, event, names, known_models, stop, loopVars>>

ScheduleSessions_never ==
  /\ watcher = "added"
  /\ watcher' = "noting"
  /\ UNCHANGED <<clusterVars, connected, queue, faults, event, names, tableVars, stop, loopVars>>

ScheduleSessions ==
  /\ watcher = "added"
  /\ watcher' = IF event_loop_ready THEN "scheduled" ELSE "noting"
  /\ UNCHANGED <<clusterVars, connected, queue, faults, event, names, tableVars, stop, loopVars>>

NoteModels_none ==
  /\ watcher = "noting"
  /\ AfterEvent /\ names' = {}
  /\ UNCHANGED <<clusterVars, faults, available_engines, known_models, advertised,
                 missed, refused, stop, loopVars>>

NoteModels ==
  /\ watcher = "noting"
  /\ known_models' = known_models \cup names
  /\ AfterEvent /\ names' = {}
  /\ UNCHANGED <<clusterVars, faults, available_engines, advertised, missed,
                 refused, stop, loopVars>>

-----------------------------------------------------------------------------
(* The asyncio loop *)

\* For each role the last engine of the table wins, whichever that is; a role
\* without an engine keeps the client it has.
initialize_client_sessions ==
  clients' \in {c \in [Roles -> Pods \cup {NoPod}] :
    \A r \in Roles :
      LET candidates == {p \in Listed : Role(p) = r} IN
      IF candidates = {} THEN c[r] = clients[r] ELSE c[r] \in candidates}

threadVars == <<clusterVars, connected, queue, faults, event, names, tableVars>>

set_event_loop ==
  /\ loop = "starting"
  /\ loop' = "attached" /\ event_loop_ready' = TRUE /\ deferred' = TRUE
  /\ UNCHANGED <<threadVars, watcher, running, stop, clients>>

\* lifespan awaits the same coroutine that set_event_loop has scheduled.
LifespanSessions ==
  /\ loop = "attached"
  /\ loop' = "running"
  /\ initialize_client_sessions
  /\ UNCHANGED <<threadVars, watcher, running, stop, event_loop_ready, deferred>>

RunDeferred ==
  /\ loop = "running" /\ deferred
  /\ deferred' = FALSE
  /\ initialize_client_sessions
  /\ UNCHANGED <<threadVars, watcher, running, stop, event_loop_ready, loop>>

RunScheduled ==
  /\ loop = "running" /\ watcher = "scheduled"
  /\ watcher' = "noting"
  /\ initialize_client_sessions
  /\ UNCHANGED <<threadVars, running, stop, event_loop_ready, loop, deferred>>

\* close(), called by lifespan on the loop itself.
close ==
  /\ loop = "running"
  /\ loop' = "joining" /\ running' = FALSE /\ stop' = TRUE
  /\ UNCHANGED <<threadVars, watcher, event_loop_ready, deferred, clients>>

Joined ==
  /\ loop = "joining" /\ watcher = "stopped"
  /\ loop' = "closed"
  /\ UNCHANGED <<threadVars, watcher, running, stop, event_loop_ready, deferred, clients>>

-----------------------------------------------------------------------------

WatcherStep ==
  \/ CheckRunning \/ OpenStream \/ ReadUnreadyEvent \/ ReadReadyEvent \/ _get_model_names
  \/ _add_engine \/ ScheduleSessions \/ NoteModels

LoopStep == set_event_loop \/ LifespanSessions \/ RunDeferred \/ RunScheduled \/ Joined

DiscoveryNext ==
  \/ \E p \in Pods : PodChanges(p)
  \/ StreamTimesOut \/ WatcherRaises \/ WatcherStep
  \/ LoopStep \/ close

\* Both threads are scheduled; a watch stream does not stay open for ever.
DiscoveryFairness ==
  /\ WF_vars(WatcherStep) /\ WF_vars(LoopStep)
  /\ WF_vars(RunDeferred) /\ WF_vars(RunScheduled) /\ WF_vars(StreamTimesOut)

DiscoverySpec == DiscoveryInit /\ [][DiscoveryNext]_vars /\ DiscoveryFairness

-----------------------------------------------------------------------------
(* Properties *)

\* The watcher has read all the stream has to say.
CaughtUp == watcher = "waiting" /\ queue = <<>>

\* Once the watcher has caught up, the table is the set of ready pods, except
\* for pods that changed while no stream was open (they may linger) and pods
\* that did not answer /v1/models (they are left out until their next event).
TableExact ==
  CaughtUp =>
    LET ready == {p \in Pods : pods[p] = "ready"} IN
    Listed \ missed \subseteq ready /\ ready \ refused \subseteq Listed

\* A model that was ever routable is either still routable or known, so a
\* request for it is told "scaled to zero" (503) and never "no such model"
\* (404), even though known_models is updated after the table, behind a wait.
OnceRoutableIsKnown ==
  \A m \in advertised : m \in known_models \/ \E p \in Pods : m \in available_engines[p]

\* An engine registered before the loop was attached gets its client session
\* from lifespan, one registered later from the watcher: between the two, none
\* is left without.
SessionsOpened ==
  (loop = "running" /\ watcher \notin {"added", "scheduled"}) =>
    \A p \in Listed : clients[Role(p)] # NoPod

\* A pod that is ready and stays so is listed, or failed to name its models,
\* unless the router shuts down.
EngineDiscovered ==
  \A p \in Pods :
    (pods[p] = "ready") ~>
      (p \in Listed \cup refused \/ pods[p] # "ready" \/ loop \in {"joining", "closed"})

\* "Close the service discovery module": close() returns.
CloseReturns == (loop = "joining") ~> (loop = "closed")

=============================================================================
