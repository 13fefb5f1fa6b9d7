----------------------------- MODULE LoraAdapters -----------------------------
(***************************************************************************)
(* The LoRA adapter controller of the operator                             *)
(* (operator/internal/controller/loraadapter_controller.go) for one        *)
(* LoraAdapter object: the passes of Reconcile, cut at every call to a pod *)
(* or to the API server, against pods that come and go, edits, deletion    *)
(* and calls that fail or never return.                                    *)
(*                                                                         *)
(* Pods are numbers, in the order of their names.  Reads of the API server *)
(* return the latest object, and the pods share the adapter's files.       *)
(***************************************************************************)
EXTENDS Integers, FiniteSets

CONSTANTS Pods,                 \* numbers
          MaxReplicas,          \* bound: replicas asked for; as many as Pods is also none given
          MaxSpecEdits,         \* bound: edits of the spec
          MaxPodMoves,          \* bound: changes of pods
          MaxCallFaults         \* bound: calls that fail, and crashes of the operator

ASSUME LoraAssumption == Pods \subseteq Nat /\ MaxReplicas \in Nat

VARIABLES podState, loaded,     \* pod |-> absent, unready or ready; who has the adapter
          told,                 \* ready pods the router last read the adapter from
          object, finalizer, replicas,
          path,                 \* AdapterPath: set, remote (to be downloaded), or not to be found
          status,               \* Status.LoadedAdapters, by pod
          worker, pass,         \* where Reconcile is, and in which pass over the pods
          current, seen,        \* its copy of the object: still the latest; the replicas in it
          toQuery, registrations, desired, todo, target,
          loraEdits, podMoves, callFaults,
          skipped,              \* history: pods not read by the last listing of a deletion
          owed                  \* history: pods changed without an event for the router

podVars == <<podState, loaded, told, owed, podMoves>>
objectVars == <<object, finalizer, replicas, path, loraEdits>>
localVars == <<current, seen, toQuery, registrations, desired, todo, target>>
loraVars == <<podVars, objectVars, localVars, status, worker, pass, callFaults, skipped>>

NoPod == -1

Ready == {p \in Pods : podState[p] = "ready"}

\* The first of the ready pods, in the order of their names.
Placement(n) == {p \in Ready : Cardinality({q \in Ready : q < p}) < n}

First(S) == {p \in S : \A q \in S : p <= q}

LoraInit ==
  /\ podState \in [Pods -> {"absent", "ready"}] /\ loaded = {} /\ told = {} /\ owed = {}
  /\ object = "live" /\ finalizer = FALSE /\ replicas \in 0..MaxReplicas
  /\ path \in {"set", "remote", "none"}
  /\ status = {} /\ worker = "idle" /\ pass = "before"
  /\ current = TRUE /\ seen = 0
  /\ toQuery = {} /\ registrations = {} /\ desired = {} /\ todo = {} /\ target = NoPod
  /\ loraEdits = 0 /\ podMoves = 0 /\ callFaults = 0 /\ skipped = {}

-----------------------------------------------------------------------------
(* Pods, users and faults *)

\* A pod that becomes ready is read by the router; one that stops loses the adapter.
PodChanges(p, to) ==
  /\ podMoves < MaxPodMoves /\ podMoves' = podMoves + 1
  /\ <<podState[p], to>> \in {<<"absent", "unready">>, <<"unready", "ready">>, <<"ready", "unready">>,
                              <<"ready", "absent">>, <<"unready", "absent">>}
  /\ podState' = [podState EXCEPT ![p] = to]
  /\ loaded' = IF to = "absent" THEN loaded \ {p} ELSE loaded
  /\ told' = IF to = "ready" /\ p \in loaded THEN told \cup {p} ELSE told \ {p}
  /\ owed' = owed \ {p}
  /\ UNCHANGED <<objectVars, localVars, status, worker, pass, callFaults, skipped>>

EditSpec(n) ==
  /\ object # "gone" /\ loraEdits < MaxSpecEdits /\ n # replicas
  /\ loraEdits' = loraEdits + 1
  /\ replicas' = n /\ current' = FALSE
  /\ UNCHANGED <<podVars, object, finalizer, path, seen, toQuery, registrations, desired, todo, target,
                 status, worker, pass, callFaults, skipped>>

\* The API server keeps the object until its finalizer is removed.
DeleteObject ==
  /\ object = "live"
  /\ object' = IF finalizer THEN "deleting" ELSE "gone"
  /\ current' = FALSE
  /\ UNCHANGED <<podVars, finalizer, replicas, path, loraEdits, seen, toQuery, registrations, desired,
                 todo, target, status, worker, pass, callFaults, skipped>>

\* A pass is over: it is repeated after a minute, or after an error.
EndPass == worker' = "idle" /\ target' = NoPod

Faulty == callFaults < MaxCallFaults /\ callFaults' = callFaults + 1

\* A call to the API server fails, or the operator is restarted.  A pod whose
\* adapter was changed a moment ago then gets no event.
PassFails ==
  /\ worker # "idle" /\ Faulty /\ EndPass
  /\ owed' = IF target = NoPod THEN owed ELSE owed \cup {target}
  /\ UNCHANGED <<podState, loaded, told, podMoves, objectVars, current, seen, toQuery, registrations,
                 desired, todo, status, pass, skipped>>

-----------------------------------------------------------------------------
(* Reconcile *)

\* Get; the object of a first pass has no finalizer yet.
Reconcile ==
  /\ worker = "idle" /\ object # "gone"
  /\ current' = TRUE /\ seen' = replicas
  /\ pass' = IF object = "deleting" THEN "deletion" ELSE "before"
  /\ worker' = IF object = "live" /\ ~finalizer THEN "finalizing" ELSE "listing"
  /\ UNCHANGED <<podVars, objectVars, toQuery, registrations, desired, todo, target, status, callFaults,
                 skipped>>

\* Update refuses an object that is not the latest; either way another pass follows.
AddFinalizer ==
  /\ worker = "finalizing" /\ EndPass
  /\ finalizer' = current
  /\ UNCHANGED <<podVars, object, replicas, path, loraEdits, current, seen, toQuery, registrations,
                 desired, todo, status, pass, callFaults, skipped>>

\* getAdapterRegistrations: the pods that are ready, then the models of each.
ListPods ==
  /\ worker = "listing"
  /\ worker' = "querying" /\ toQuery' = Ready /\ registrations' = {}
  /\ skipped' = IF pass = "deletion" THEN Pods \ Ready ELSE skipped
  /\ UNCHANGED <<podVars, objectVars, current, seen, desired, todo, target, status, pass, callFaults>>

QueryAnswers(p) ==
  /\ worker = "querying" /\ p \in First(toQuery) /\ podState[p] # "absent"
  /\ toQuery' = toQuery \ {p}
  /\ registrations' = IF p \in loaded THEN registrations \cup {p} ELSE registrations
  /\ UNCHANGED <<podVars, objectVars, current, seen, desired, todo, target, status, worker, pass,
                 callFaults, skipped>>

\* A pod that cannot be read is passed over.
QueryFails(p) ==
  /\ worker = "querying" /\ p \in First(toQuery)
  /\ \/ podState[p] = "absent" /\ UNCHANGED callFaults
     \/ podState[p] # "absent" /\ Faulty
  /\ toQuery' = toQuery \ {p}
  /\ skipped' = IF pass = "deletion" THEN skipped \cup {p} ELSE skipped
  /\ UNCHANGED <<podVars, objectVars, current, seen, registrations, desired, todo, target, status, worker,
                 pass>>

\* Get again, then the status; a conflict is retried with the newer object.
updateStatusWithRegistrations ==
  /\ worker = "querying" /\ toQuery = {} /\ pass # "deletion"
  /\ status' = registrations
  /\ current' = TRUE /\ seen' = replicas
  /\ worker' = IF pass = "before" THEN "placing" ELSE "idle"
  /\ UNCHANGED <<podVars, objectVars, toQuery, registrations, desired, todo, target, pass, callFaults,
                 skipped>>

\* The condition is new: updateStatusWithRegistrations has just removed it.
updateStatusWithWaitingState == status' = {}

compareStates_by_number(have, want) == Cardinality(have) # Cardinality(want)

\* TRUE when there is something to reconcile: one per pod on both sides.
compareStates(have, want) == have # want

\* An empty placement is taken for a lack of ready pods, also when no replica is
\* asked for.
getOptimalPlacement ==
  /\ worker = "placing"
  /\ desired' = Placement(seen)
  /\ todo' = desired' \ registrations
  /\ IF desired' = {}
     THEN worker' = "idle" /\ updateStatusWithWaitingState
     ELSE /\ worker' = IF compareStates(registrations, desired') THEN "loading" ELSE "idle"
          /\ UNCHANGED status
  /\ UNCHANGED <<podVars, objectVars, current, seen, toQuery, registrations, target, pass, callFaults,
                 skipped>>

-----------------------------------------------------------------------------
(* reconcileToDesiredState and handleDeletion *)

\* discoverAdapter: a downloaded adapter's path is written into the latest object.
\* Without a path, a local adapter, one kept in S3 or behind HTTP, and one whose
\* repository or token is missing are errors every time.
Discovered == path = "set" \/ (path = "remote" /\ current)

\* discoverAdapter, and loadAdapter up to the answer.  To load an adapter again
\* is a success.
loadAdapter(p) ==
  /\ worker = "loading" /\ target = NoPod /\ p \in First(todo)
  /\ podState[p] # "absent" /\ Discovered
  /\ path' = "set"
  /\ loaded' = loaded \cup {p} /\ target' = p
  /\ UNCHANGED <<podState, told, owed, podMoves, object, finalizer, replicas, loraEdits, current, seen,
                 toQuery, registrations, desired, todo, status, worker, pass, callFaults, skipped>>

\* The pod is gone, there is no path or it cannot be written, or the request fails, perhaps
\* after it was carried out: nothing more is loaded or unloaded in this pass.
LoadFails(p) ==
  /\ worker = "loading" /\ target = NoPod /\ p \in First(todo)
  /\ \/ podState[p] = "absent" /\ UNCHANGED <<loaded, owed, callFaults>>
     \/ ~Discovered /\ UNCHANGED <<loaded, owed, callFaults>>
     \/ /\ podState[p] # "absent" /\ Discovered /\ Faulty
        /\ loaded' \in {loaded, loaded \cup {p}}
        /\ owed' = IF loaded' = loaded THEN owed ELSE owed \cup {p}
  /\ EndPass
  /\ UNCHANGED <<podState, told, podMoves, objectVars, current, seen, toQuery, registrations, desired,
                 todo, status, pass, skipped>>

\* What is unloaded next: in the order of the listing on deletion, of a Go map else.
Unloads == IF pass = "deletion" THEN First(todo) ELSE todo

unloadAdapter(p) ==
  /\ worker = "unloading" /\ target = NoPod /\ p \in Unloads /\ p \in loaded
  /\ loaded' = loaded \ {p} /\ target' = p
  /\ UNCHANGED <<podState, told, owed, podMoves, objectVars, current, seen, toQuery, registrations,
                 desired, todo, status, worker, pass, callFaults, skipped>>

\* An engine that has started anew does not know the adapter, and says so.
UnloadFails(p) ==
  /\ worker = "unloading" /\ target = NoPod /\ p \in Unloads
  /\ \/ p \notin loaded /\ UNCHANGED <<loaded, owed, callFaults>>
     \/ /\ p \in loaded /\ Faulty
        /\ loaded' \in {loaded, loaded \ {p}}
        /\ owed' = IF loaded' = loaded THEN owed ELSE owed \cup {p}
  /\ EndPass
  /\ UNCHANGED <<podState, told, podMoves, objectVars, current, seen, toQuery, registrations, desired,
                 todo, status, pass, skipped>>

triggerPodEvent_not ==
  /\ target # NoPod /\ podState[target] # "absent"
  /\ todo' = todo \ {target} /\ target' = NoPod
  /\ UNCHANGED <<podVars, objectVars, current, seen, toQuery, registrations, desired, status, worker,
                 pass, callFaults, skipped>>

\* The annotation makes an event, on which the router reads a ready pod again.
triggerPodEvent ==
  /\ target # NoPod /\ podState[target] # "absent"
  /\ todo' = todo \ {target} /\ target' = NoPod
  /\ told' = IF target \in Ready \cap loaded THEN told \cup {target} ELSE told \ {target}
  /\ owed' = owed \ {target}
  /\ UNCHANGED <<podState, loaded, podMoves, objectVars, current, seen, toQuery, registrations, desired,
                 status, worker, pass, callFaults, skipped>>

\* The pod is gone.
TriggerFails ==
  /\ target # NoPod /\ podState[target] = "absent" /\ EndPass
  /\ UNCHANGED <<podVars, objectVars, current, seen, toQuery, registrations, desired, todo, status, pass,
                 callFaults, skipped>>

StartUnloading ==
  /\ \/ worker = "loading" /\ todo = {} /\ todo' = registrations \ desired
     \/ worker = "querying" /\ toQuery = {} /\ pass = "deletion" /\ todo' = registrations
  /\ worker' = "unloading"
  /\ UNCHANGED <<podVars, objectVars, current, seen, toQuery, registrations, desired, target, status, pass,
                 callFaults, skipped>>

\* Get again, and list the registrations for the status.
Reconciled ==
  /\ worker = "unloading" /\ todo = {} /\ pass = "before"
  /\ worker' = "listing" /\ pass' = "after"
  /\ current' = TRUE /\ seen' = replicas
  /\ UNCHANGED <<podVars, objectVars, toQuery, registrations, desired, todo, target, status, callFaults,
                 skipped>>

RemoveFinalizer_at_once ==
  /\ worker = "unloading" /\ target = NoPod /\ pass = "deletion" /\ EndPass
  /\ IF current THEN object' = "gone" /\ finalizer' = FALSE ELSE UNCHANGED <<object, finalizer>>
  /\ UNCHANGED <<podVars, replicas, path, loraEdits, current, seen, toQuery, registrations, desired, todo,
                 status, pass, callFaults, skipped>>

\* Update refuses an object that was edited since; then there is another pass.
RemoveFinalizer ==
  /\ worker = "unloading" /\ todo = {} /\ pass = "deletion" /\ EndPass
  /\ IF current THEN object' = "gone" /\ finalizer' = FALSE ELSE UNCHANGED <<object, finalizer>>
  /\ UNCHANGED <<podVars, replicas, path, loraEdits, current, seen, toQuery, registrations, desired, todo,
                 status, pass, callFaults, skipped>>

\* The calls of sendRequest have no timeout: one to a pod that does not answer never
\* returns, and the only worker waits with it until the operator is restarted.
CallHangs(p) ==
  /\ podState[p] # "absent" /\ target = NoPod
  /\ \/ worker = "querying" /\ p \in First(toQuery) /\ loaded' = loaded
     \/ worker = "loading" /\ p \in First(todo) /\ path # "none" /\ loaded' \in {loaded, loaded \cup {p}}
     \/ worker = "unloading" /\ p \in Unloads /\ loaded' \in {loaded, loaded \ {p}}
  /\ owed' = IF loaded' = loaded THEN owed ELSE owed \cup {p}
  /\ worker' = "hung"
  /\ UNCHANGED <<podState, told, podMoves, objectVars, localVars, status, pass, callFaults, skipped>>

PodStep(p) ==
  QueryAnswers(p) \/ QueryFails(p) \/ loadAdapter(p) \/ LoadFails(p) \/ unloadAdapter(p) \/ UnloadFails(p)

ReconcileStep ==
  \/ Reconcile \/ AddFinalizer \/ ListPods \/ updateStatusWithRegistrations \/ getOptimalPlacement
  \/ triggerPodEvent \/ TriggerFails \/ StartUnloading \/ Reconciled \/ RemoveFinalizer
  \/ \E p \in Pods : PodStep(p)

LoraNext ==
  \/ ReconcileStep \/ (\E p \in Pods : CallHangs(p)) \/ PassFails \/ DeleteObject
  \/ \E n \in 0..MaxReplicas : EditSpec(n)
  \/ \E p \in Pods, to \in {"absent", "unready", "ready"} : PodChanges(p, to)

LoraSpec == LoraInit /\ [][LoraNext]_loraVars

-----------------------------------------------------------------------------
(* Properties *)

\* The cluster and the locals of Reconcile hold values of their types.
LoraTypeOK ==
  /\ podState \in [Pods -> {"absent", "unready", "ready"}]
  /\ loaded \subseteq {p \in Pods : podState[p] # "absent"}
  /\ told \subseteq Ready /\ owed \subseteq Pods /\ skipped \subseteq Pods
  /\ object \in {"live", "deleting", "gone"} /\ finalizer \in BOOLEAN
  /\ replicas \in 0..MaxReplicas /\ path \in {"set", "remote", "none"} /\ status \subseteq Pods
  /\ worker \in {"idle", "finalizing", "listing", "querying", "placing", "loading", "unloading",
                "hung"}
  /\ pass \in {"before", "after", "deletion"}
  /\ current \in BOOLEAN /\ seen \in 0..MaxReplicas
  /\ toQuery \subseteq Pods /\ registrations \subseteq Pods
  /\ desired \subseteq Pods /\ todo \subseteq Pods /\ target \in Pods \cup {NoPod}

\* As long as a pod may hold the adapter, the finalizer keeps the object: no order
\* of edits, deletion, errors and restarts of the operator lets it go unnoticed.
HeldByFinalizer == loaded # {} /\ object # "gone" => finalizer

\* When handleDeletion has let the object go, the adapter is left only on pods that
\* its last listing of the registrations passed over.
DeletedIsUnloaded == object = "gone" => loaded \subseteq skipped

\* The router has read every ready pod since its adapter was loaded or unloaded,
\* unless a call failed between that change and the event for it.
RouterTold ==
  \A p \in Ready \ (owed \cup {target}) : p \in told <=> p \in loaded

\* In the end the adapter is on the first of the ready pods, as many as are asked
\* for (if any are), and on no other, and the status says so: unless the adapter
\* cannot be found, or one call to a pod never returns.
Converges ==
  <>[](object = "live" /\ replicas # 0 /\ path # "none" /\ worker # "hung" =>
         Ready \cap loaded = Placement(replicas) /\ status = Ready \cap loaded)

=============================================================================
