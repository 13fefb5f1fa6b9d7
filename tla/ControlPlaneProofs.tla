------------------------- MODULE ControlPlaneProofs -------------------------
(***************************************************************************)
(* Proofs about the two parts that keep the running system at what a       *)
(* configuration says: LoraAdapters, for any set of pods, and              *)
(* DynamicConfig, for any values of a configuration; both for any bounds.  *)
(***************************************************************************)
EXTENDS DynamicConfig, LoraAdapters, FiniteSetTheorems, TLAPS

\* Leaves are left to Zenon; those that need arithmetic or sequences cite SMT.
USE Zenon

-----------------------------------------------------------------------------
(* The operator's controller of LoRA adapters *)

\* Where the finalizer is known to be there: while Reconcile works on the pods, and
\* while the object is being deleted.
Guarded ==
  /\ worker \notin {"idle", "finalizing"} => finalizer
  /\ object = "deleting" => finalizer
  /\ finalizer => object # "gone"
  /\ worker = "finalizing" => ~finalizer /\ (current => object = "live")

\* The pod whose event is due is one of those the loop has still to do.
Pending ==
  /\ target # NoPod => worker \in {"loading", "unloading"} /\ target \in todo
  /\ target # NoPod /\ worker = "unloading" => target \notin loaded

\* On deletion every pod with the adapter was passed over or is still to be done.
Covered ==
  /\ worker \in {"placing", "loading"} => pass = "before"
  /\ pass = "deletion" /\ worker = "querying" => loaded \subseteq skipped \cup toQuery \cup registrations
  /\ pass = "deletion" /\ worker = "unloading" => loaded \subseteq skipped \cup todo

LoraInv ==
  /\ LoraTypeOK /\ Guarded /\ Pending /\ Covered
  /\ HeldByFinalizer /\ DeletedIsUnloaded /\ RouterTold

\* Every step of LoraAdapters keeps the types.
LEMMA TypeStep ==
  ASSUME LoraInv, [LoraNext]_loraVars
  PROVE  LoraTypeOK'
<1> USE LoraAssumption DEF LoraInv, podVars, objectVars, localVars, Ready, NoPod, LoraTypeOK
<1>1. CASE Reconcile
  BY <1>1 DEF Reconcile
<1>2. CASE AddFinalizer
  BY <1>2 DEF AddFinalizer, EndPass
<1>3. CASE ListPods
  BY <1>3 DEF ListPods
<1>4. CASE updateStatusWithRegistrations
  BY <1>4 DEF updateStatusWithRegistrations
<1>5. CASE getOptimalPlacement
  BY <1>5 DEF getOptimalPlacement, Placement, updateStatusWithWaitingState
<1>6. CASE triggerPodEvent
  BY <1>6 DEF triggerPodEvent
<1>7. CASE TriggerFails
  BY <1>7 DEF TriggerFails, EndPass
<1>8. CASE StartUnloading
  BY <1>8 DEF StartUnloading
<1>9. CASE Reconciled
  BY <1>9 DEF Reconciled
<1>10. CASE RemoveFinalizer
  BY <1>10 DEF RemoveFinalizer, EndPass
<1>11. CASE PassFails
  BY <1>11 DEF PassFails, EndPass, Faulty
<1>12. CASE DeleteObject
  BY <1>12 DEF DeleteObject
<1>13. ASSUME NEW p \in Pods, QueryAnswers(p) PROVE LoraTypeOK'
  BY <1>13 DEF QueryAnswers, First
<1>14. ASSUME NEW p \in Pods, QueryFails(p) PROVE LoraTypeOK'
  BY <1>14 DEF QueryFails, First, Faulty
<1>15. ASSUME NEW p \in Pods, loadAdapter(p) PROVE LoraTypeOK'
  BY <1>15 DEF loadAdapter, First
<1>16. ASSUME NEW p \in Pods, LoadFails(p) PROVE LoraTypeOK'
  BY <1>16 DEF LoadFails, First, EndPass, Faulty
<1>17. ASSUME NEW p \in Pods, unloadAdapter(p) PROVE LoraTypeOK'
  BY <1>17 DEF unloadAdapter, Unloads, First
<1>18. ASSUME NEW p \in Pods, UnloadFails(p) PROVE LoraTypeOK'
  BY <1>18 DEF UnloadFails, Unloads, First, EndPass, Faulty
<1>19. ASSUME NEW n \in 0..MaxReplicas, EditSpec(n) PROVE LoraTypeOK'
  BY <1>19 DEF EditSpec
<1>20. ASSUME NEW p \in Pods, NEW to \in {"absent", "unready", "ready"}, PodChanges(p, to) PROVE LoraTypeOK'
  BY <1>20, SMT DEF PodChanges
<1>21. ASSUME NEW p \in Pods, CallHangs(p) PROVE LoraTypeOK'
  BY <1>21 DEF CallHangs, First, Unloads
<1>22. CASE UNCHANGED loraVars
  BY <1>22 DEF loraVars
<1>23. QED
  BY <1>1, <1>2, <1>3, <1>4, <1>5, <1>6, <1>7, <1>8, <1>9, <1>10, <1>11,
     <1>12, <1>13, <1>14, <1>15, <1>16, <1>17, <1>18, <1>19, <1>20, <1>21, <1>22 DEF LoraNext, ReconcileStep,
     PodStep

\* Every step keeps the finalizer in place where it is needed.
LEMMA GuardedStep ==
  ASSUME LoraInv, [LoraNext]_loraVars
  PROVE  Guarded' /\ HeldByFinalizer'
<1> USE LoraAssumption DEF LoraInv, podVars, objectVars, localVars, Ready, NoPod, LoraTypeOK, Guarded,
     Pending, HeldByFinalizer
<1>1. CASE Reconcile
  BY <1>1 DEF Reconcile
<1>2. CASE AddFinalizer
  BY <1>2 DEF AddFinalizer, EndPass
<1>3. CASE ListPods
  BY <1>3 DEF ListPods
<1>4. CASE updateStatusWithRegistrations
  BY <1>4 DEF updateStatusWithRegistrations
<1>5. CASE getOptimalPlacement
  BY <1>5 DEF getOptimalPlacement, Placement, updateStatusWithWaitingState
<1>6. CASE triggerPodEvent
  BY <1>6 DEF triggerPodEvent
<1>7. CASE TriggerFails
  BY <1>7 DEF TriggerFails, EndPass
<1>8. CASE StartUnloading
  BY <1>8 DEF StartUnloading
<1>9. CASE Reconciled
  BY <1>9 DEF Reconciled
<1>10. CASE RemoveFinalizer
  BY <1>10 DEF RemoveFinalizer, EndPass
<1>11. CASE PassFails
  BY <1>11 DEF PassFails, EndPass, Faulty
<1>12. CASE DeleteObject
  BY <1>12 DEF DeleteObject
<1>13. ASSUME NEW p \in Pods, QueryAnswers(p) PROVE Guarded' /\ HeldByFinalizer'
  BY <1>13 DEF QueryAnswers, First
<1>14. ASSUME NEW p \in Pods, QueryFails(p) PROVE Guarded' /\ HeldByFinalizer'
  BY <1>14 DEF QueryFails, First, Faulty
<1>15. ASSUME NEW p \in Pods, loadAdapter(p) PROVE Guarded' /\ HeldByFinalizer'
  BY <1>15 DEF loadAdapter, First
<1>16. ASSUME NEW p \in Pods, LoadFails(p) PROVE Guarded' /\ HeldByFinalizer'
  BY <1>16 DEF LoadFails, First, EndPass, Faulty
<1>17. ASSUME NEW p \in Pods, unloadAdapter(p) PROVE Guarded' /\ HeldByFinalizer'
  BY <1>17 DEF unloadAdapter, Unloads, First
<1>18. ASSUME NEW p \in Pods, UnloadFails(p) PROVE Guarded' /\ HeldByFinalizer'
  BY <1>18 DEF UnloadFails, Unloads, First, EndPass, Faulty
<1>19. ASSUME NEW n \in 0..MaxReplicas, EditSpec(n) PROVE Guarded' /\ HeldByFinalizer'
  BY <1>19 DEF EditSpec
<1>20. ASSUME NEW p \in Pods, NEW to \in {"absent", "unready", "ready"}, PodChanges(p, to)
      PROVE Guarded' /\ HeldByFinalizer'
  BY <1>20 DEF PodChanges
<1>21. ASSUME NEW p \in Pods, CallHangs(p) PROVE Guarded' /\ HeldByFinalizer'
  BY <1>21 DEF CallHangs, First, Unloads
<1>22. CASE UNCHANGED loraVars
  BY <1>22 DEF loraVars
<1>23. QED
  BY <1>1, <1>2, <1>3, <1>4, <1>5, <1>6, <1>7, <1>8, <1>9, <1>10, <1>11,
     <1>12, <1>13, <1>14, <1>15, <1>16, <1>17, <1>18, <1>19, <1>20, <1>21, <1>22 DEF LoraNext, ReconcileStep,
     PodStep

\* Every step keeps account of the pods that still have the adapter.
LEMMA CoveredStep ==
  ASSUME LoraInv, [LoraNext]_loraVars
  PROVE  Pending' /\ Covered' /\ DeletedIsUnloaded'
<1> USE LoraAssumption DEF LoraInv, podVars, objectVars, localVars, Ready, NoPod, LoraTypeOK, Guarded,
     Pending, Covered, HeldByFinalizer, DeletedIsUnloaded
<1>1. CASE Reconcile
  BY <1>1 DEF Reconcile
<1>2. CASE AddFinalizer
  BY <1>2 DEF AddFinalizer, EndPass
<1>3. CASE ListPods
  BY <1>3 DEF ListPods
<1>4. CASE updateStatusWithRegistrations
  BY <1>4 DEF updateStatusWithRegistrations
<1>5. CASE getOptimalPlacement
  BY <1>5 DEF getOptimalPlacement, Placement, updateStatusWithWaitingState
<1>6. CASE triggerPodEvent
  BY <1>6 DEF triggerPodEvent
<1>7. CASE TriggerFails
  BY <1>7 DEF TriggerFails, EndPass
<1>8. CASE StartUnloading
  BY <1>8 DEF StartUnloading
<1>9. CASE Reconciled
  BY <1>9 DEF Reconciled
<1>10. CASE RemoveFinalizer
  BY <1>10 DEF RemoveFinalizer, EndPass
<1>11. CASE PassFails
  BY <1>11 DEF PassFails, EndPass, Faulty
<1>12. CASE DeleteObject
  BY <1>12 DEF DeleteObject
<1>13. ASSUME NEW p \in Pods, QueryAnswers(p) PROVE Pending' /\ Covered' /\ DeletedIsUnloaded'
  BY <1>13 DEF QueryAnswers, First
<1>14. ASSUME NEW p \in Pods, QueryFails(p) PROVE Pending' /\ Covered' /\ DeletedIsUnloaded'
  BY <1>14 DEF QueryFails, First, Faulty
<1>15. ASSUME NEW p \in Pods, loadAdapter(p) PROVE Pending' /\ Covered' /\ DeletedIsUnloaded'
  BY <1>15 DEF loadAdapter, First
<1>16. ASSUME NEW p \in Pods, LoadFails(p) PROVE Pending' /\ Covered' /\ DeletedIsUnloaded'
  BY <1>16 DEF LoadFails, First, EndPass, Faulty
<1>17. ASSUME NEW p \in Pods, unloadAdapter(p) PROVE Pending' /\ Covered' /\ DeletedIsUnloaded'
  BY <1>17 DEF unloadAdapter, Unloads, First
<1>18. ASSUME NEW p \in Pods, UnloadFails(p) PROVE Pending' /\ Covered' /\ DeletedIsUnloaded'
  BY <1>18 DEF UnloadFails, Unloads, First, EndPass, Faulty
<1>19. ASSUME NEW n \in 0..MaxReplicas, EditSpec(n) PROVE Pending' /\ Covered' /\ DeletedIsUnloaded'
  BY <1>19 DEF EditSpec
<1>20. ASSUME NEW p \in Pods, NEW to \in {"absent", "unready", "ready"}, PodChanges(p, to)
      PROVE Pending' /\ Covered' /\ DeletedIsUnloaded'
  BY <1>20 DEF PodChanges
<1>21. ASSUME NEW p \in Pods, CallHangs(p) PROVE Pending' /\ Covered' /\ DeletedIsUnloaded'
  BY <1>21 DEF CallHangs, First, Unloads
<1>22. CASE UNCHANGED loraVars
  BY <1>22 DEF loraVars
<1>23. QED
  BY <1>1, <1>2, <1>3, <1>4, <1>5, <1>6, <1>7, <1>8, <1>9, <1>10, <1>11,
     <1>12, <1>13, <1>14, <1>15, <1>16, <1>17, <1>18, <1>19, <1>20, <1>21, <1>22 DEF LoraNext, ReconcileStep,
     PodStep

\* Every step keeps the router up to date, or notes the event it owes.
LEMMA ToldStep ==
  ASSUME LoraInv, [LoraNext]_loraVars
  PROVE  RouterTold'
<1> USE LoraAssumption DEF LoraInv, podVars, objectVars, localVars, Ready, NoPod, LoraTypeOK, Pending,
     RouterTold
<1>1. CASE Reconcile
  BY <1>1 DEF Reconcile
<1>2. CASE AddFinalizer
  BY <1>2 DEF AddFinalizer, EndPass
<1>3. CASE ListPods
  BY <1>3 DEF ListPods
<1>4. CASE updateStatusWithRegistrations
  BY <1>4 DEF updateStatusWithRegistrations
<1>5. CASE getOptimalPlacement
  BY <1>5 DEF getOptimalPlacement, Placement, updateStatusWithWaitingState
<1>6. CASE triggerPodEvent
  BY <1>6 DEF triggerPodEvent
<1>7. CASE TriggerFails
  BY <1>7 DEF TriggerFails, EndPass
<1>8. CASE StartUnloading
  BY <1>8 DEF StartUnloading
<1>9. CASE Reconciled
  BY <1>9 DEF Reconciled
<1>10. CASE RemoveFinalizer
  BY <1>10 DEF RemoveFinalizer, EndPass
<1>11. CASE PassFails
  BY <1>11 DEF PassFails, EndPass, Faulty
<1>12. CASE DeleteObject
  BY <1>12 DEF DeleteObject
<1>13. ASSUME NEW p \in Pods, QueryAnswers(p) PROVE RouterTold'
  BY <1>13 DEF QueryAnswers, First
<1>14. ASSUME NEW p \in Pods, QueryFails(p) PROVE RouterTold'
  BY <1>14 DEF QueryFails, First, Faulty
<1>15. ASSUME NEW p \in Pods, loadAdapter(p) PROVE RouterTold'
  BY <1>15, SMT DEF loadAdapter, First
<1>16. ASSUME NEW p \in Pods, LoadFails(p) PROVE RouterTold'
  BY <1>16 DEF LoadFails, First, EndPass, Faulty
<1>17. ASSUME NEW p \in Pods, unloadAdapter(p) PROVE RouterTold'
  BY <1>17, SMT DEF unloadAdapter, Unloads, First
<1>18. ASSUME NEW p \in Pods, UnloadFails(p) PROVE RouterTold'
  BY <1>18 DEF UnloadFails, Unloads, First, EndPass, Faulty
<1>19. ASSUME NEW n \in 0..MaxReplicas, EditSpec(n) PROVE RouterTold'
  BY <1>19 DEF EditSpec
<1>20. ASSUME NEW p \in Pods, NEW to \in {"absent", "unready", "ready"}, PodChanges(p, to) PROVE RouterTold'
  BY <1>20 DEF PodChanges
<1>21. ASSUME NEW p \in Pods, CallHangs(p) PROVE RouterTold'
  BY <1>21, SMT DEF CallHangs, First, Unloads
<1>22. CASE UNCHANGED loraVars
  BY <1>22 DEF loraVars
<1>23. QED
  BY <1>1, <1>2, <1>3, <1>4, <1>5, <1>6, <1>7, <1>8, <1>9, <1>10, <1>11,
     <1>12, <1>13, <1>14, <1>15, <1>16, <1>17, <1>18, <1>19, <1>20, <1>21, <1>22 DEF LoraNext, ReconcileStep,
     PodStep

\* In the initial states nothing is loaded, nobody was told and no pass is under way.
LEMMA LoraInitially == LoraInit => LoraInv
<1> SUFFICES ASSUME LoraInit PROVE LoraInv
  OBVIOUS
<1>1. podState \in [Pods -> {"absent", "unready", "ready"}]
  BY DEF LoraInit
<1>2. LoraTypeOK
  <2>1. replicas \in 0..MaxReplicas /\ seen \in 0..MaxReplicas
    BY LoraAssumption, SMT DEF LoraInit
  <2>2. path \in {"set", "remote", "none"} /\ finalizer \in BOOLEAN /\ current \in BOOLEAN
    BY DEF LoraInit
  <2>3. /\ loaded = {} /\ told = {} /\ owed = {} /\ skipped = {} /\ status = {}
        /\ toQuery = {} /\ registrations = {} /\ desired = {} /\ todo = {} /\ target = NoPod
        /\ object = "live" /\ worker = "idle" /\ pass = "before"
    BY DEF LoraInit
  <2>4. QED
    BY <1>1, <2>1, <2>2, <2>3 DEF LoraTypeOK
<1>3. Guarded /\ Pending /\ Covered
  BY DEF LoraInit, Guarded, Pending, Covered
<1>4. HeldByFinalizer /\ DeletedIsUnloaded /\ RouterTold
  BY DEF LoraInit, HeldByFinalizer, DeletedIsUnloaded, RouterTold
<1>5. QED
  BY <1>2, <1>3, <1>4 DEF LoraInv

\* The inductive invariant holds in every behaviour of the controller.
LEMMA LoraInvariant == LoraSpec => []LoraInv
<1>1. LoraInv /\ [LoraNext]_loraVars => LoraInv'
  BY TypeStep, GuardedStep, CoveredStep, ToldStep DEF LoraInv
<1>2. QED
  BY LoraInitially, <1>1, PTL DEF LoraSpec

\* Whatever the order of edits, deletion, failing calls, restarts of the operator and
\* changes of pods, the object of an adapter that is loaded somewhere keeps its
\* finalizer (Reconcile, handleDeletion).
THEOREM FinalizerHolds == LoraSpec => []HeldByFinalizer
<1>1. LoraInv => HeldByFinalizer
  BY DEF LoraInv
<1>2. QED
  BY LoraInvariant, <1>1, PTL

\* An adapter that handleDeletion let go is left only on pods that its last listing
\* passed over, for any number of pods.
THEOREM DeletionUnloads == LoraSpec => []DeletedIsUnloaded
<1>1. LoraInv => DeletedIsUnloaded
  BY DEF LoraInv
<1>2. QED
  BY LoraInvariant, <1>1, PTL

\* The router has read every ready pod after the last change made to it, unless the
\* call for the event (triggerPodEvent) was not made or failed.
THEOREM RouterIsTold == LoraSpec => []RouterTold
<1>1. LoraInv => RouterTold
  BY DEF LoraInv
<1>2. QED
  BY LoraInvariant, <1>1, PTL

-----------------------------------------------------------------------------
(* The router's watcher of its configuration file *)

ConfigTypeOK ==
  /\ file \in Configs \cup {Unreadable}
  /\ args \in Configs /\ config \in Configs /\ current_config \in Configs
  /\ running \in BOOLEAN /\ failed \in BOOLEAN /\ raced \in BOOLEAN /\ router_open \in BOOLEAN

\* Startup that no reconfiguration overlaps builds what the command line says.
StartupAlone ==
  (main \in {"starting", "attaching"} /\ ~raced) =>
    /\ watcher = "asleep" /\ running
    /\ current_config = args
    /\ discovery.value = args.discovery /\ callbacks = args.callbacks
    /\ registry = IF main = "starting" THEN {} ELSE {args.router}

\* What a reconfiguration has installed so far is what its configuration says.
AppliedSoFar ==
  (main = "serving" /\ ~raced /\ watcher = "calling") => router = config.router /\ router_open

\* The same where it overlaps startup: the router is the new one or, if startup comes
\* last, that of the command line.  The callbacks change with current_config only.
Built ==
  /\ watcher \in {"cleaning", "building", "calling"} => discovery.value = config.discovery
  /\ watcher = "building" => registry \subseteq {args.router}
  /\ watcher = "calling" => /\ registry \subseteq {config.router, args.router}
                            /\ main = "serving" => router \in {config.router, args.router}
  /\ watcher = "asleep" /\ ~failed =>
       /\ discovery.value = current_config.discovery
       /\ registry \subseteq {current_config.router, args.router}
       /\ main = "serving" => router \in {current_config.router, args.router}
  /\ main = "serving" /\ ~raced => callbacks = current_config.callbacks

\* A reconfiguration that went through is in effect, all of it.
Entire ==
  (main = "serving" /\ watcher = "asleep" /\ ~failed /\ ~raced) => Live = current_config /\ router_open

\* The instances of service discovery whose threads run: the one requests are routed
\* by, the one that is to replace it, and those that were forgotten.
Up == {"starting", "attaching", "serving"}

Instances ==
  main \in Up =>
    /\ IsFiniteSet(orphans) /\ Cardinality(orphans) <= faults /\ faults \in 0 .. MaxFaults
    /\ orphans \subseteq open /\ discovery.id \notin orphans
    /\ watcher \in {"closing", "installing"} =>
         fresh \in open \ orphans /\ fresh # discovery.id
    /\ open \subseteq orphans \cup
         (CASE watcher = "closing" -> {discovery.id, fresh}
            [] watcher = "installing" -> {fresh}
            [] OTHER -> {discovery.id})
    /\ watcher \in {"cleaning", "building", "calling"} \/ (watcher = "asleep" /\ ~failed) =>
         discovery.id \in open

ConfigInv ==
  /\ ConfigTypeOK /\ StartupAlone /\ AppliedSoFar /\ Built /\ Entire /\ Instances

LEMMA ConfigTypeStep ==
  ASSUME ConfigTypeOK, [ConfigNext]_configVars
  PROVE  ConfigTypeOK'
<1> USE DEF ConfigTypeOK, fileVars, mainVars, installedVars, discoveryVars, routerVars, threadVars, Raise, Sleep
<1>1. CASE EditFile
  BY <1>1 DEF EditFile
<1>2. CASE Tick
  BY <1>2 DEF Tick
<1>3. CASE StopWatcher
  BY <1>3 DEF StopWatcher
<1>4. CASE CreateDiscovery
  BY <1>4 DEF CreateDiscovery
<1>5. CASE CloseOld
  BY <1>5 DEF CloseOld
<1>6. CASE CloseRaises
  BY <1>6 DEF CloseRaises
<1>7. CASE InstallDiscovery
  BY <1>7 DEF InstallDiscovery
<1>8. CASE CleanRouters
  BY <1>8 DEF CleanRouters, cleanup_routing_logic
<1>9. CASE BuildRouter
  BY <1>9 DEF BuildRouter
<1>10. CASE reconfigure_callbacks
  BY <1>10 DEF reconfigure_callbacks
<1>11. CASE initialize_routing_logic
  BY <1>11 DEF initialize_routing_logic
<1>12. CASE get_routing_logic
  BY <1>12 DEF get_routing_logic
<1>13. CASE CloseDiscovery
  BY <1>13 DEF CloseDiscovery
<1>14. CASE CloseWatcher
  BY <1>14 DEF CloseWatcher
<1>15. CASE CloseRouters
  BY <1>15 DEF CloseRouters, cleanup_routing_logic
<1>16. ASSUME NEW r \in Routers, MonitorFails(r) PROVE ConfigTypeOK'
  BY <1>16 DEF MonitorFails
<1>17. CASE UNCHANGED configVars
  BY <1>17 DEF configVars
<1> QED
  BY <1>1, <1>2, <1>3, <1>4, <1>5, <1>6, <1>7, <1>8, <1>9, <1>10, <1>11, <1>12, <1>13, <1>14, <1>15, <1>16,
     <1>17 DEF ConfigNext, WatcherStep, MainStep

LEMMA StartupStep ==
  ASSUME ConfigInv, [ConfigNext]_configVars
  PROVE  StartupAlone'
<1>0. ConfigTypeOK /\ StartupAlone
  BY DEF ConfigInv
<1> USE DEF StartupAlone, fileVars, mainVars, installedVars, discoveryVars, routerVars, threadVars, Raise, Sleep
<1>1. CASE EditFile
  BY <1>0, <1>1 DEF EditFile
<1>2. CASE Tick
  BY <1>0, <1>2 DEF Tick
<1>3. CASE StopWatcher
  BY <1>0, <1>3 DEF StopWatcher
<1>4. CASE CreateDiscovery
  BY <1>0, <1>4 DEF CreateDiscovery
<1>5. CASE CloseOld
  BY <1>0, <1>5 DEF CloseOld
<1>6. CASE CloseRaises
  BY <1>0, <1>6 DEF CloseRaises
<1>7. CASE InstallDiscovery
  BY <1>0, <1>7 DEF InstallDiscovery
<1>8. CASE CleanRouters
  BY <1>0, <1>8 DEF CleanRouters, cleanup_routing_logic
<1>9. CASE BuildRouter
  BY <1>0, <1>9 DEF BuildRouter
<1>10. CASE reconfigure_callbacks
  BY <1>0, <1>10 DEF reconfigure_callbacks
<1>11. CASE initialize_routing_logic
  BY <1>0, <1>11 DEF initialize_routing_logic
<1>12. CASE get_routing_logic
  BY <1>0, <1>12 DEF get_routing_logic
<1>13. CASE CloseDiscovery
  BY <1>0, <1>13 DEF CloseDiscovery
<1>14. CASE CloseWatcher
  BY <1>0, <1>14 DEF CloseWatcher
<1>15. CASE CloseRouters
  BY <1>0, <1>15 DEF CloseRouters, cleanup_routing_logic
<1>16. ASSUME NEW r \in Routers, MonitorFails(r) PROVE StartupAlone'
  BY <1>0, <1>16 DEF MonitorFails
<1>17. CASE UNCHANGED configVars
  BY <1>0, <1>17 DEF configVars
<1> QED
  BY <1>1, <1>2, <1>3, <1>4, <1>5, <1>6, <1>7, <1>8, <1>9, <1>10, <1>11, <1>12, <1>13, <1>14, <1>15, <1>16,
     <1>17 DEF ConfigNext, WatcherStep, MainStep

LEMMA ApplyingStep ==
  ASSUME ConfigInv, [ConfigNext]_configVars
  PROVE  AppliedSoFar'
<1>0. ConfigTypeOK /\ StartupAlone /\ AppliedSoFar
  BY DEF ConfigInv
<1> USE DEF AppliedSoFar, fileVars, mainVars, installedVars, discoveryVars, routerVars, threadVars, Raise, Sleep
<1>1. CASE EditFile
  BY <1>0, <1>1 DEF EditFile
<1>2. CASE Tick
  BY <1>0, <1>2 DEF Tick
<1>3. CASE StopWatcher
  BY <1>0, <1>3 DEF StopWatcher
<1>4. CASE CreateDiscovery
  BY <1>0, <1>4 DEF CreateDiscovery
<1>5. CASE CloseOld
  BY <1>0, <1>5 DEF CloseOld
<1>6. CASE CloseRaises
  BY <1>0, <1>6 DEF CloseRaises
<1>7. CASE InstallDiscovery
  BY <1>0, <1>7 DEF InstallDiscovery
<1>8. CASE CleanRouters
  BY <1>0, <1>8 DEF CleanRouters, cleanup_routing_logic
<1>9. CASE BuildRouter
  BY <1>0, <1>9 DEF BuildRouter
<1>10. CASE reconfigure_callbacks
  BY <1>0, <1>10 DEF reconfigure_callbacks
<1>11. CASE initialize_routing_logic
  BY <1>0, <1>11 DEF initialize_routing_logic
<1>12. CASE get_routing_logic
  BY <1>0, <1>12 DEF get_routing_logic, StartupAlone
<1>13. CASE CloseDiscovery
  BY <1>0, <1>13 DEF CloseDiscovery
<1>14. CASE CloseWatcher
  BY <1>0, <1>14 DEF CloseWatcher
<1>15. CASE CloseRouters
  BY <1>0, <1>15 DEF CloseRouters, cleanup_routing_logic
<1>16. ASSUME NEW r \in Routers, MonitorFails(r) PROVE AppliedSoFar'
  BY <1>0, <1>16 DEF MonitorFails
<1>17. CASE UNCHANGED configVars
  BY <1>0, <1>17 DEF configVars
<1> QED
  BY <1>1, <1>2, <1>3, <1>4, <1>5, <1>6, <1>7, <1>8, <1>9, <1>10, <1>11, <1>12, <1>13, <1>14, <1>15, <1>16,
     <1>17 DEF ConfigNext, WatcherStep, MainStep

LEMMA BuiltStep ==
  ASSUME ConfigInv, [ConfigNext]_configVars
  PROVE  Built'
<1>0. ConfigTypeOK /\ StartupAlone /\ Built
  BY DEF ConfigInv
<1> USE DEF Built, fileVars, mainVars, installedVars, discoveryVars, routerVars, threadVars, Raise, Sleep
<1>1. CASE EditFile
  BY <1>0, <1>1 DEF EditFile
<1>2. CASE Tick
  BY <1>0, <1>2 DEF Tick
<1>3. CASE StopWatcher
  BY <1>0, <1>3 DEF StopWatcher
<1>4. CASE CreateDiscovery
  BY <1>0, <1>4 DEF CreateDiscovery
<1>5. CASE CloseOld
  BY <1>0, <1>5 DEF CloseOld
<1>6. CASE CloseRaises
  BY <1>0, <1>6 DEF CloseRaises
<1>7. CASE InstallDiscovery
  BY <1>0, <1>7 DEF InstallDiscovery
<1>8. CASE CleanRouters
  BY <1>0, <1>8 DEF CleanRouters, cleanup_routing_logic
<1>9. CASE BuildRouter
  BY <1>0, <1>9 DEF BuildRouter
<1>10. CASE reconfigure_callbacks
  BY <1>0, <1>10 DEF reconfigure_callbacks
<1>11. CASE initialize_routing_logic
  BY <1>0, <1>11 DEF initialize_routing_logic
<1>12. CASE get_routing_logic
  BY <1>0, <1>12 DEF get_routing_logic, StartupAlone
<1>13. CASE CloseDiscovery
  BY <1>0, <1>13 DEF CloseDiscovery
<1>14. CASE CloseWatcher
  BY <1>0, <1>14 DEF CloseWatcher
<1>15. CASE CloseRouters
  BY <1>0, <1>15 DEF CloseRouters, cleanup_routing_logic
<1>16. ASSUME NEW r \in Routers, MonitorFails(r) PROVE Built'
  BY <1>0, <1>16 DEF MonitorFails
<1>17. CASE UNCHANGED configVars
  BY <1>0, <1>17 DEF configVars
<1> QED
  BY <1>1, <1>2, <1>3, <1>4, <1>5, <1>6, <1>7, <1>8, <1>9, <1>10, <1>11, <1>12, <1>13, <1>14, <1>15, <1>16,
     <1>17 DEF ConfigNext, WatcherStep, MainStep

LEMMA EntireStep ==
  ASSUME ConfigInv, [ConfigNext]_configVars
  PROVE  Entire'
<1>0. ConfigTypeOK /\ StartupAlone /\ AppliedSoFar /\ Built /\ Entire
  BY DEF ConfigInv
<1> USE DEF Entire, Live, fileVars, mainVars, installedVars, discoveryVars, routerVars, threadVars, Raise, Sleep
<1>1. CASE EditFile
  BY <1>0, <1>1 DEF EditFile
<1>2. CASE Tick
  BY <1>0, <1>2 DEF Tick
<1>3. CASE StopWatcher
  BY <1>0, <1>3 DEF StopWatcher
<1>4. CASE CreateDiscovery
  BY <1>0, <1>4 DEF CreateDiscovery
<1>5. CASE CloseOld
  BY <1>0, <1>5 DEF CloseOld
<1>6. CASE CloseRaises
  BY <1>0, <1>6 DEF CloseRaises
<1>7. CASE InstallDiscovery
  BY <1>0, <1>7 DEF InstallDiscovery
<1>8. CASE CleanRouters
  BY <1>0, <1>8 DEF CleanRouters, cleanup_routing_logic
<1>9. CASE BuildRouter
  BY <1>0, <1>9 DEF BuildRouter
<1>10. CASE reconfigure_callbacks
  <2> SUFFICES ASSUME main = "serving", ~failed', ~raced'
               PROVE  Live' = current_config' /\ router_open'
    BY <1>10 DEF reconfigure_callbacks
  <2>1. config.callbacks \notin Broken
    BY <1>10 DEF reconfigure_callbacks
  <2>2. /\ callbacks' = config.callbacks /\ current_config' = config
        /\ discovery' = discovery /\ router' = router
    BY <1>10, <2>1 DEF reconfigure_callbacks
  <2>3. discovery.value = config.discovery /\ router = config.router
    BY <1>0, <1>10 DEF reconfigure_callbacks, AppliedSoFar, Built
  <2>4. router_open'
    BY <1>0, <1>10 DEF reconfigure_callbacks, AppliedSoFar
  <2>5. config = [discovery |-> config.discovery, router |-> config.router,
                  callbacks |-> config.callbacks]
    BY <1>0 DEF ConfigTypeOK, Configs
  <2> QED
    BY <2>2, <2>3, <2>4, <2>5
<1>11. CASE initialize_routing_logic
  BY <1>0, <1>11 DEF initialize_routing_logic
<1>12. CASE get_routing_logic
  <2> SUFFICES ASSUME main' = "serving", watcher' = "asleep", ~failed', ~raced'
               PROVE  Live' = current_config' /\ router_open'
    OBVIOUS
  <2>1. registry # {} /\ main = "attaching" /\ ~raced
    BY <1>12 DEF get_routing_logic
  <2>2. /\ current_config = args /\ discovery.value = args.discovery
        /\ callbacks = args.callbacks /\ registry = {args.router}
    BY <1>0, <2>1 DEF StartupAlone
  <2>3. router' = args.router
    BY <1>12, <2>1, <2>2 DEF get_routing_logic
  <2>4. router_open'
    BY <1>12, <2>1 DEF get_routing_logic
  <2>5. args = [discovery |-> args.discovery, router |-> args.router, callbacks |-> args.callbacks]
    BY <1>0 DEF ConfigTypeOK, Configs
  <2>6. UNCHANGED <<current_config, discovery, callbacks>>
    BY <1>12 DEF get_routing_logic
  <2> QED
    BY <2>2, <2>3, <2>4, <2>5, <2>6
<1>13. CASE CloseDiscovery
  BY <1>0, <1>13 DEF CloseDiscovery
<1>14. CASE CloseWatcher
  BY <1>0, <1>14 DEF CloseWatcher
<1>15. CASE CloseRouters
  BY <1>0, <1>15 DEF CloseRouters, cleanup_routing_logic
<1>16. ASSUME NEW r \in Routers, MonitorFails(r) PROVE Entire'
  BY <1>0, <1>16 DEF MonitorFails
<1>17. CASE UNCHANGED configVars
  BY <1>0, <1>17 DEF configVars
<1> QED
  BY <1>1, <1>2, <1>3, <1>4, <1>5, <1>6, <1>7, <1>8, <1>9, <1>10, <1>11, <1>12, <1>13, <1>14, <1>15, <1>16,
     <1>17 DEF ConfigNext, WatcherStep, MainStep

\* There is always an identity left for a new instance.
LEMMA FreshId ==
  ASSUME ConfigInv, main \in Up, watcher = "creating"
  PROVE  \E i \in Ids : i \notin open \cup {discovery.id}
<1>1. /\ IsFiniteSet(orphans) /\ Cardinality(orphans) <= MaxFaults /\ MaxFaults \in Nat
      /\ Cardinality(orphans) \in Nat
      /\ open \subseteq orphans \cup {discovery.id}
  <2>1. /\ IsFiniteSet(orphans) /\ Cardinality(orphans) <= faults /\ faults \in 0 .. MaxFaults
        /\ open \subseteq orphans \cup {discovery.id}
    BY DEF ConfigInv, Instances
  <2>2. Cardinality(orphans) \in Nat
    BY <2>1, FS_CardinalityType
  <2> QED
    BY <2>1, <2>2, ConfigAssumption, SMT
<1> DEFINE used == orphans \cup {discovery.id}
<1>2. IsFiniteSet(used) /\ Cardinality(used) <= MaxFaults + 1 /\ Cardinality(used) \in Nat
  <2>1. /\ IsFiniteSet(used)
        /\ Cardinality(used) = IF discovery.id \in orphans THEN Cardinality(orphans)
                                                           ELSE Cardinality(orphans) + 1
    BY <1>1, FS_AddElement
  <2> QED
    BY <1>1, <2>1, SMT
<1>3. IsFiniteSet(Ids) /\ Cardinality(Ids) = MaxFaults + 2
  BY <1>1, FS_Interval, SMT DEF Ids
<1>4. ~(Ids \subseteq used)
  BY <1>1, <1>2, <1>3, FS_Subset, SMT
<1> QED
  BY <1>1, <1>4

LEMMA InstancesStep ==
  ASSUME ConfigInv, [ConfigNext]_configVars
  PROVE  Instances'
<1>0. ConfigTypeOK /\ Instances
  BY DEF ConfigInv
<1> USE DEF Instances, Up, fileVars, mainVars, installedVars, discoveryVars, routerVars, threadVars, Raise, Sleep
<1>1. CASE EditFile
  BY <1>0, <1>1 DEF EditFile
<1>2. CASE Tick
  BY <1>0, <1>2 DEF Tick
<1>3. CASE StopWatcher
  BY <1>0, <1>3 DEF StopWatcher
<1>4. CASE CreateDiscovery
  <2>1. CASE config.discovery \in Broken
    BY <1>0, <1>4, <2>1 DEF CreateDiscovery
  <2>2. CASE config.discovery \notin Broken /\ main \in Up
    <3>1. fresh' \in Ids /\ fresh' \notin open \cup {discovery.id}
      BY <1>4, <2>2, FreshId DEF CreateDiscovery
    <3> QED
      BY <1>0, <1>4, <2>2, <3>1 DEF CreateDiscovery
  <2> QED
    BY <1>4, <2>1, <2>2 DEF CreateDiscovery
<1>5. CASE CloseOld
  BY <1>0, <1>5 DEF CloseOld
<1>6. CASE CloseRaises
  <2> SUFFICES ASSUME main \in Up PROVE Instances'
    BY <1>6 DEF CloseRaises
  <2>1. /\ IsFiniteSet(orphans) /\ Cardinality(orphans) <= faults /\ faults \in 0 .. MaxFaults
        /\ fresh \notin orphans /\ orphans' = orphans \cup {fresh}
        /\ faults < MaxFaults /\ faults' = faults + 1
    BY <1>0, <1>6 DEF CloseRaises
  <2>2. Cardinality(orphans) \in Nat
    BY <2>1, FS_CardinalityType
  <2>3. IsFiniteSet(orphans') /\ Cardinality(orphans') = Cardinality(orphans) + 1
    BY <2>1, FS_AddElement
  <2>4. Cardinality(orphans') <= faults' /\ faults' \in 0 .. MaxFaults
    BY <2>1, <2>2, <2>3, ConfigAssumption, SMT
  <2> QED
    BY <1>0, <1>6, <2>1, <2>3, <2>4 DEF CloseRaises
<1>7. CASE InstallDiscovery
  BY <1>0, <1>7 DEF InstallDiscovery
<1>8. CASE CleanRouters
  BY <1>0, <1>8 DEF CleanRouters, cleanup_routing_logic
<1>9. CASE BuildRouter
  BY <1>0, <1>9 DEF BuildRouter
<1>10. CASE reconfigure_callbacks
  BY <1>0, <1>10 DEF reconfigure_callbacks
<1>11. CASE initialize_routing_logic
  BY <1>0, <1>11 DEF initialize_routing_logic
<1>12. CASE get_routing_logic
  BY <1>0, <1>12 DEF get_routing_logic
<1>13. CASE CloseDiscovery
  BY <1>0, <1>13 DEF CloseDiscovery
<1>14. CASE CloseWatcher
  BY <1>0, <1>14 DEF CloseWatcher
<1>15. CASE CloseRouters
  BY <1>0, <1>15 DEF CloseRouters, cleanup_routing_logic
<1>16. ASSUME NEW r \in Routers, MonitorFails(r) PROVE Instances'
  BY <1>0, <1>16 DEF MonitorFails
<1>17. CASE UNCHANGED configVars
  BY <1>0, <1>17 DEF configVars
<1> QED
  BY <1>1, <1>2, <1>3, <1>4, <1>5, <1>6, <1>7, <1>8, <1>9, <1>10, <1>11, <1>12, <1>13, <1>14, <1>15, <1>16,
     <1>17 DEF ConfigNext, WatcherStep, MainStep

LEMMA ConfigInitially == ConfigInit => ConfigInv
<1> SUFFICES ASSUME ConfigInit PROVE ConfigInv
  OBVIOUS
<1>1. ConfigTypeOK
  BY DEF ConfigInit, ConfigTypeOK
<1>2. StartupAlone
  BY DEF ConfigInit, StartupAlone
<1>3. AppliedSoFar /\ Built /\ Entire
  BY DEF ConfigInit, AppliedSoFar, Built, Entire
<1>4. Instances
  BY FS_EmptySet, ConfigAssumption, SMT DEF ConfigInit, Instances
<1> QED
  BY <1>1, <1>2, <1>3, <1>4 DEF ConfigInv

LEMMA ConfigInvariant == ConfigSpec => []ConfigInv
<1>1. ConfigInv /\ [ConfigNext]_configVars => ConfigInv'
  BY ConfigTypeStep, StartupStep, ApplyingStep, BuiltStep, EntireStep, InstancesStep DEF ConfigInv
<1> QED
  BY <1>1, ConfigInitially, PTL DEF ConfigSpec

\* For any configurations and any interleaving of the watcher with startup, shutdown
\* and failing monitors: between reconfigurations the process runs the whole of
\* current_config; after one that raised (Raise in each step of reconfigure_all) still
\* its callbacks; after one that overlapped startup still its discovery, with its
\* router or that of the command line.
THEOREM ConfigApplied == ConfigSpec => []AppliedWhole
<1>1. ConfigInv => AppliedWhole
  BY DEF ConfigInv, Built, Entire, AppliedWhole
<1> QED
  BY <1>1, ConfigInvariant, PTL

\* However many discoveries fail to close, between reconfigurations the threads that
\* run are those of the installed discovery and of the forgotten ones, which are no
\* more than the calls of close() that raised.
THEOREM DiscoveryAlone == ConfigSpec => []OneDiscovery
<1>1. ConfigInv => OneDiscovery
  BY DEF ConfigInv, Instances, Up, OneDiscovery
<1> QED
  BY <1>1, ConfigInvariant, PTL

=============================================================================
