--------------------------- MODULE DynamicConfig ---------------------------
(***************************************************************************)
(* DynamicConfigWatcher (src/vllm_router/dynamic_config.py): the thread    *)
(* that polls the configuration file and swaps the service discovery, the  *)
(* router and the callbacks of the running process, one after the other;   *)
(* and the main thread that builds the same things at startup              *)
(* (initialize_all in app.py) and closes them at shutdown (lifespan).      *)
(***************************************************************************)
EXTENDS Naturals, FiniteSets

CONSTANTS
  Discoveries, Callbacks,   \* configuration values
  Routers,                  \* numbers: the order in which get_routing_logic looks
  MonitorRouters,           \* the routers with a task of their own (kv-aware, load-aware)
  Broken,                   \* values that raise when they are applied
  MaxEdits,                 \* bound: edits of the file
  MaxFaults,                \* bound: discoveries that fail to close
  Unreadable, NoRouter

ASSUME ConfigAssumption ==
  Routers \subseteq Nat /\ MonitorRouters \subseteq Routers /\ NoRouter \notin Nat /\ MaxFaults \in Nat

Configs == [discovery : Discoveries, router : Routers, callbacks : Callbacks]

Valid(c) == {c.discovery, c.router, c.callbacks} \cap Broken = {}

\* Instances of service discovery; an identity is used again once it is closed.
Ids == 0..(MaxFaults + 1)

VARIABLES
  file, edits,
  args,                     \* the command line, with the file's values as defaults
  watcher, config, running, \* the watcher thread, its local, its flag
  current_config,
  discovery,                \* _global_service_discovery: an instance and its value
  fresh,                    \* new_service_discovery, local to the reconfiguration
  open, faults,             \* instances whose threads run
  registry,                 \* SingletonABCMeta._instances: router classes with an instance
  failing,                  \* those whose monitor task has ended with an exception
  router, router_open,      \* app.state.router; not closed by cleanup_routing_logic
  callbacks,                \* app.state.callbacks
  main,
  failed,                   \* history: the last reconfigure_all raised
  raced,                    \* history: a reconfiguration began before startup was over
  orphans                   \* history: instances built and never installed

configVars == <<file, edits, args, watcher, config, running, current_config, discovery, fresh, open,
                faults, registry, failing, router, router_open, callbacks, main, failed, raced, orphans>>

mainVars == <<args, main, running>>
fileVars == <<file, edits>>
installedVars == <<discovery, open, faults, orphans>>
discoveryVars == <<installedVars, fresh>>
routerVars == <<registry, failing, router, router_open>>

\* initialize_all has built the discovery and starts the watcher.
ConfigInit ==
  /\ file \in Configs \cup {Unreadable} /\ edits = 0
  /\ args \in {c \in Configs : Valid(c)}
  /\ watcher = "asleep" /\ config = args /\ running = TRUE /\ current_config = args
  /\ discovery = [id |-> 0, value |-> args.discovery] /\ fresh = 0 /\ open = {0} /\ faults = 0
  /\ registry = {} /\ failing = {} /\ router = NoRouter /\ router_open = FALSE
  /\ callbacks = args.callbacks
  /\ main = "starting"
  /\ failed = FALSE /\ raced = FALSE /\ orphans = {}

EditFile ==
  /\ edits < MaxEdits
  /\ edits' = edits + 1
  /\ file' \in (Configs \cup {Unreadable}) \ {file}
  /\ UNCHANGED <<mainVars, watcher, config, current_config, discoveryVars, routerVars, callbacks,
                 failed, raced>>

-----------------------------------------------------------------------------
(* The watcher thread *)

\* A tick that finds a new configuration.  A file that cannot be read, has an
\* unknown key or has not changed leaves everything as it is.
Tick ==
  /\ watcher = "asleep" /\ running
  /\ file # Unreadable /\ file # current_config
  /\ config' = file
  /\ watcher' = "creating"
  /\ raced' = (raced \/ main # "serving")
  /\ UNCHANGED <<mainVars, fileVars, current_config, discoveryVars, routerVars, callbacks, failed>>

StopWatcher ==
  /\ watcher = "asleep" /\ ~running
  /\ watcher' = "stopped"
  /\ UNCHANGED <<mainVars, fileVars, config, current_config, discoveryVars, routerVars, callbacks,
                 failed, raced>>

\* The tick is over, and with it the locals of the reconfiguration.
Sleep == watcher' = "asleep" /\ config' = args /\ fresh' = 0

Raise_ends_thread == watcher' = "stopped" /\ failed' = TRUE /\ UNCHANGED <<config, fresh>>

\* The exception is logged and the watcher sleeps until the next tick.
Raise == Sleep /\ failed' = TRUE

CreateDiscovery ==
  /\ watcher = "creating"
  /\ IF config.discovery \in Broken
     THEN Raise /\ UNCHANGED open
     ELSE /\ watcher' = "closing"
          /\ fresh' = CHOOSE i \in Ids : i \notin open \cup {discovery.id}
          /\ open' = open \cup {fresh'}
          /\ UNCHANGED <<config, failed>>
  /\ UNCHANGED <<mainVars, fileVars, current_config, discovery, faults, orphans, routerVars,
                 callbacks, raced>>

CloseOld_not ==
  /\ watcher = "closing"
  /\ watcher' = "installing"
  /\ UNCHANGED <<mainVars, fileVars, config, current_config, discoveryVars, routerVars, callbacks,
                 failed, raced>>

CloseOld ==
  /\ watcher = "closing"
  /\ open' = open \ {discovery.id}
  /\ watcher' = "installing"
  /\ UNCHANGED <<mainVars, fileVars, config, current_config, discovery, fresh, faults, orphans,
                 routerVars, callbacks, failed, raced>>

\* StaticServiceDiscovery.close gives up on a loop still busy with a health
\* check and loop.close() raises: the new instance runs on and is forgotten.
CloseRaises ==
  /\ watcher = "closing"
  /\ faults < MaxFaults
  /\ faults' = faults + 1
  /\ open' = open \ {discovery.id}
  /\ orphans' = orphans \cup {fresh}
  /\ Raise
  /\ UNCHANGED <<mainVars, fileVars, current_config, discovery, routerVars, callbacks, raced>>

InstallDiscovery ==
  /\ watcher = "installing"
  /\ discovery' = [id |-> fresh, value |-> config.discovery]
  /\ watcher' = "cleaning"
  /\ UNCHANGED <<mainVars, fileVars, config, current_config, fresh, open, faults, orphans,
                 routerVars, callbacks, failed, raced>>

\* The classes in their order: close() of one whose task has failed raises that
\* exception, and neither it nor those after it are removed.
cleanup_routing_logic ==
  LET cleaned == {r \in registry : \A k \in failing : r < k} IN
  /\ registry' = registry \ cleaned
  /\ router_open' = (router_open /\ router \notin cleaned)

CleanRouters ==
  /\ watcher = "cleaning"
  /\ cleanup_routing_logic
  /\ IF failing = {} THEN watcher' = "building" /\ UNCHANGED <<config, fresh, failed>> ELSE Raise
  /\ UNCHANGED <<mainVars, fileVars, current_config, installedVars, failing, router, callbacks, raced>>

BuildRouter_unattached ==
  /\ watcher = "building"
  /\ IF config.router \in Broken
     THEN Raise /\ UNCHANGED registry
     ELSE /\ registry' = registry \cup {config.router}
          /\ watcher' = "calling"
          /\ UNCHANGED <<config, fresh, failed>>
  /\ UNCHANGED <<mainVars, fileVars, current_config, installedVars, failing, router, router_open,
                 callbacks, raced>>

BuildRouter ==
  /\ watcher = "building"
  /\ IF config.router \in Broken
     THEN Raise /\ UNCHANGED <<registry, router, router_open>>
     ELSE /\ registry' = registry \cup {config.router}
          /\ router' = config.router /\ router_open' = TRUE
          /\ watcher' = "calling"
          /\ UNCHANGED <<config, fresh, failed>>
  /\ UNCHANGED <<mainVars, fileVars, current_config, installedVars, failing, callbacks, raced>>

\* The last thing to reconfigure; only then is the configuration current.
reconfigure_callbacks ==
  /\ watcher = "calling"
  /\ IF config.callbacks \in Broken
     THEN Raise /\ UNCHANGED <<callbacks, current_config>>
     ELSE /\ callbacks' = config.callbacks
          /\ current_config' = config
          /\ Sleep /\ failed' = FALSE
  /\ UNCHANGED <<mainVars, fileVars, installedVars, routerVars, raced>>

-----------------------------------------------------------------------------
(* The main thread *)

threadVars == <<fileVars, args, watcher, config, current_config, failed, raced>>

\* initialize_all: callbacks, then the router named on the command line.  A
\* class that already has an instance keeps it.
initialize_routing_logic ==
  /\ main = "starting"
  /\ callbacks' = args.callbacks
  /\ registry' = registry \cup {args.router}
  /\ main' = "attaching"
  /\ UNCHANGED <<threadVars, running, discoveryVars, failing, router, router_open>>

get_routing_logic ==
  /\ main = "attaching"
  /\ IF registry = {}
     THEN main' = "crashed" /\ UNCHANGED <<router, router_open>>
     ELSE /\ router' \in {r \in registry : \A q \in registry : r <= q}
          /\ router_open' = TRUE
          /\ main' = "serving"
  /\ UNCHANGED <<threadVars, running, discoveryVars, registry, failing, callbacks>>

\* lifespan after the last request: close the discovery, then the watcher.
CloseDiscovery ==
  /\ main = "serving"
  /\ open' = open \ {discovery.id}
  /\ main' = "closing"
  /\ UNCHANGED <<threadVars, running, discovery, fresh, faults, orphans, routerVars, callbacks>>

CloseWatcher ==
  /\ main = "closing"
  /\ running' = FALSE
  /\ main' = "joining"
  /\ UNCHANGED <<threadVars, discoveryVars, routerVars, callbacks>>

CloseRouters ==
  /\ main = "joining" /\ watcher = "stopped"
  /\ cleanup_routing_logic
  /\ main' = IF failing = {} THEN "closed" ELSE "crashed"
  /\ UNCHANGED <<threadVars, running, discoveryVars, failing, router, callbacks>>

\* kv_manager.start_all() of an instance in the registry raises, in its own thread.
MonitorFails(r) ==
  /\ r \in (registry \cap MonitorRouters) \ failing
  /\ failing' = failing \cup {r}
  /\ UNCHANGED <<threadVars, main, running, discoveryVars, registry, router, router_open, callbacks>>

-----------------------------------------------------------------------------

WatcherStep ==
  \/ Tick \/ StopWatcher \/ CreateDiscovery \/ CloseOld \/ InstallDiscovery \/ CleanRouters
  \/ BuildRouter \/ reconfigure_callbacks

MainStep == initialize_routing_logic \/ get_routing_logic \/ CloseWatcher \/ CloseRouters

ConfigNext ==
  \/ EditFile \/ WatcherStep \/ CloseRaises \/ MainStep \/ CloseDiscovery
  \/ \E r \in Routers : MonitorFails(r)

\* Both threads are scheduled; nothing says that the process is ever stopped.
ConfigFairness == WF_configVars(WatcherStep) /\ WF_configVars(MainStep)

ConfigSpec == ConfigInit /\ [][ConfigNext]_configVars /\ ConfigFairness

-----------------------------------------------------------------------------
(* Properties *)

\* The configuration that is in effect.
Live == [discovery |-> discovery.value, router |-> router, callbacks |-> callbacks]

\* Between reconfigurations the process runs current_config, all of it, with a
\* router that has not been closed, if the last reconfiguration went through and
\* none overlapped startup.  One that raised half-way has not touched the callbacks;
\* one that overlapped startup, when it or a later one went through, has at least
\* its discovery in effect, and the router is its own or that of the command line.
AppliedWhole ==
  (main = "serving" /\ watcher = "asleep") =>
    /\ ~raced => callbacks = current_config.callbacks
    /\ ~failed => /\ discovery.value = current_config.discovery
                  /\ router \in {current_config.router, args.router}
    /\ ~failed /\ ~raced => Live = current_config /\ router_open

\* Between reconfigurations the only discovery with running threads is the one
\* requests are routed by, apart from those forgotten when their predecessor
\* could not be closed: one for each time closing raised, and no more.
OneDiscovery ==
  (main = "serving" /\ watcher = "asleep") =>
    /\ open \ orphans \subseteq {discovery.id} /\ (~failed => discovery.id \in open)
    /\ Cardinality(orphans) <= faults

\* A valid configuration that differs from the current one takes effect, if it
\* stays in the file and the process keeps serving (and no reconfiguration
\* overlapped startup): unless a router's monitor has failed, since then no router
\* can be replaced any more.
ValidEditApplied ==
  \A c \in {d \in Configs : Valid(d)} :
    (main = "serving" /\ ~raced /\ file = c /\ current_config # c) ~>
      (Live = c \/ file # c \/ main # "serving" \/ failing # {})

\* "If the config file has changed, it will reconfigure the system with the new
\* config": what the file says in the end is what runs.  Startup is left to one
\* side: only processes that were serving before the first tick are considered.
FileTakesEffect ==
  \A c \in {d \in Configs : Valid(d)} :
    <>[](file = c /\ main = "serving" /\ ~raced) => <>[](Live = c)

=============================================================================
