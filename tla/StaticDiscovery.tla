--------------------------- MODULE StaticDiscovery ---------------------------
(***************************************************************************)
(* StaticServiceDiscovery (src/vllm_router/service_discovery.py) with its  *)
(* health checks: a thread with an event loop of its own, on which one     *)
(* coroutine checks the backends one after the other with blocking         *)
(* requests and then replaces the list of unhealthy ones.                  *)
(*                                                                         *)
(* The coroutine is between rounds (while self._running), checking,        *)
(* sleeping (the only place where its loop can run anything else) or over; *)
(* the thread runs until its loop is stopped.                              *)
(***************************************************************************)
EXTENDS Integers, FiniteSets

CONSTANTS Backends,
          Typed,        \* those that were given a model type; only they are checked
          MaxFlips      \* bound: changes of health

VARIABLES healthy, flips,       \* the backends
          task,                 \* the coroutine
          unchecked, failed,    \* its locals: backends left to check, found unhealthy
          unhealthy,            \* unhealthy_endpoint_hashes
          checks_running,       \* self._running
          shutdown,             \* the shutdown coroutine: none, scheduled or done
          steadyNow, steady     \* history: backends unchanged since the start of this
                                \* round, of the last round that was completed

staticVars == <<healthy, flips, task, unchecked, failed, unhealthy, checks_running, shutdown,
                steadyNow, steady>>

StaticInit ==
  /\ healthy \in SUBSET Backends /\ flips = 0
  /\ task = "between" /\ unchecked = {} /\ failed = {}
  /\ unhealthy = {}
  /\ checks_running = TRUE /\ shutdown = "none"
  /\ steadyNow = {} /\ steady = {}

\* A backend fails or recovers, external.
Flip(b) ==
  /\ flips < MaxFlips
  /\ flips' = flips + 1
  /\ healthy' = IF b \in healthy THEN healthy \ {b} ELSE healthy \cup {b}
  /\ steadyNow' = steadyNow \ {b} /\ steady' = steady \ {b}
  /\ UNCHANGED <<task, unchecked, failed, unhealthy, checks_running, shutdown>>

\* while self._running
StartRound ==
  /\ task = "between"
  /\ task' = IF checks_running THEN "checking" ELSE "over"
  /\ unchecked' = IF checks_running THEN Typed ELSE {}
  /\ failed' = {}
  /\ steadyNow' = IF checks_running THEN Backends ELSE {}
  /\ UNCHANGED <<healthy, flips, unhealthy, checks_running, shutdown, steady>>

\* is_model_healthy, up to its timeout.
CheckOne(b) ==
  /\ task = "checking" /\ b \in unchecked
  /\ unchecked' = unchecked \ {b}
  /\ failed' = IF b \in healthy THEN failed ELSE failed \cup {b}
  /\ UNCHANGED <<healthy, flips, task, unhealthy, checks_running, shutdown, steadyNow, steady>>

EndRound_accumulates ==
  /\ task = "checking" /\ unchecked = {}
  /\ unhealthy' = unhealthy \cup failed
  /\ task' = "sleeping" /\ failed' = {}
  /\ steady' = steadyNow /\ steadyNow' = {}
  /\ UNCHANGED <<healthy, flips, unchecked, checks_running, shutdown>>

\* The list is replaced as a whole.
EndRound ==
  /\ task = "checking" /\ unchecked = {}
  /\ unhealthy' = failed
  /\ task' = "sleeping" /\ failed' = {}
  /\ steady' = steadyNow /\ steadyNow' = {}
  /\ UNCHANGED <<healthy, flips, unchecked, checks_running, shutdown>>

\* A check raises what is_model_healthy does not catch: the round counts for
\* nothing, and the next one begins without a pause.
RoundRaises ==
  /\ task = "checking" /\ unchecked # {}
  /\ task' = "between" /\ unchecked' = {} /\ failed' = {} /\ steadyNow' = {}
  /\ UNCHANGED <<healthy, flips, unhealthy, checks_running, shutdown, steady>>

\* The interval is over.
WakeUp ==
  /\ task = "sleeping"
  /\ task' = "between"
  /\ UNCHANGED <<healthy, flips, unchecked, failed, unhealthy, checks_running, shutdown, steadyNow,
                 steady>>

\* shutdown() of close(): cancels the coroutine where it sleeps, and stops the
\* loop, hence the thread.
RunShutdown ==
  /\ shutdown = "scheduled" /\ task \in {"sleeping", "over"}
  /\ shutdown' = "done" /\ task' = "over"
  /\ UNCHANGED <<healthy, flips, unchecked, failed, unhealthy, checks_running, steadyNow, steady>>

StartClose ==
  /\ checks_running
  /\ checks_running' = FALSE /\ shutdown' = "scheduled"
  /\ UNCHANGED <<healthy, flips, task, unchecked, failed, unhealthy, steadyNow, steady>>

HealthThreadStep ==
  StartRound \/ (\E b \in Backends : CheckOne(b)) \/ EndRound \/ WakeUp \/ RunShutdown

StaticStep == (\E b \in Backends : Flip(b)) \/ RoundRaises \/ HealthThreadStep

get_endpoint_info == Backends \ unhealthy

-----------------------------------------------------------------------------
(* Properties *)

\* A checked backend whose health has not changed since the start of the last
\* completed round is offered to requests if and only if it is healthy, also
\* while the next round is under way; one that is never checked always is.
OfferedAsChecked ==
  /\ \A b \in steady \cap Typed : b \in get_endpoint_info <=> b \in healthy
  /\ Backends \ Typed \subseteq get_endpoint_info

=============================================================================
