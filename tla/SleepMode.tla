------------------------------ MODULE SleepMode ------------------------------
(***************************************************************************)
(* Putting an engine to sleep and waking it up through the router          *)
(* (route_sleep_wakeup_request in services/request_service/request.py, the *)
(* sleep labels and the sleep status in service_discovery.py).  The router *)
(* never reads the label it patches: patching it makes the API server send *)
(* an event, and the watcher then asks the engine whether it sleeps and    *)
(* writes the answer to the engine table, where requests look it up.       *)
(*                                                                         *)
(* A request is idle, posting (awaiting the engine's answer), answered     *)
(* (answer received, the synchronous label call next) or over.  The        *)
(* watcher is cut between the answer of the engine and the write to the    *)
(* table, where the loop can run.                                          *)
(***************************************************************************)
EXTENDS Integers, Sequences

CONSTANTS Sleepers,     \* the engines
          Admins,       \* the sleep and wake-up requests
          NoSleeper,
          MaxRestarts   \* bound: restarts of engines

ASSUME SleepersAssumption == NoSleeper \notin Sleepers

VARIABLES by,                   \* the kind of discovery
          asleep, up, label,    \* engine |-> its state; label on its pod
          events,               \* engine |-> readiness carried by its unread events
          table,                \* engine |-> "none", "awake" or "asleep"
          reading,              \* the watcher's engine, and the status it read
          admin,                \* request |-> [pc, op, engine, answer]
          restarts,
          unseen,               \* history: engine |-> it changed after its last event, or
                                \* the query for that event failed
          undisturbed           \* history: engine |-> nothing went wrong with it

sleepVars == <<by, asleep, up, label, events, table, reading, admin, restarts, unseen, undisturbed>>

NotReading == [engine |-> NoSleeper, status |-> "awake"]
NewAdmin == [pc |-> "idle", op |-> "none", engine |-> NoSleeper, answer |-> "none"]

SleepInit ==
  /\ by \in {"pod-ip", "service-name", "static"}
  /\ asleep = [e \in Sleepers |-> FALSE]
  /\ up = [e \in Sleepers |-> TRUE]
  /\ label = [e \in Sleepers |-> FALSE]
  /\ events = [e \in Sleepers |-> <<>>]
  /\ table = [e \in Sleepers |-> "awake"]
  /\ reading = NotReading
  /\ admin = [a \in Admins |-> NewAdmin]
  /\ restarts = 0
  /\ unseen = [e \in Sleepers |-> FALSE]
  /\ undisturbed = [e \in Sleepers |-> TRUE]

InFlightOn(e) == {a \in Admins : admin[a].pc \in {"posting", "answered"} /\ admin[a].engine = e}

Announce(e) == events' = [events EXCEPT ![e] = Append(@, up[e])]

Disturb(e) == undisturbed' = [undisturbed EXCEPT ![e] = FALSE]

Unseen(e, b) == unseen' = [unseen EXCEPT ![e] = b]

-----------------------------------------------------------------------------
(* The engines, external *)

Restart(e) ==
  /\ up[e] /\ restarts < MaxRestarts
  /\ restarts' = restarts + 1
  /\ up' = [up EXCEPT ![e] = FALSE]
  /\ asleep' = [asleep EXCEPT ![e] = FALSE]
  /\ events' = IF by = "pod-ip" THEN [events EXCEPT ![e] = Append(@, FALSE)] ELSE events
  /\ Disturb(e)
  /\ UNCHANGED <<by, label, table, reading, admin, unseen>>

Recover(e) ==
  /\ ~up[e]
  /\ up' = [up EXCEPT ![e] = TRUE]
  /\ events' = IF by = "pod-ip" THEN [events EXCEPT ![e] = Append(@, TRUE)] ELSE events
  /\ Unseen(e, FALSE)
  /\ UNCHANGED <<by, asleep, label, table, reading, admin, restarts, undisturbed>>

-----------------------------------------------------------------------------
(* The requests *)

\* Without an engine id, or with the id of an engine the table does not hold.
SleepRefused(a) ==
  /\ admin[a].pc = "idle"
  /\ admin' = [admin EXCEPT ![a].pc = "over", ![a].answer = "400"]
  /\ UNCHANGED <<by, asleep, up, label, events, table, reading, restarts, unseen, undisturbed>>

SleepPosted(a, op, e) ==
  /\ admin[a].pc = "idle"
  /\ table[e] # "none"
  /\ admin' = [admin EXCEPT ![a] = [pc |-> "posting", op |-> op, engine |-> e, answer |-> "none"]]
  /\ IF InFlightOn(e) = {} THEN UNCHANGED undisturbed ELSE Disturb(e)
  /\ UNCHANGED <<by, asleep, up, label, events, table, reading, restarts, unseen>>

\* The engine does what it was asked and its answer arrives, or is lost.
EngineObeys(a) ==
  LET e == admin[a].engine IN
  /\ admin[a].pc = "posting" /\ up[e]
  /\ asleep' = [asleep EXCEPT ![e] = admin[a].op = "/sleep"]
  /\ Unseen(e, unseen[e] \/ asleep' # asleep)
  /\ \/ admin' = [admin EXCEPT ![a].pc = "answered"] /\ UNCHANGED undisturbed
     \/ admin' = [admin EXCEPT ![a].pc = "over", ![a].answer = "500"] /\ Disturb(e)
  /\ UNCHANGED <<by, up, label, events, table, reading, restarts>>

\* The engine refuses or cannot be reached: the error escapes the handler.
EngineRefuses(a) ==
  /\ admin[a].pc = "posting"
  /\ admin' = [admin EXCEPT ![a].pc = "over", ![a].answer = "500"]
  /\ UNCHANGED <<by, asleep, up, label, events, table, reading, restarts, unseen, undisturbed>>

\* Only the endpoints of pod discovery carry the pod's name; the label call of
\* service-name discovery raises for the name None, and static discovery has no
\* such method.
LabelRaises(a) ==
  LET e == admin[a].engine IN
  /\ admin[a].pc = "answered"
  /\ by # "pod-ip"
  /\ admin' = [admin EXCEPT ![a].pc = "over", ![a].answer = "500"]
  /\ UNCHANGED <<by, asleep, up, label, events, table, reading, restarts, unseen, undisturbed>>

\* The patch is refused (the pod changed since it was read, or the API server
\* failed): logged, and the request still succeeds.
LabelFails(a) ==
  LET e == admin[a].engine IN
  /\ admin[a].pc = "answered"
  /\ by = "pod-ip"
  /\ admin' = [admin EXCEPT ![a].pc = "over", ![a].answer = "200"]
  /\ Disturb(e)
  /\ UNCHANGED <<by, asleep, up, label, events, table, reading, restarts, unseen>>

LabelPatched_only_adds(a) ==
  LET e == admin[a].engine
      want == admin[a].op = "/sleep" \/ label[e] IN
  /\ admin[a].pc = "answered"
  /\ by = "pod-ip"
  /\ admin' = [admin EXCEPT ![a].pc = "over", ![a].answer = "200"]
  /\ label' = [label EXCEPT ![e] = want]
  /\ IF label[e] = want THEN UNCHANGED <<events, unseen>> ELSE Announce(e) /\ Unseen(e, FALSE)
  /\ UNCHANGED <<by, asleep, up, table, reading, restarts, undisturbed>>

\* add_sleep_label and remove_sleep_label.  A patch that changes nothing sends no
\* event.
LabelPatched(a) ==
  LET e == admin[a].engine
      want == admin[a].op = "/sleep" IN
  /\ admin[a].pc = "answered"
  /\ by = "pod-ip"
  /\ admin' = [admin EXCEPT ![a].pc = "over", ![a].answer = "200"]
  /\ label' = [label EXCEPT ![e] = want]
  /\ IF label[e] = want THEN UNCHANGED <<events, unseen>> ELSE Announce(e) /\ Unseen(e, FALSE)
  /\ UNCHANGED <<by, asleep, up, table, reading, restarts, undisturbed>>

-----------------------------------------------------------------------------
(* The watcher *)

PodUnready(e) ==
  /\ reading = NotReading
  /\ events[e] # <<>> /\ ~Head(events[e])
  /\ events' = [events EXCEPT ![e] = Tail(@)]
  /\ table' = [table EXCEPT ![e] = "none"]
  /\ UNCHANGED <<by, asleep, up, label, reading, admin, restarts, unseen, undisturbed>>

\* A ready pod whose engine does not answer with its models is removed.
ModelsUnread(e) ==
  /\ reading = NotReading
  /\ events[e] # <<>> /\ Head(events[e])
  /\ events' = [events EXCEPT ![e] = Tail(@)]
  /\ table' = [table EXCEPT ![e] = "none"]
  /\ Unseen(e, TRUE) /\ Disturb(e)
  /\ UNCHANGED <<by, asleep, up, label, reading, admin, restarts>>

\* The engine's answer to /is_sleeping; one that does not answer, or whose sleep
\* mode cannot be read from its pod, counts as awake.
ReadSleepStatus(e) ==
  /\ reading = NotReading
  /\ events[e] # <<>> /\ Head(events[e])
  /\ events' = [events EXCEPT ![e] = Tail(@)]
  /\ \/ /\ up[e]
        /\ reading' = [engine |-> e, status |-> IF asleep[e] THEN "asleep" ELSE "awake"]
        /\ Unseen(e, FALSE) /\ UNCHANGED undisturbed
     \/ reading' = [engine |-> e, status |-> "awake"] /\ Unseen(e, TRUE) /\ Disturb(e)
  /\ UNCHANGED <<by, asleep, up, label, table, admin, restarts>>

AddEngine_keeps_status ==
  /\ reading # NotReading
  /\ table' = [table EXCEPT ![reading.engine] = IF @ = "none" THEN reading.status ELSE @]
  /\ reading' = NotReading
  /\ UNCHANGED <<by, asleep, up, label, events, admin, restarts, unseen, undisturbed>>

AddEngine ==
  /\ reading # NotReading
  /\ table' = [table EXCEPT ![reading.engine] = reading.status]
  /\ reading' = NotReading
  /\ UNCHANGED <<by, asleep, up, label, events, admin, restarts, unseen, undisturbed>>

-----------------------------------------------------------------------------

SleepDone == (\A a \in Admins : admin[a].pc = "over") /\ UNCHANGED sleepVars

SleepNext ==
  \/ \E e \in Sleepers :
       Restart(e) \/ Recover(e) \/ PodUnready(e) \/ ModelsUnread(e) \/ ReadSleepStatus(e)
  \/ \E a \in Admins :
       \/ SleepRefused(a) \/ EngineObeys(a) \/ EngineRefuses(a)
       \/ LabelRaises(a) \/ LabelFails(a) \/ LabelPatched(a)
       \/ \E op \in {"/sleep", "/wake_up"}, e \in Sleepers : SleepPosted(a, op, e)
  \/ AddEngine
  \/ SleepDone

SleepSpec == SleepInit /\ [][SleepNext]_sleepVars

-----------------------------------------------------------------------------
(* Properties *)

\* Nothing about engine e is still on its way to the table.
Settled(e) == InFlightOn(e) = {} /\ events[e] = <<>> /\ reading.engine # e

\* With pod discovery, whatever sleep and wake-up requests overlap on an engine, are
\* lost or cannot patch its label, and however often it restarts: once everything
\* has settled, the table says what the engine does, unless the engine changed after
\* the last event of its pod, or did not answer the query for that event.
SleepReflected ==
  \A e \in Sleepers :
    by = "pod-ip" /\ up[e] /\ Settled(e) /\ ~unseen[e] =>
      table[e] = (IF asleep[e] THEN "asleep" ELSE "awake")

\* And every change of an engine is followed by such an event, since the label then
\* changes too: as long as no two requests overlapped on the engine, no answer,
\* patch or query was lost and the engine did not restart.
ChangesAnnounced ==
  \A e \in Sleepers : by = "pod-ip" /\ undisturbed[e] /\ Settled(e) => ~unseen[e]

\* "The sleep aware routing feature helps to ensure that router does not forward
\* requests to a sleeping engine": once everything has settled, and no failure
\* was reported to any request, no sleeping engine is routable.
NoSleeperRoutable ==
  \A e \in Sleepers :
    /\ by = "pod-ip" /\ up[e] /\ Settled(e)
    /\ \A a \in Admins : admin[a].answer \in {"none", "200"}
    /\ asleep[e]
    => table[e] # "awake"

=============================================================================
