---------------------------- MODULE RequestStats ----------------------------
(***************************************************************************)
(* The request statistics ledger of the router                             *)
(* (src/vllm_router/stats/request_stats.py, class RequestStatsMonitor).    *)
(* Every public method takes the monitor's RLock for its whole body, so    *)
(* each one is a single action here.  The callers are unconstrained: any   *)
(* hook may be called on any handle that was ever handed out, late, twice  *)
(* or in the wrong order.  RequestLifecycle and MultipartProxy restrict    *)
(* the callers to what the request handlers do.                            *)
(*                                                                         *)
(* A dictionary is a total function: the absent key is NoRequest, NoTime,  *)
(* 0 or {}, which is what the code's .get(key, default) reads.  A moving   *)
(* average monitor is the set of samples in its deque; a sample carries    *)
(* the handle that produced it, so equal samples stay apart.               *)
(***************************************************************************)
EXTENDS Integers, FiniteSets

CONSTANTS Engines,              \* engine URLs
          MaxHandles,           \* bound on the handles ever allocated
          MaxTime,              \* bound on the clock
          MaxSwapped,           \* bound on the swap counter of an engine
          sliding_window_size,
          NoRequest             \* "no such key" in _active_requests

NoTime == -1

Handles == 0 .. (MaxHandles - 1)

Time == 0 .. MaxTime

\* The fields of _ActiveRequest that a method reads back.
ActiveRequest == [stage : {"prefill", "decoding"}, engine_url : Engines, start_time : Time]

Sample == [handle : Handles, timestamp : Time, value : Time]

Outcomes == {"complete", "fail", "abort"}

\* The auxiliary record of a handle: where and when its attempt began, when its
\* first token came, how it ended.
HistoryRecord == [engine_url : Engines \cup {NoRequest}, start : Time \cup {NoTime},
                  first : Time \cup {NoTime}, outcome : {"none", "open"} \cup Outcomes]

ASSUME StatsAssumption ==
  /\ MaxHandles \in Nat
  /\ MaxTime \in Nat
  /\ MaxSwapped \in Nat
  /\ sliding_window_size \in Nat
  /\ NoRequest \notin ActiveRequest
  /\ IsFiniteSet(Engines)

VARIABLES now,                  \* time.time() as the callers read it
          next_handle,
          active_requests,
          request_start_time,
          first_token_time,
          urls,                 \* the keys of in_prefill_requests
          in_prefill_requests,
          in_decoding_requests,
          finished_requests,
          swapped_requests,
          qps_monitors,
          ttft_monitors,
          latency_monitors,
          first_query_time,
          history               \* auxiliary: what happened to each handle

statsVars == <<now, next_handle, active_requests, request_start_time, first_token_time,
               urls, in_prefill_requests, in_decoding_requests, finished_requests,
               swapped_requests, qps_monitors, ttft_monitors, latency_monitors,
               first_query_time, history>>

Active == {h \in Handles : active_requests[h] # NoRequest}

InStage(s, e) ==
  {h \in Active : active_requests[h].stage = s /\ active_requests[h].engine_url = e}

StatsInit ==
  /\ now = 0
  /\ next_handle = 0
  /\ active_requests = [h \in Handles |-> NoRequest]
  /\ request_start_time = [h \in Handles |-> NoTime]
  /\ first_token_time = [h \in Handles |-> NoTime]
  /\ urls = {}
  /\ in_prefill_requests = [e \in Engines |-> 0]
  /\ in_decoding_requests = [e \in Engines |-> 0]
  /\ finished_requests = [e \in Engines |-> 0]
  /\ swapped_requests = [e \in Engines |-> 0]
  /\ qps_monitors = [e \in Engines |-> {}]
  /\ ttft_monitors = [e \in Engines |-> {}]
  /\ latency_monitors = [e \in Engines |-> {}]
  /\ first_query_time = NoTime
  /\ history = [h \in Handles |-> [engine_url |-> NoRequest, start |-> NoTime,
                                   first |-> NoTime, outcome |-> "none"]]

-----------------------------------------------------------------------------
(* MovingAverageMonitor.  Time stamps reach a monitor in order (one event  *)
(* loop, one clock), so dropping from the left while the head is too old   *)
(* drops exactly the samples older than the window.                        *)

update_no_value_closed(m, t) == {s \in m : s.timestamp > t - sliding_window_size}

update_no_value(m, t) == {s \in m : ~(s.timestamp < t - sliding_window_size)}

update(m, t, h, v) ==
  update_no_value(m \cup {[handle |-> h, timestamp |-> t, value |-> v]}, t)

-----------------------------------------------------------------------------

on_new_request_reused_handle(u) ==
  /\ next_handle < MaxHandles
  /\ next_handle' = IF next_handle = 0 THEN 1 ELSE next_handle
  /\ LET h == next_handle' - 1 IN
       /\ active_requests' = [active_requests EXCEPT
            ![h] = [stage |-> "prefill", engine_url |-> u, start_time |-> now]]
       /\ request_start_time' = [request_start_time EXCEPT ![h] = now]
       /\ qps_monitors' = [qps_monitors EXCEPT ![u] = update(@, now, h, 1)]
       /\ history' = [history EXCEPT
            ![h] = [engine_url |-> u, start |-> now, first |-> NoTime, outcome |-> "open"]]
  /\ urls' = urls \cup {u}
  /\ in_prefill_requests' = [in_prefill_requests EXCEPT ![u] = @ + 1]
  /\ first_query_time' = IF first_query_time = NoTime THEN now ELSE first_query_time
  /\ UNCHANGED <<now, first_token_time, in_decoding_requests, finished_requests,
                 swapped_requests, ttft_monitors, latency_monitors>>

on_new_request(u) ==
  /\ next_handle < MaxHandles
  /\ next_handle' = next_handle + 1
  /\ active_requests' = [active_requests EXCEPT
       ![next_handle] = [stage |-> "prefill", engine_url |-> u, start_time |-> now]]
  /\ request_start_time' = [request_start_time EXCEPT ![next_handle] = now]
  /\ urls' = urls \cup {u}
  /\ in_prefill_requests' = [in_prefill_requests EXCEPT ![u] = @ + 1]
  /\ qps_monitors' = [qps_monitors EXCEPT ![u] = update(@, now, next_handle, 1)]
  /\ first_query_time' = IF first_query_time = NoTime THEN now ELSE first_query_time
  /\ history' = [history EXCEPT
       ![next_handle] = [engine_url |-> u, start |-> now, first |-> NoTime, outcome |-> "open"]]
  /\ UNCHANGED <<now, first_token_time, in_decoding_requests, finished_requests,
                 swapped_requests, ttft_monitors, latency_monitors>>

on_request_response_any_stage(h) ==
  LET r == active_requests[h] IN
  IF r = NoRequest \/ in_prefill_requests[r.engine_url] <= 0
  THEN UNCHANGED statsVars
  ELSE /\ in_prefill_requests' = [in_prefill_requests EXCEPT ![r.engine_url] = @ - 1]
       /\ in_decoding_requests' = [in_decoding_requests EXCEPT ![r.engine_url] = @ + 1]
       /\ active_requests' = [active_requests EXCEPT ![h].stage = "decoding"]
       /\ UNCHANGED <<now, next_handle, request_start_time, first_token_time, urls,
                      finished_requests, swapped_requests, qps_monitors, ttft_monitors,
                      latency_monitors, first_query_time, history>>

\* The two early returns of on_request_response: the attempt is retired or
\* already decoding, or the prefill count of its engine is not positive.
on_request_response(h) ==
  LET r == active_requests[h] IN
  IF r = NoRequest \/ r.stage # "prefill" \/ in_prefill_requests[r.engine_url] <= 0
  THEN UNCHANGED statsVars
  ELSE LET u == r.engine_url IN
       /\ active_requests' = [active_requests EXCEPT ![h].stage = "decoding"]
       /\ first_token_time' = [first_token_time EXCEPT ![h] = now]
       /\ in_prefill_requests' = [in_prefill_requests EXCEPT ![u] = @ - 1]
       /\ in_decoding_requests' = [in_decoding_requests EXCEPT ![u] = @ + 1]
       /\ ttft_monitors' = [ttft_monitors EXCEPT ![u] = update(@, now, h, now - r.start_time)]
       /\ history' = [history EXCEPT ![h].first = now]
       /\ UNCHANGED <<now, next_handle, request_start_time, urls, finished_requests,
                      swapped_requests, qps_monitors, latency_monitors, first_query_time>>

\* A count is decremented only while it is positive (the code logs the
\* "invariant violated" error otherwise).
Decrement(counts, u) == [counts EXCEPT ![u] = IF @ <= 0 THEN @ ELSE @ - 1]

finalize_request_keeps_record(h, outcome) ==
  LET r == active_requests[h] IN
  IF r = NoRequest THEN UNCHANGED statsVars
  ELSE LET u == r.engine_url IN
       /\ in_prefill_requests' = Decrement(in_prefill_requests, u)
       /\ finished_requests' = IF outcome = "complete"
                               THEN [finished_requests EXCEPT ![u] = @ + 1]
                               ELSE finished_requests
       /\ history' = [history EXCEPT ![h].outcome = outcome]
       /\ UNCHANGED <<now, next_handle, active_requests, request_start_time, first_token_time,
                      urls, in_decoding_requests, swapped_requests, qps_monitors,
                      ttft_monitors, latency_monitors, first_query_time>>

finalize_request(h, outcome) ==
  LET r == active_requests[h] IN
  IF r = NoRequest THEN UNCHANGED statsVars
  ELSE LET u == r.engine_url IN
       /\ active_requests' = [active_requests EXCEPT ![h] = NoRequest]
       /\ request_start_time' = [request_start_time EXCEPT ![h] = NoTime]
       /\ first_token_time' = [first_token_time EXCEPT ![h] = NoTime]
       /\ in_prefill_requests' = IF r.stage = "prefill" THEN Decrement(in_prefill_requests, u)
                                                        ELSE in_prefill_requests
       /\ in_decoding_requests' = IF r.stage = "prefill" THEN in_decoding_requests
                                  ELSE Decrement(in_decoding_requests, u)
       /\ finished_requests' = IF outcome = "complete"
                               THEN [finished_requests EXCEPT ![u] = @ + 1]
                               ELSE finished_requests
       /\ latency_monitors' = IF outcome = "complete"
                              THEN [latency_monitors EXCEPT
                                      ![u] = update(@, now, h, now - r.start_time)]
                              ELSE latency_monitors
       /\ history' = [history EXCEPT ![h].outcome = outcome]
       /\ UNCHANGED <<now, next_handle, urls, swapped_requests, qps_monitors,
                      ttft_monitors, first_query_time>>

on_request_complete(h) == finalize_request(h, "complete")

on_request_fail(h) == finalize_request(h, "fail")

on_request_abort(h) == finalize_request(h, "abort")

on_request_swapped(u) ==
  /\ swapped_requests[u] < MaxSwapped
  /\ swapped_requests' = [swapped_requests EXCEPT ![u] = @ + 1]
  /\ UNCHANGED <<now, next_handle, active_requests, request_start_time, first_token_time,
                 urls, in_prefill_requests, in_decoding_requests, finished_requests,
                 qps_monitors, ttft_monitors, latency_monitors, first_query_time, history>>

\* Reading the statistics slides the QPS and TTFT windows of every known
\* engine to the reader's time; the latency window is left as it is.
get_request_stats ==
  /\ qps_monitors' = [e \in Engines |-> IF e \in urls THEN update_no_value(qps_monitors[e], now)
                                                      ELSE qps_monitors[e]]
  /\ ttft_monitors' = [e \in Engines |-> IF e \in urls THEN update_no_value(ttft_monitors[e], now)
                                                       ELSE ttft_monitors[e]]
  /\ UNCHANGED <<now, next_handle, active_requests, request_start_time, first_token_time,
                 urls, in_prefill_requests, in_decoding_requests, finished_requests,
                 swapped_requests, latency_monitors, first_query_time, history>>

\* What the read above returns for engine e: for each figure computed from a
\* monitor, the samples it is computed from.  first_query_time is tested for
\* truth, and time 0 stands for an ordinary (truthy) time stamp.
Report(e) ==
  [qps       |-> update_no_value(qps_monitors[e], now),
   ttft      |-> update_no_value(ttft_monitors[e], now),
   latency   |-> latency_monitors[e],
   prefill   |-> in_prefill_requests[e],
   decoding  |-> in_decoding_requests[e],
   finished  |-> finished_requests[e],
   swapped   |-> swapped_requests[e],
   uptime    |-> IF first_query_time = NoTime THEN 0 ELSE now - first_query_time]

Tick ==
  /\ now < MaxTime
  /\ now' = now + 1
  /\ UNCHANGED <<next_handle, active_requests, request_start_time, first_token_time,
                 urls, in_prefill_requests, in_decoding_requests, finished_requests,
                 swapped_requests, qps_monitors, ttft_monitors, latency_monitors,
                 first_query_time, history>>

StatsNext ==
  \/ \E u \in Engines : on_new_request(u) \/ on_request_swapped(u)
  \/ \E h \in Handles : on_request_response(h) \/ on_request_complete(h)
                          \/ on_request_fail(h) \/ on_request_abort(h)
  \/ get_request_stats
  \/ Tick

StatsSpec == StatsInit /\ [][StatsNext]_statsVars

-----------------------------------------------------------------------------
(* The ledger as its readers see it. *)

StageOf(h) ==
  CASE history[h].outcome = "none" -> "new"
    [] history[h].outcome = "open" -> active_requests[h].stage
    [] history[h].outcome = "complete" -> "completed"
    [] OTHER -> "dropped"

Ledger == INSTANCE AttemptLedger WITH
  Attempts <- Handles,
  stage <- [h \in Handles |-> StageOf(h)],
  engine <- [h \in Handles |-> history[h].engine_url],
  prefill <- in_prefill_requests,
  decoding <- in_decoding_requests,
  finished <- finished_requests

-----------------------------------------------------------------------------
(* Properties *)

\* Every dictionary and deque of the monitor holds values of its type.
StatsTypeOK ==
  /\ now \in Time
  /\ next_handle \in 0 .. MaxHandles
  /\ active_requests \in [Handles -> ActiveRequest \cup {NoRequest}]
  /\ request_start_time \in [Handles -> Time \cup {NoTime}]
  /\ first_token_time \in [Handles -> Time \cup {NoTime}]
  /\ urls \in SUBSET Engines
  /\ in_prefill_requests \in [Engines -> Nat]
  /\ in_decoding_requests \in [Engines -> Nat]
  /\ finished_requests \in [Engines -> Nat]
  /\ swapped_requests \in [Engines -> 0 .. MaxSwapped]
  /\ qps_monitors \in [Engines -> SUBSET [handle : Handles, timestamp : Time, value : {1}]]
  /\ ttft_monitors \in [Engines -> SUBSET Sample]
  /\ latency_monitors \in [Engines -> SUBSET Sample]
  /\ first_query_time \in Time \cup {NoTime}
  /\ history \in [Handles -> HistoryRecord]

\* The in-flight gauges that the load-based routers and the metrics read are
\* exactly the number of live attempts in each stage on each engine, whatever
\* the order of first-token and terminal hooks and however often they are
\* called.  The "Request stats invariant violated" branches are unreachable.
CountsMatch ==
  \A e \in Engines :
    /\ in_prefill_requests[e] = Cardinality(InStage("prefill", e))
    /\ in_decoding_requests[e] = Cardinality(InStage("decoding", e))

\* finished_requests counts each completed attempt once and no failed or
\* aborted one, and an attempt has an outcome exactly when its record is gone.
FinishedExact ==
  /\ \A e \in Engines : finished_requests[e] =
       Cardinality({h \in Handles : history[h].outcome = "complete" /\ history[h].engine_url = e})
  /\ \A h \in Handles : h \in Active <=> history[h].outcome = "open"

\* The active record of a handle agrees with what happened to it, no clock
\* reading lies in the future, and handles are allocated in order: the
\* strengthening under which the counts are inductive.
LedgerLinked ==
  \A h \in Handles :
    /\ h \in Active <=> history[h].outcome = "open"
    /\ h \in Active => /\ history[h].engine_url = active_requests[h].engine_url
                       /\ active_requests[h].start_time <= now
    /\ history[h].outcome = "none" <=> h >= next_handle

\* The QPS an engine is reported with counts every attempt that began on it
\* within the window that ends now, and no other; the reported TTFT averages
\* exactly the first tokens of that window.
ReportedWindows ==
  \A e \in urls :
    LET InWindow(t) == t # NoTime /\ t >= now - sliding_window_size IN
    /\ Report(e).qps = {[handle |-> h, timestamp |-> history[h].start, value |-> 1] :
                          h \in {g \in Handles : history[g].engine_url = e
                                                   /\ InWindow(history[g].start)}}
    /\ Report(e).ttft = {[handle |-> h, timestamp |-> history[h].first,
                          value |-> history[h].first - history[h].start] :
                           h \in {g \in Handles : history[g].engine_url = e
                                                    /\ InWindow(history[g].first)}}

\* Once an attempt is retired, no later hook call reopens it or changes its
\* outcome: finalization pops the record first.
OutcomeIsFinal ==
  [][\A h \in Handles : history[h].outcome \in Outcomes => history'[h] = history[h]]_statsVars

\* The monitor implements the abstract ledger: every method call, duplicates
\* and late calls included, is one move of one attempt with exact figures
\* after it, or no move at all.
ImplementsLedger == Ledger!Spec

=============================================================================
