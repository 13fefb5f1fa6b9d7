------------------------- MODULE RequestStatsProofs -------------------------
(***************************************************************************)
(* Proofs about the request statistics ledger, for any set of engines, any *)
(* number of handles, any clock and any window.                            *)
(***************************************************************************)
EXTENDS RequestStats, FiniteSetTheorems, TLAPS

\* Leaves are left to Zenon; those that need arithmetic or sequences cite SMT.
USE Zenon

USE StatsAssumption

\* Sets of handles are finite, so the counts below are natural numbers.
LEMMA HandleSetsFinite ==
  ASSUME NEW S \in SUBSET Handles
  PROVE  IsFiniteSet(S) /\ Cardinality(S) \in Nat
<1>1. IsFiniteSet(Handles)
  BY FS_Interval, SMT DEF Handles
<1>2. IsFiniteSet(S)
  BY <1>1, FS_Subset
<1> QED
  BY <1>2, FS_CardinalityType

\* The stage sets are sets of handles.
LEMMA InStageFinite ==
  \A s, e : /\ InStage(s, e) \in SUBSET Handles
            /\ IsFiniteSet(InStage(s, e))
            /\ Cardinality(InStage(s, e)) \in Nat
<1> SUFFICES ASSUME NEW s, NEW e PROVE /\ InStage(s, e) \in SUBSET Handles
                                       /\ IsFiniteSet(InStage(s, e))
                                       /\ Cardinality(InStage(s, e)) \in Nat
  OBVIOUS
<1>1. InStage(s, e) \in SUBSET Handles
  BY DEF InStage, Active
<1> QED
  BY <1>1, HandleSetsFinite

\* Sliding a window only drops samples.
LEMMA SlideSubset ==
  ASSUME NEW m, NEW t
  PROVE  update_no_value(m, t) \subseteq m
BY DEF update_no_value

\* Adding a sample of the right type to a window keeps the window typed.
LEMMA UpdateTyped ==
  ASSUME NEW S, NEW m \in SUBSET S, NEW t, NEW h, NEW v,
         [handle |-> h, timestamp |-> t, value |-> v] \in S
  PROVE  update(m, t, h, v) \in SUBSET S
BY DEF update, update_no_value

\* The ledger starts typed and linked.
LEMMA InitTyped == StatsInit => StatsTypeOK /\ LedgerLinked
<1> SUFFICES ASSUME StatsInit PROVE StatsTypeOK /\ LedgerLinked
  OBVIOUS
<1>1. StatsTypeOK
  BY SMT DEF StatsInit, StatsTypeOK, HistoryRecord, Time, NoTime, Handles
<1>2. LedgerLinked
  BY SMT DEF StatsInit, LedgerLinked, Active, Handles
<1> QED
  BY <1>1, <1>2

\* Moving an active record to the decoding stage changes nothing else of it.
LEMMA StageUpdate ==
  \A x \in ActiveRequest :
    LET y == [x EXCEPT !.stage = "decoding"] IN
    /\ y \in ActiveRequest
    /\ y.stage = "decoding"
    /\ y.engine_url = x.engine_url
    /\ y.start_time = x.start_time
BY DEF ActiveRequest

\* The same for the two updates of the auxiliary record.
LEMMA HistoryUpdate ==
  \A x \in HistoryRecord :
    /\ \A o \in Outcomes : LET y == [x EXCEPT !.outcome = o] IN
         y \in HistoryRecord /\ y.outcome = o /\ y.engine_url = x.engine_url
    /\ \A t \in Time : LET y == [x EXCEPT !.first = t] IN
         y \in HistoryRecord /\ y.outcome = x.outcome /\ y.engine_url = x.engine_url
BY DEF HistoryRecord

\* What on_request_response changes when neither early return applies.
LEMMA ResponseEffect ==
  ASSUME StatsTypeOK, NEW h \in Handles, on_request_response(h), statsVars' # statsVars
  PROVE  /\ active_requests[h] \in ActiveRequest
         /\ active_requests[h].stage = "prefill"
         /\ \E a \in ActiveRequest, g \in HistoryRecord :
              /\ active_requests' = [active_requests EXCEPT ![h] = a]
              /\ a.stage = "decoding"
              /\ a.engine_url = active_requests[h].engine_url
              /\ a.start_time = active_requests[h].start_time
              /\ history' = [history EXCEPT ![h] = g]
              /\ g.outcome = history[h].outcome
              /\ g.engine_url = history[h].engine_url
<1> DEFINE r == active_requests[h]
           a == [r EXCEPT !.stage = "decoding"]
           g == [history[h] EXCEPT !.first = now]
<1>1. r # NoRequest /\ r.stage = "prefill"
  BY DEF on_request_response
<1>2. active_requests' = [active_requests EXCEPT ![h] = a] /\ history' = [history EXCEPT ![h] = g]
  BY DEF on_request_response
<1>3. r \in ActiveRequest /\ history[h] \in HistoryRecord /\ now \in Time
  BY <1>1 DEF StatsTypeOK
<1>4. /\ a \in ActiveRequest /\ a.stage = "decoding"
      /\ a.engine_url = r.engine_url /\ a.start_time = r.start_time
  BY <1>3, StageUpdate
<1>5. /\ g \in HistoryRecord /\ g.outcome = history[h].outcome
      /\ g.engine_url = history[h].engine_url
  BY <1>3, HistoryUpdate
<1> HIDE DEF a, g
<1> QED
  BY <1>1, <1>2, <1>3, <1>4, <1>5

\* What finalize_request changes when the record is still there.
LEMMA FinalizeEffect ==
  ASSUME StatsTypeOK, NEW h \in Handles, NEW o \in Outcomes, finalize_request(h, o),
         statsVars' # statsVars
  PROVE  /\ active_requests[h] \in ActiveRequest
         /\ active_requests' = [active_requests EXCEPT ![h] = NoRequest]
         /\ \E g \in HistoryRecord :
              /\ history' = [history EXCEPT ![h] = g]
              /\ g.outcome = o
              /\ g.engine_url = history[h].engine_url
<1> DEFINE g == [history[h] EXCEPT !.outcome = o]
<1>1. active_requests[h] # NoRequest
  BY DEF finalize_request
<1>2. /\ active_requests' = [active_requests EXCEPT ![h] = NoRequest]
      /\ history' = [history EXCEPT ![h] = g]
  BY <1>1 DEF finalize_request
<1>3. active_requests[h] \in ActiveRequest /\ history[h] \in HistoryRecord
  BY <1>1 DEF StatsTypeOK
<1>4. g \in HistoryRecord /\ g.outcome = o /\ g.engine_url = history[h].engine_url
  BY <1>3, HistoryUpdate
<1> HIDE DEF g
<1> QED
  BY <1>2, <1>3, <1>4

\* Each method keeps the dictionaries typed.
LEMMA StepTyped ==
  ASSUME StatsTypeOK, LedgerLinked, [StatsNext]_statsVars
  PROVE  StatsTypeOK'
<1>1. ASSUME NEW u \in Engines, on_new_request(u) PROVE StatsTypeOK'
  <2> DEFINE h == next_handle
  <2>1. h \in Handles /\ h + 1 \in 0 .. MaxHandles
    BY <1>1, SMT DEF on_new_request, Handles, StatsTypeOK
  <2>2. [stage |-> "prefill", engine_url |-> u, start_time |-> now] \in ActiveRequest
    BY DEF ActiveRequest, StatsTypeOK
  <2>3. update(qps_monitors[u], now, h, 1)
          \in SUBSET [handle : Handles, timestamp : Time, value : {1}]
    BY <2>1, UpdateTyped DEF StatsTypeOK
  <2>4. [engine_url |-> u, start |-> now, first |-> NoTime, outcome |-> "open"] \in HistoryRecord
    BY DEF HistoryRecord, StatsTypeOK
  <2>5. in_prefill_requests' \in [Engines -> Nat]
    BY <1>1, SMT DEF on_new_request, StatsTypeOK
  <2>6. first_query_time' \in Time \cup {NoTime}
    BY <1>1 DEF on_new_request, StatsTypeOK
  <2>7. qps_monitors' \in [Engines -> SUBSET [handle : Handles, timestamp : Time, value : {1}]]
    BY <1>1, <2>3 DEF on_new_request, StatsTypeOK
  <2>8. /\ active_requests' \in [Handles -> ActiveRequest \cup {NoRequest}]
        /\ request_start_time' \in [Handles -> Time \cup {NoTime}]
        /\ history' \in [Handles -> HistoryRecord]
    BY <1>1, <2>1, <2>2, <2>4 DEF on_new_request, StatsTypeOK
  <2> QED
    BY <1>1, <2>1, <2>5, <2>6, <2>7, <2>8 DEF on_new_request, StatsTypeOK
<1>2. ASSUME NEW u \in Engines, on_request_swapped(u) PROVE StatsTypeOK'
  BY <1>2, SMT DEF on_request_swapped, StatsTypeOK
<1>3. ASSUME NEW h \in Handles, on_request_response(h), statsVars' # statsVars PROVE StatsTypeOK'
  <2> DEFINE r == active_requests[h]
             u == r.engine_url
  <2>1. r \in ActiveRequest /\ u \in Engines /\ r.start_time \in Time
    BY <1>3, ResponseEffect DEF ActiveRequest
  <2>2. now - r.start_time \in Time
    BY <2>1, SMT DEF LedgerLinked, Active, Time, StatsTypeOK
  <2>3. update(ttft_monitors[u], now, h, now - r.start_time) \in SUBSET Sample
    <3>1. [handle |-> h, timestamp |-> now, value |-> now - r.start_time] \in Sample
      BY <2>2 DEF Sample, StatsTypeOK
    <3>2. ttft_monitors[u] \in SUBSET Sample
      BY <2>1 DEF StatsTypeOK
    <3> QED
      BY <3>1, <3>2, UpdateTyped, SMT
  <2>4. /\ active_requests' \in [Handles -> ActiveRequest \cup {NoRequest}]
        /\ history' \in [Handles -> HistoryRecord]
    BY <1>3, ResponseEffect, SMT DEF StatsTypeOK
  <2>5. /\ in_prefill_requests[u] > 0
        /\ in_prefill_requests' = [in_prefill_requests EXCEPT ![u] = in_prefill_requests[u] - 1]
        /\ in_decoding_requests' = [in_decoding_requests EXCEPT ![u] = in_decoding_requests[u] + 1]
        /\ ttft_monitors' = [ttft_monitors EXCEPT
                               ![u] = update(ttft_monitors[u], now, h, now - r.start_time)]
        /\ first_token_time' = [first_token_time EXCEPT ![h] = now]
        /\ UNCHANGED <<now, next_handle, request_start_time, urls, finished_requests,
                       swapped_requests, qps_monitors, latency_monitors, first_query_time>>
    <3>1. ~(in_prefill_requests[u] <= 0)
      BY <1>3 DEF on_request_response
    <3>2. in_prefill_requests[u] > 0
      BY <2>1, <3>1, SMT DEF StatsTypeOK
    <3> QED
      BY <1>3, <3>2 DEF on_request_response
  <2>6. in_prefill_requests' \in [Engines -> Nat] /\ in_decoding_requests' \in [Engines -> Nat]
    BY SMTT(30), <2>1, <2>5 DEF StatsTypeOK
  <2> QED
    BY <2>1, <2>3, <2>4, <2>5, <2>6 DEF StatsTypeOK
<1>4. ASSUME NEW h \in Handles, NEW o \in Outcomes, finalize_request(h, o), statsVars' # statsVars
      PROVE  StatsTypeOK'
  <2> DEFINE r == active_requests[h]
             u == r.engine_url
  <2>1. r \in ActiveRequest /\ r # NoRequest /\ u \in Engines /\ r.start_time \in Time
    BY <1>4, FinalizeEffect DEF ActiveRequest
  <2>2. now - r.start_time \in Time
    BY <2>1, SMT DEF LedgerLinked, Active, Time, StatsTypeOK
  <2>3. update(latency_monitors[u], now, h, now - r.start_time) \in SUBSET Sample
    <3>1. [handle |-> h, timestamp |-> now, value |-> now - r.start_time] \in Sample
      BY <2>2 DEF Sample, StatsTypeOK
    <3>2. latency_monitors[u] \in SUBSET Sample
      BY <2>1 DEF StatsTypeOK
    <3> QED
      BY <3>1, <3>2, UpdateTyped, SMT
  <2>4. /\ Decrement(in_prefill_requests, u) \in [Engines -> Nat]
        /\ Decrement(in_decoding_requests, u) \in [Engines -> Nat]
    BY <2>1, SMT DEF Decrement, StatsTypeOK
  <2>5. /\ active_requests' \in [Handles -> ActiveRequest \cup {NoRequest}]
        /\ history' \in [Handles -> HistoryRecord]
    BY <1>4, FinalizeEffect, SMT DEF StatsTypeOK
  <2>6. /\ request_start_time' = [request_start_time EXCEPT ![h] = NoTime]
        /\ first_token_time' = [first_token_time EXCEPT ![h] = NoTime]
        /\ \/ in_prefill_requests' = Decrement(in_prefill_requests, u)
           \/ in_prefill_requests' = in_prefill_requests
        /\ \/ in_decoding_requests' = Decrement(in_decoding_requests, u)
           \/ in_decoding_requests' = in_decoding_requests
        /\ \/ finished_requests' = [finished_requests EXCEPT ![u] = finished_requests[u] + 1]
           \/ finished_requests' = finished_requests
        /\ \/ latency_monitors' = [latency_monitors EXCEPT
                                     ![u] = update(latency_monitors[u], now, h, now - r.start_time)]
           \/ latency_monitors' = latency_monitors
        /\ UNCHANGED <<now, next_handle, urls, swapped_requests, qps_monitors,
                       ttft_monitors, first_query_time>>
    BY <1>4, <2>1 DEF finalize_request
  <2>7. finished_requests' \in [Engines -> Nat]
    BY <2>1, <2>6, SMT DEF StatsTypeOK
  <2>8. latency_monitors' \in [Engines -> SUBSET Sample]
    BY <2>1, <2>3, <2>6 DEF StatsTypeOK
  <2> QED
    BY <2>4, <2>5, <2>6, <2>7, <2>8 DEF StatsTypeOK
<1>5. ASSUME get_request_stats PROVE StatsTypeOK'
  <2>1. \A e \in Engines : /\ update_no_value(qps_monitors[e], now) \subseteq qps_monitors[e]
                           /\ update_no_value(ttft_monitors[e], now) \subseteq ttft_monitors[e]
    BY SlideSubset
  <2> QED
    BY <1>5, <2>1 DEF get_request_stats, StatsTypeOK
<1>6. ASSUME Tick PROVE StatsTypeOK'
  BY <1>6, SMT DEF Tick, Time, StatsTypeOK
<1>7. ASSUME UNCHANGED statsVars PROVE StatsTypeOK'
  BY <1>7 DEF statsVars, StatsTypeOK
<1> QED
  BY SMTT(30), <1>1, <1>2, <1>3, <1>4, <1>5, <1>6, <1>7
     DEF StatsNext, on_request_complete, on_request_fail, on_request_abort, Outcomes

-----------------------------------------------------------------------------

\* Counting with one handle more or one less.
LEMMA CountAdd ==
  ASSUME NEW S \in SUBSET Handles, NEW h \in Handles, h \notin S
  PROVE  Cardinality(S \cup {h}) = Cardinality(S) + 1
BY HandleSetsFinite, FS_AddElement

LEMMA CountRemove ==
  ASSUME NEW S \in SUBSET Handles, NEW h \in S
  PROVE  Cardinality(S \ {h}) = Cardinality(S) - 1 /\ Cardinality(S) > 0
<1>1. Cardinality(S \ {h}) = Cardinality(S) - 1
  BY HandleSetsFinite, FS_RemoveElement
<1>2. Cardinality(S \ {h}) \in Nat /\ Cardinality(S) \in Nat
  BY HandleSetsFinite
<1> QED
  BY <1>1, <1>2, SMT

\* The handles whose attempt completed on engine e.
CompletedOn(e) == {h \in Handles : history[h].outcome = "complete" /\ history[h].engine_url = e}

\* The inductive invariant.
LedgerInv == StatsTypeOK /\ LedgerLinked /\ CountsMatch /\ FinishedExact

\* What a call of on_new_request does to the sets that are counted.
LEMMA NewRequestSets ==
  ASSUME LedgerInv, NEW u \in Engines, on_new_request(u)
  PROVE  /\ next_handle \in Handles \ Active
         /\ LedgerLinked'
         /\ \A e \in Engines :
              /\ InStage("prefill", e)' = IF e = u THEN InStage("prefill", e) \cup {next_handle}
                                                   ELSE InStage("prefill", e)
              /\ InStage("decoding", e)' = InStage("decoding", e)
              /\ CompletedOn(e)' = CompletedOn(e)
<1> DEFINE h == next_handle
           a == [stage |-> "prefill", engine_url |-> u, start_time |-> now]
           g == [engine_url |-> u, start |-> now, first |-> NoTime, outcome |-> "open"]
<1>1. h \in Handles /\ history[h].outcome = "none"
  BY SMT DEF LedgerInv, LedgerLinked, StatsTypeOK, on_new_request, Handles
<1>2. h \notin Active
  BY <1>1 DEF LedgerInv, LedgerLinked
<1>3. a # NoRequest
  BY SMTT(30) DEF LedgerInv, StatsTypeOK, ActiveRequest
<1>4. \A x \in Handles : /\ active_requests'[x] = IF x = h THEN a ELSE active_requests[x]
                         /\ history'[x] = IF x = h THEN g ELSE history[x]
  BY DEF LedgerInv, StatsTypeOK, on_new_request
<1>5. Active' = Active \cup {h}
  BY <1>1, <1>3, <1>4 DEF Active
<1>6. \A e \in Engines :
        /\ InStage("prefill", e)' = IF e = u THEN InStage("prefill", e) \cup {h}
                                             ELSE InStage("prefill", e)
        /\ InStage("decoding", e)' = InStage("decoding", e)
  <2> SUFFICES ASSUME NEW e \in Engines
               PROVE /\ InStage("prefill", e)' = IF e = u THEN InStage("prefill", e) \cup {h}
                                                          ELSE InStage("prefill", e)
                     /\ InStage("decoding", e)' = InStage("decoding", e)
    BY SMTT(30)
  <2>1. \A x \in Active : x # h /\ active_requests'[x] = active_requests[x]
    BY <1>2, <1>4 DEF Active
  <2>2. active_requests'[h].stage = "prefill" /\ active_requests'[h].engine_url = u
    BY <1>1, <1>4, SMT
  <2> QED
    BY <1>5, <2>1, <2>2 DEF InStage
<1>7. \A e \in Engines : CompletedOn(e)' = CompletedOn(e)
  BY <1>1, <1>4, SMT DEF CompletedOn
<1>8. LedgerLinked'
  <2> SUFFICES ASSUME NEW x \in Handles
               PROVE  /\ x \in Active' <=> history'[x].outcome = "open"
                      /\ x \in Active' => /\ history'[x].engine_url = active_requests'[x].engine_url
                                          /\ active_requests'[x].start_time <= now'
                      /\ history'[x].outcome = "none" <=> x >= next_handle'
    BY SMTT(30) DEF LedgerLinked
  <2>1. now' = now /\ next_handle' = next_handle + 1 /\ now \in Nat
    BY SMT DEF on_new_request, LedgerInv, StatsTypeOK, Time
  <2>2. CASE x = h
    BY SMTT(30), <1>1, <1>4, <1>5, <2>1, <2>2 DEF Handles
  <2>3. CASE x # h
    BY <1>4, <1>5, <2>1, <2>3, SMT DEF LedgerInv, LedgerLinked, StatsTypeOK, Handles
  <2> QED
    BY <2>2, <2>3
<1> QED
  BY <1>1, <1>2, <1>6, <1>7, <1>8

\* What an effective first-token hook does to the sets that are counted.
LEMMA ResponseSets ==
  ASSUME LedgerInv, NEW h \in Handles, on_request_response(h), statsVars' # statsVars
  PROVE  /\ h \in InStage("prefill", active_requests[h].engine_url)
         /\ LedgerLinked'
         /\ \A e \in Engines :
              /\ InStage("prefill", e)' = InStage("prefill", e) \ {h}
              /\ InStage("decoding", e)' = IF e = active_requests[h].engine_url
                                           THEN InStage("decoding", e) \cup {h}
                                           ELSE InStage("decoding", e)
              /\ CompletedOn(e)' = CompletedOn(e)
<1> DEFINE r == active_requests[h]
<1>1. PICK a \in ActiveRequest, g \in HistoryRecord :
              /\ active_requests' = [active_requests EXCEPT ![h] = a]
              /\ a.stage = "decoding"
              /\ a.engine_url = r.engine_url
              /\ a.start_time = r.start_time
              /\ history' = [history EXCEPT ![h] = g]
              /\ g.outcome = history[h].outcome
              /\ g.engine_url = history[h].engine_url
  BY ResponseEffect DEF LedgerInv
<1>2. r \in ActiveRequest /\ r.stage = "prefill" /\ h \in Active
  BY ResponseEffect DEF LedgerInv, Active
<1>3. /\ \A x \in Handles : /\ active_requests'[x] = IF x = h THEN a ELSE active_requests[x]
                            /\ history'[x] = IF x = h THEN g ELSE history[x]
  BY <1>1 DEF LedgerInv, StatsTypeOK
<1>4. Active' = Active
  BY <1>2, <1>3 DEF Active
<1>5. \A e \in Engines :
        /\ InStage("prefill", e)' = InStage("prefill", e) \ {h}
        /\ InStage("decoding", e)' = IF e = r.engine_url THEN InStage("decoding", e) \cup {h}
                                                         ELSE InStage("decoding", e)
  <2>1. \A x \in Active : x # h => active_requests'[x] = active_requests[x]
    BY <1>3 DEF Active
  <2>2. active_requests'[h].stage = "decoding" /\ active_requests'[h].engine_url = r.engine_url
    BY <1>1, <1>3
  <2> QED
    BY <1>2, <1>4, <2>1, <2>2 DEF InStage
<1>6. \A e \in Engines : CompletedOn(e)' = CompletedOn(e)
  BY <1>1, <1>3, SMT DEF CompletedOn
<1>7. now' = now /\ next_handle' = next_handle
  BY DEF on_request_response, statsVars
<1>8. LedgerLinked'
  BY SMTT(30), <1>1, <1>2, <1>3, <1>4, <1>7 DEF LedgerLinked, LedgerInv
<1> QED
  BY <1>2, <1>5, <1>6, <1>8 DEF InStage

\* What an effective terminal hook does to the sets that are counted.
LEMMA FinalizeSets ==
  ASSUME LedgerInv, NEW h \in Handles, NEW o \in Outcomes, finalize_request(h, o),
         statsVars' # statsVars
  PROVE  /\ h \in InStage(active_requests[h].stage, active_requests[h].engine_url)
         /\ active_requests[h].stage \in {"prefill", "decoding"}
         /\ active_requests[h].engine_url \in Engines
         /\ h \notin CompletedOn(active_requests[h].engine_url)
         /\ LedgerLinked'
         /\ \A e \in Engines :
              /\ InStage("prefill", e)' = InStage("prefill", e) \ {h}
              /\ InStage("decoding", e)' = InStage("decoding", e) \ {h}
              /\ CompletedOn(e)' = IF o = "complete" /\ e = active_requests[h].engine_url
                                   THEN CompletedOn(e) \cup {h} ELSE CompletedOn(e)
<1> DEFINE r == active_requests[h]
<1>1. PICK g \in HistoryRecord :
              /\ active_requests' = [active_requests EXCEPT ![h] = NoRequest]
              /\ history' = [history EXCEPT ![h] = g]
              /\ g.outcome = o
              /\ g.engine_url = history[h].engine_url
  BY FinalizeEffect, SMT DEF LedgerInv
<1>2. /\ r \in ActiveRequest /\ h \in Active /\ r.engine_url \in Engines
      /\ r.stage \in {"prefill", "decoding"}
  BY FinalizeEffect DEF LedgerInv, Active, ActiveRequest
<1>3. /\ \A x \in Handles : /\ active_requests'[x] = IF x = h THEN NoRequest ELSE active_requests[x]
                            /\ history'[x] = IF x = h THEN g ELSE history[x]
  BY <1>1 DEF LedgerInv, StatsTypeOK
<1>4. Active' = Active \ {h}
  BY <1>3 DEF Active
<1>5. history[h].outcome = "open" /\ history[h].engine_url = r.engine_url
  BY <1>2 DEF LedgerInv, LedgerLinked
<1>6. \A e \in Engines :
        /\ InStage("prefill", e)' = InStage("prefill", e) \ {h}
        /\ InStage("decoding", e)' = InStage("decoding", e) \ {h}
  <2>1. \A x \in Active : x # h => active_requests'[x] = active_requests[x]
    BY <1>3 DEF Active
  <2> QED
    BY <1>4, <2>1 DEF InStage
<1>7. /\ h \notin CompletedOn(r.engine_url)
      /\ \A e \in Engines : CompletedOn(e)' = IF o = "complete" /\ e = r.engine_url
                                              THEN CompletedOn(e) \cup {h} ELSE CompletedOn(e)
  BY <1>1, <1>3, <1>5, SMT DEF CompletedOn
<1>8. now' = now /\ next_handle' = next_handle
  BY DEF finalize_request, statsVars
<1>9. LedgerLinked'
  <2>1. o # "open" /\ o # "none"
    BY DEF Outcomes
  <2> QED
    BY <1>1, <1>3, <1>4, <1>5, <1>8, <2>1, ZenonT(40) DEF LedgerLinked, LedgerInv
<1> QED
  BY <1>2, <1>6, <1>7, <1>9 DEF InStage

\* The counts, as functions of the counted sets.
Counted ==
  \A e \in Engines :
    /\ in_prefill_requests[e] = Cardinality(InStage("prefill", e))
    /\ in_decoding_requests[e] = Cardinality(InStage("decoding", e))
    /\ finished_requests[e] = Cardinality(CompletedOn(e))

LEMMA CountedIsExact ==
  ASSUME LedgerLinked
  PROVE  Counted <=> CountsMatch /\ FinishedExact
BY DEF Counted, CountsMatch, FinishedExact, CompletedOn, LedgerLinked

LEMMA NewRequestCounts ==
  ASSUME LedgerInv, NEW u \in Engines, on_new_request(u)
  PROVE  LedgerLinked' /\ Counted'
<1>1. Counted
  BY CountedIsExact DEF LedgerInv
<1>2. /\ next_handle \in Handles /\ next_handle \notin Active
      /\ LedgerLinked'
      /\ \A e \in Engines :
              /\ InStage("prefill", e)' = IF e = u THEN InStage("prefill", e) \cup {next_handle}
                                                   ELSE InStage("prefill", e)
              /\ InStage("decoding", e)' = InStage("decoding", e)
              /\ CompletedOn(e)' = CompletedOn(e)
  BY NewRequestSets
<1>3. Cardinality(InStage("prefill", u) \cup {next_handle}) = Cardinality(InStage("prefill", u)) + 1
  <2>1. next_handle \notin InStage("prefill", u)
    BY <1>2 DEF InStage
  <2> QED
    BY <1>2, <2>1, CountAdd, InStageFinite
<1>4. \A e \in Engines : /\ in_prefill_requests'[e] = in_prefill_requests[e] + (IF e = u THEN 1 ELSE 0)
                         /\ in_decoding_requests'[e] = in_decoding_requests[e]
                         /\ finished_requests'[e] = finished_requests[e]
  BY SMTT(30) DEF on_new_request, LedgerInv, StatsTypeOK
<1>5. \A e \in Engines : in_prefill_requests[e] \in Nat
  BY DEF LedgerInv, StatsTypeOK
<1>6. ASSUME NEW e \in Engines
      PROVE  /\ in_prefill_requests'[e] = Cardinality(InStage("prefill", e)')
             /\ in_decoding_requests'[e] = Cardinality(InStage("decoding", e)')
             /\ finished_requests'[e] = Cardinality(CompletedOn(e)')
  <2>1. CASE e = u
    BY <1>1, <1>2, <1>3, <1>4, <1>5, <2>1 DEF Counted
  <2>2. CASE e # u
    BY <1>1, <1>2, <1>4, <1>5, <2>2, SMT DEF Counted
  <2> QED
    BY <2>1, <2>2
<1> QED
  BY <1>2, <1>6 DEF Counted

LEMMA ResponseCounts ==
  ASSUME LedgerInv, NEW h \in Handles, on_request_response(h), statsVars' # statsVars
  PROVE  LedgerLinked' /\ Counted'
<1> DEFINE u == active_requests[h].engine_url
<1>1. Counted
  BY CountedIsExact DEF LedgerInv
<1>2. /\ h \in InStage("prefill", u)
      /\ LedgerLinked'
      /\ \A e \in Engines :
              /\ InStage("prefill", e)' = InStage("prefill", e) \ {h}
              /\ InStage("decoding", e)' = IF e = u THEN InStage("decoding", e) \cup {h}
                                                    ELSE InStage("decoding", e)
              /\ CompletedOn(e)' = CompletedOn(e)
  BY ResponseSets
<1>3. u \in Engines
  BY ResponseEffect DEF LedgerInv, ActiveRequest
<1>4. Cardinality(InStage("prefill", u) \ {h}) = Cardinality(InStage("prefill", u)) - 1
  BY <1>2, CountRemove, InStageFinite
<1>5. \A e \in Engines : e # u => InStage("prefill", e) \ {h} = InStage("prefill", e)
  BY DEF InStage
<1>6. Cardinality(InStage("decoding", u) \cup {h}) = Cardinality(InStage("decoding", u)) + 1
  <2>1. h \notin InStage("decoding", u)
    BY <1>2 DEF InStage
  <2> QED
    BY <2>1, CountAdd, InStageFinite
<1>7. /\ in_prefill_requests' = [in_prefill_requests EXCEPT ![u] = in_prefill_requests[u] - 1]
      /\ in_decoding_requests' = [in_decoding_requests EXCEPT ![u] = in_decoding_requests[u] + 1]
      /\ finished_requests' = finished_requests
  BY DEF on_request_response, statsVars
<1>8. /\ in_prefill_requests \in [Engines -> Nat]
      /\ in_decoding_requests \in [Engines -> Nat]
  BY DEF LedgerInv, StatsTypeOK
<1> HIDE DEF u
<1> QED
  BY <1>1, <1>2, <1>3, <1>4, <1>5, <1>6, <1>7, <1>8 DEF Counted

LEMMA FinalizeCounts ==
  ASSUME LedgerInv, NEW h \in Handles, NEW o \in Outcomes, finalize_request(h, o),
         statsVars' # statsVars
  PROVE  LedgerLinked' /\ Counted'
<1> DEFINE r == active_requests[h]
           u == active_requests[h].engine_url
<1>1. Counted
  BY CountedIsExact DEF LedgerInv
<1>2. /\ h \in InStage(r.stage, u) /\ h \notin CompletedOn(u)
      /\ u \in Engines /\ r.stage \in {"prefill", "decoding"}
      /\ LedgerLinked'
      /\ \A e \in Engines :
              /\ InStage("prefill", e)' = InStage("prefill", e) \ {h}
              /\ InStage("decoding", e)' = InStage("decoding", e) \ {h}
              /\ CompletedOn(e)' = IF o = "complete" /\ e = u
                                   THEN CompletedOn(e) \cup {h} ELSE CompletedOn(e)
  BY FinalizeSets
<1>3. /\ Cardinality(InStage(r.stage, u) \ {h}) = Cardinality(InStage(r.stage, u)) - 1
      /\ Cardinality(InStage(r.stage, u)) > 0
  BY <1>2, CountRemove, InStageFinite
<1>4. \A s \in {"prefill", "decoding"}, e \in Engines :
        s # r.stage \/ e # u => InStage(s, e) \ {h} = InStage(s, e)
  BY DEF InStage
<1>5. Cardinality(CompletedOn(u) \cup {h}) = Cardinality(CompletedOn(u)) + 1
  <2>1. CompletedOn(u) \in SUBSET Handles
    BY DEF CompletedOn
  <2> QED
    BY <1>2, <2>1, CountAdd
<1>6. r # NoRequest
  BY FinalizeEffect DEF LedgerInv
<1>7. /\ in_prefill_requests' = IF r.stage = "prefill" THEN Decrement(in_prefill_requests, u)
                                                       ELSE in_prefill_requests
      /\ in_decoding_requests' = IF r.stage = "prefill" THEN in_decoding_requests
                                 ELSE Decrement(in_decoding_requests, u)
      /\ finished_requests' = IF o = "complete"
                              THEN [finished_requests EXCEPT ![u] = finished_requests[u] + 1]
                              ELSE finished_requests
  BY <1>6 DEF finalize_request
<1>8. /\ in_prefill_requests \in [Engines -> Nat]
      /\ in_decoding_requests \in [Engines -> Nat]
      /\ finished_requests \in [Engines -> Nat]
  BY DEF LedgerInv, StatsTypeOK
<1> HIDE DEF r, u
<1>9. \A e \in Engines : finished_requests'[e] = Cardinality(CompletedOn(e)')
  BY <1>1, <1>2, <1>5, <1>7, <1>8 DEF Counted
<1>10. CASE r.stage = "prefill"
  <2>1. in_prefill_requests[u] > 0 /\ in_decoding_requests' = in_decoding_requests
    BY <1>1, <1>2, <1>3, <1>7, <1>10 DEF Counted
  <2>2. \A e \in Engines :
          in_prefill_requests'[e] = IF e = u THEN in_prefill_requests[e] - 1 ELSE in_prefill_requests[e]
    BY <1>2, <1>7, <1>8, <1>10, <2>1, SMT DEF Decrement
  <2>3. ASSUME NEW e \in Engines
        PROVE  /\ in_prefill_requests'[e] = Cardinality(InStage("prefill", e)')
               /\ in_decoding_requests'[e] = Cardinality(InStage("decoding", e)')
    <3>1. InStage("prefill", e)' = InStage("prefill", e) \ {h} /\ InStage("decoding", e)' = InStage("decoding", e)
      BY SMTT(30), <1>2, <1>4, <1>10
    <3>2. /\ in_prefill_requests[e] = Cardinality(InStage("prefill", e))
          /\ in_decoding_requests[e] = Cardinality(InStage("decoding", e))
      BY SMTT(30), <1>1 DEF Counted
    <3>3. CASE e = u
      BY SMTT(30), <1>3, <1>10, <2>1, <2>2, <3>1, <3>2, <3>3
    <3>4. CASE e # u
      <4>1. InStage("prefill", e) \ {h} = InStage("prefill", e)
        BY SMTT(30), <1>4, <3>4
      <4> QED
        BY <2>1, <2>2, <3>1, <3>2, <3>4, <4>1
    <3> QED
      BY <3>3, <3>4
  <2> QED
    BY <1>2, <1>9, <2>3 DEF Counted
<1>11. CASE r.stage = "decoding"
  <2>1. in_decoding_requests[u] > 0 /\ in_prefill_requests' = in_prefill_requests
    BY SMTT(30), <1>1, <1>2, <1>3, <1>7, <1>11 DEF Counted
  <2>2. \A e \in Engines :
          in_decoding_requests'[e] = IF e = u THEN in_decoding_requests[e] - 1 ELSE in_decoding_requests[e]
    BY SMTT(30), <1>2, <1>7, <1>8, <1>11, <2>1 DEF Decrement
  <2>3. ASSUME NEW e \in Engines
        PROVE  /\ in_decoding_requests'[e] = Cardinality(InStage("decoding", e)')
               /\ in_prefill_requests'[e] = Cardinality(InStage("prefill", e)')
    <3>1. InStage("decoding", e)' = InStage("decoding", e) \ {h} /\ InStage("prefill", e)' = InStage("prefill", e)
      BY SMTT(30), <1>2, <1>4, <1>11
    <3>2. /\ in_decoding_requests[e] = Cardinality(InStage("decoding", e))
          /\ in_prefill_requests[e] = Cardinality(InStage("prefill", e))
      BY SMTT(30), <1>1 DEF Counted
    <3>3. CASE e = u
      BY SMTT(30), <1>3, <1>11, <2>1, <2>2, <3>1, <3>2, <3>3
    <3>4. CASE e # u
      <4>1. InStage("decoding", e) \ {h} = InStage("decoding", e)
        BY <1>4, <3>4
      <4> QED
        BY <2>1, <2>2, <3>1, <3>2, <3>4, <4>1
    <3> QED
      BY <3>3, <3>4
  <2> QED
    BY SMTT(30), <1>2, <1>9, <2>3 DEF Counted
<1> QED
  BY <1>2, <1>10, <1>11

\* The invariant is inductive.
LEMMA LedgerInvInductive ==
  ASSUME LedgerInv, [StatsNext]_statsVars
  PROVE  LedgerInv'
<1>1. StatsTypeOK'
  BY StepTyped DEF LedgerInv
<1> DEFINE Same == UNCHANGED <<next_handle, active_requests, in_prefill_requests,
                               in_decoding_requests, finished_requests, history>>
<1>2. ASSUME Same, now' >= now PROVE LedgerInv'
  <2>1. \A h \in Active : active_requests[h].start_time \in Int /\ now \in Int /\ now' \in Int
    BY <1>1, SMT DEF LedgerInv, StatsTypeOK, Active, ActiveRequest, Time
  <2>2. LedgerLinked'
    BY <1>2, <2>1, SMT DEF LedgerInv, LedgerLinked, Active
  <2>3. CountsMatch' /\ FinishedExact'
    BY <1>2, ZenonT(40) DEF LedgerInv, CountsMatch, FinishedExact, InStage, Active
  <2> QED
    BY <1>1, <2>2, <2>3 DEF LedgerInv
<1>3. ASSUME LedgerLinked', Counted' PROVE LedgerInv'
  <2>1. CountsMatch' /\ FinishedExact'
    BY <1>3 DEF Counted, CountsMatch, FinishedExact, CompletedOn, LedgerLinked
  <2> QED
    BY <1>1, <1>3, <2>1 DEF LedgerInv
<1>4. now \in Nat
  BY SMT DEF LedgerInv, StatsTypeOK, Time
<1>5. ASSUME NEW u \in Engines, on_new_request(u) PROVE LedgerInv'
  BY <1>3, <1>5, NewRequestCounts
<1>6. ASSUME NEW u \in Engines, on_request_swapped(u) PROVE LedgerInv'
  BY <1>2, <1>4, <1>6, SMT DEF on_request_swapped
<1>7. ASSUME UNCHANGED statsVars PROVE LedgerInv'
  BY <1>2, <1>4, <1>7, SMT DEF statsVars
<1>8. ASSUME NEW h \in Handles, on_request_response(h) PROVE LedgerInv'
  BY <1>3, <1>7, <1>8, ResponseCounts
<1>9. ASSUME NEW h \in Handles, NEW o \in Outcomes, finalize_request(h, o) PROVE LedgerInv'
  BY <1>3, <1>7, <1>9, FinalizeCounts
<1>10. ASSUME get_request_stats PROVE LedgerInv'
  BY <1>2, <1>4, <1>10, SMT DEF get_request_stats
<1>11. ASSUME Tick PROVE LedgerInv'
  BY <1>2, <1>4, <1>11, SMT DEF Tick
<1> QED
  BY <1>5, <1>6, <1>7, <1>8, <1>9, <1>10, <1>11
     DEF StatsNext, on_request_complete, on_request_fail, on_request_abort, Outcomes

LEMMA LedgerInvInit == StatsInit => LedgerInv
<1> SUFFICES ASSUME StatsInit PROVE LedgerInv
  OBVIOUS
<1>1. StatsTypeOK /\ LedgerLinked
  BY InitTyped
<1>2. \A s, e : InStage(s, e) = {}
  BY DEF StatsInit, InStage, Active
<1>3. \A e \in Engines : CompletedOn(e) = {}
  BY DEF StatsInit, CompletedOn
<1>4. Cardinality({}) = 0
  BY FS_EmptySet
<1>5. Counted
  BY <1>2, <1>3, <1>4 DEF StatsInit, Counted
<1> QED
  BY <1>1, <1>5, CountedIsExact DEF LedgerInv

\* In every execution, for every number of engines and handles and every order
\* of hook calls, the inductive invariant holds.
THEOREM LedgerInvariant == StatsSpec => []LedgerInv
<1>1. StatsInit => LedgerInv
  BY LedgerInvInit
<1>2. LedgerInv /\ [StatsNext]_statsVars => LedgerInv'
  BY LedgerInvInductive
<1> QED
  BY <1>1, <1>2, PTL DEF StatsSpec

\* The monitor's dictionaries and deques always hold values of their types.
THEOREM TypeCorrect == StatsSpec => []StatsTypeOK
<1>1. LedgerInv => StatsTypeOK
  BY DEF LedgerInv
<1> QED
  BY <1>1, LedgerInvariant, PTL

\* The in-flight gauges are exact: the count of an engine in a stage is the
\* number of live attempts in that stage on it, and finished_requests counts
\* each completed attempt once.
THEOREM CountsExact == StatsSpec => [](CountsMatch /\ FinishedExact)
<1>1. LedgerInv => CountsMatch /\ FinishedExact
  BY DEF LedgerInv
<1> QED
  BY <1>1, LedgerInvariant, PTL

-----------------------------------------------------------------------------
(* The refinement of the abstract ledger. *)

\* The abstract figures are the concrete ones, read through the mapping.
LEMMA MappedExact == LedgerInv => Ledger!Exact
<1> SUFFICES ASSUME LedgerInv PROVE Ledger!Exact
  OBVIOUS
<1> DEFINE Mapped(s, e) ==
      {h \in Handles : [x \in Handles |-> StageOf(x)][h] = s
                         /\ [x \in Handles |-> history[x].engine_url][h] = e}
<1>1. \A h \in Handles : history[h].outcome \in {"none", "open"} \cup Outcomes
  BY DEF LedgerInv, StatsTypeOK, HistoryRecord
<1>2. \A h \in Active : active_requests[h].stage \in {"prefill", "decoding"}
  BY DEF LedgerInv, StatsTypeOK, Active, ActiveRequest
<1>3. \A h \in Handles : /\ StageOf(h) = "prefill" <=> h \in Active /\ active_requests[h].stage = "prefill"
                         /\ StageOf(h) = "decoding" <=> h \in Active /\ active_requests[h].stage = "decoding"
                         /\ StageOf(h) = "completed" <=> history[h].outcome = "complete"
  BY SMTT(30), <1>1, <1>2 DEF StageOf, LedgerInv, LedgerLinked, Outcomes
<1>4. \A e : /\ Mapped("prefill", e) = InStage("prefill", e)
             /\ Mapped("decoding", e) = InStage("decoding", e)
             /\ Mapped("completed", e) = CompletedOn(e)
  BY <1>3 DEF InStage, CompletedOn, LedgerInv, LedgerLinked, Active
<1> HIDE DEF Mapped
<1>5. Counted
  BY CountedIsExact DEF LedgerInv
<1>6. /\ in_prefill_requests = [e \in Engines |-> Cardinality(Mapped("prefill", e))]
      /\ in_decoding_requests = [e \in Engines |-> Cardinality(Mapped("decoding", e))]
      /\ finished_requests = [e \in Engines |-> Cardinality(Mapped("completed", e))]
  BY <1>4, <1>5 DEF Counted, LedgerInv, StatsTypeOK
<1>7. \A S : Ledger!Cardinality(S) = Cardinality(S)
  BY DEF Ledger!Cardinality, Cardinality
<1> QED
  BY <1>6, <1>7 DEF Ledger!Exact, Ledger!Count, Mapped

\* The stages and engines the mapping assigns to the attempts.
MappedStage == [h \in Handles |-> StageOf(h)]

MappedEngine == [h \in Handles |-> history[h].engine_url]

\* A method that leaves the records and figures alone maps to a stutter.
LEMMA MappedStutter ==
  ASSUME UNCHANGED <<active_requests, in_prefill_requests, in_decoding_requests,
                     finished_requests, history>>
  PROVE  UNCHANGED <<MappedStage, MappedEngine, in_prefill_requests, in_decoding_requests,
                     finished_requests>>
BY DEF MappedStage, MappedEngine, StageOf

LEMMA MappedBegin ==
  ASSUME LedgerInv, NEW u \in Engines, on_new_request(u)
  PROVE  /\ next_handle \in Handles
         /\ MappedStage[next_handle] = "new"
         /\ MappedStage' = [MappedStage EXCEPT ![next_handle] = "prefill"]
         /\ MappedEngine' = [MappedEngine EXCEPT ![next_handle] = u]
<1>0. PICK h \in Handles : h = next_handle
  BY SMTT(30) DEF LedgerInv, StatsTypeOK, on_new_request, Handles
<1> DEFINE a == [stage |-> "prefill", engine_url |-> u, start_time |-> now]
           g == [engine_url |-> u, start |-> now, first |-> NoTime, outcome |-> "open"]
<1>1. h \in Handles /\ history[h].outcome = "none"
  <2>1. h >= next_handle
    BY <1>0, SMT DEF Handles
  <2> QED
    BY <1>0, <2>1 DEF LedgerInv, LedgerLinked
<1>2. \A x \in Handles : /\ active_requests'[x] = IF x = h THEN a ELSE active_requests[x]
                         /\ history'[x] = IF x = h THEN g ELSE history[x]
  BY <1>0 DEF LedgerInv, StatsTypeOK, on_new_request
<1>3. StageOf(h) = "new"
  BY <1>1 DEF StageOf
<1>4. active_requests'[h].stage = "prefill" /\ history'[h].outcome = "open" /\ history'[h].engine_url = u
  <2>1. a.stage = "prefill" /\ g.outcome = "open" /\ g.engine_url = u
    OBVIOUS
  <2> HIDE DEF a, g
  <2> QED
    BY <1>2, <2>1
<1>5. StageOf(h)' = "prefill"
  BY <1>4 DEF StageOf
<1>6. \A x \in Handles : x # h => StageOf(x)' = StageOf(x) /\ history'[x] = history[x]
  BY <1>2 DEF StageOf
<1> QED
  BY <1>0, <1>1, <1>3, <1>4, <1>5, <1>6 DEF MappedStage, MappedEngine

LEMMA MappedFirstToken ==
  ASSUME LedgerInv, NEW h \in Handles, on_request_response(h), statsVars' # statsVars
  PROVE  /\ MappedStage[h] = "prefill"
         /\ MappedStage' = [MappedStage EXCEPT ![h] = "decoding"]
         /\ MappedEngine' = MappedEngine
<1>1. PICK a \in ActiveRequest, g \in HistoryRecord :
              /\ active_requests' = [active_requests EXCEPT ![h] = a]
              /\ a.stage = "decoding"
              /\ history' = [history EXCEPT ![h] = g]
              /\ g.outcome = history[h].outcome
              /\ g.engine_url = history[h].engine_url
  BY ResponseEffect, SMT DEF LedgerInv
<1>2. active_requests[h].stage = "prefill" /\ history[h].outcome = "open"
  BY ResponseEffect DEF LedgerInv, LedgerLinked, Active
<1>3. \A x \in Handles : /\ active_requests'[x] = IF x = h THEN a ELSE active_requests[x]
                         /\ history'[x] = IF x = h THEN g ELSE history[x]
  BY <1>1 DEF LedgerInv, StatsTypeOK
<1>4. StageOf(h) = "prefill"
  BY <1>2 DEF StageOf
<1>5. active_requests'[h].stage = "decoding" /\ history'[h].outcome = "open"
  BY <1>1, <1>2, <1>3
<1>6. StageOf(h)' = "decoding"
  BY <1>5 DEF StageOf
<1>7. \A x \in Handles : x # h => StageOf(x)' = StageOf(x)
  BY <1>3 DEF StageOf
<1>8. \A x \in Handles : history'[x].engine_url = history[x].engine_url
  BY <1>1, <1>3
<1> QED
  BY <1>4, <1>6, <1>7, <1>8 DEF MappedStage, MappedEngine

LEMMA MappedRetire ==
  ASSUME LedgerInv, NEW h \in Handles, NEW o \in Outcomes, finalize_request(h, o),
         statsVars' # statsVars
  PROVE  /\ MappedStage[h] \in {"prefill", "decoding"}
         /\ \/ MappedStage' = [MappedStage EXCEPT ![h] = "completed"]
            \/ MappedStage' = [MappedStage EXCEPT ![h] = "dropped"]
         /\ MappedEngine' = MappedEngine
<1>1. PICK g \in HistoryRecord :
              /\ active_requests' = [active_requests EXCEPT ![h] = NoRequest]
              /\ history' = [history EXCEPT ![h] = g]
              /\ g.outcome = o
              /\ g.engine_url = history[h].engine_url
  BY FinalizeEffect, SMT DEF LedgerInv
<1>2. active_requests[h].stage \in {"prefill", "decoding"} /\ history[h].outcome = "open"
  BY FinalizeEffect DEF LedgerInv, LedgerLinked, Active, ActiveRequest
<1>3. \A x \in Handles : /\ x # h => active_requests'[x] = active_requests[x]
                         /\ history'[x] = IF x = h THEN g ELSE history[x]
  BY <1>1 DEF LedgerInv, StatsTypeOK
<1>4. StageOf(h) \in {"prefill", "decoding"}
  BY <1>2 DEF StageOf
<1>5. history'[h].outcome \in Outcomes
  BY <1>1, <1>3
<1>6. StageOf(h)' \in {"completed", "dropped"}
  BY <1>5 DEF StageOf, Outcomes
<1>7. \A x \in Handles : x # h => StageOf(x)' = StageOf(x)
  BY <1>3 DEF StageOf
<1>8. \A x \in Handles : history'[x].engine_url = history[x].engine_url
  BY <1>1, <1>3
<1> QED
  BY <1>4, <1>6, <1>7, <1>8 DEF MappedStage, MappedEngine

\* Every method call is a move of the abstract ledger or a stutter.
LEMMA MappedStep ==
  ASSUME LedgerInv, [StatsNext]_statsVars, Ledger!Exact'
  PROVE  [Ledger!Next]_<<MappedStage, MappedEngine, in_prefill_requests,
                         in_decoding_requests, finished_requests>>
<1> USE DEF MappedStage, MappedEngine
<1>1. ASSUME NEW u \in Engines, on_new_request(u) PROVE Ledger!Next
  <2>1. PICK h \in Handles : h = next_handle
    BY <1>1, MappedBegin
  <2>2. Ledger!Begin(h)
    BY <1>1, <2>1, MappedBegin DEF Ledger!Begin, Ledger!Move
  <2> QED
    BY <2>2 DEF Ledger!Next
<1>2. ASSUME NEW h \in Handles, on_request_response(h), statsVars' # statsVars PROVE Ledger!Next
  <2>1. Ledger!FirstToken(h)
    BY <1>2, MappedFirstToken DEF Ledger!FirstToken, Ledger!Move
  <2> QED
    BY <2>1 DEF Ledger!Next
<1>3. ASSUME NEW h \in Handles, NEW o \in Outcomes, finalize_request(h, o), statsVars' # statsVars
      PROVE  Ledger!Next
  <2>1. Ledger!Retire(h)
    BY <1>3, MappedRetire DEF Ledger!Retire, Ledger!Move
  <2> QED
    BY SMTT(30), <2>1 DEF Ledger!Next
<1> HIDE DEF MappedStage, MappedEngine
<1>4. ASSUME \/ \E u \in Engines : on_request_swapped(u)
             \/ get_request_stats
             \/ Tick
             \/ UNCHANGED statsVars
      PROVE  UNCHANGED <<MappedStage, MappedEngine, in_prefill_requests, in_decoding_requests,
                         finished_requests>>
  BY <1>4, MappedStutter DEF on_request_swapped, get_request_stats, Tick, statsVars
<1> QED
  BY <1>1, <1>2, <1>3, <1>4
     DEF StatsNext, on_request_complete, on_request_fail, on_request_abort, Outcomes

\* The monitor implements the abstract ledger, for every number of engines and
\* handles.
THEOREM LedgerRefinement == StatsSpec => ImplementsLedger
<1>1. StatsInit => Ledger!Init
  <2> SUFFICES ASSUME StatsInit PROVE Ledger!Init
    OBVIOUS
  <2>1. Ledger!Exact
    BY LedgerInvInit, MappedExact
  <2>2. \A h \in Handles : history[h].outcome = "none"
    BY DEF StatsInit
  <2>3. \A h \in Handles : StageOf(h) = "new"
    BY <2>2 DEF StageOf
  <2> QED
    BY <2>1, <2>3 DEF Ledger!Init
<1>2. LedgerInv /\ [StatsNext]_statsVars /\ Ledger!Exact' =>
        [Ledger!Next]_<<MappedStage, MappedEngine, in_prefill_requests,
                        in_decoding_requests, finished_requests>>
  BY MappedStep
<1>3. StatsSpec => []LedgerInv
  BY LedgerInvariant
<1>4. LedgerInv => Ledger!Exact
  BY MappedExact
<1> QED
  BY <1>1, <1>2, <1>3, <1>4, PTL
     DEF StatsSpec, ImplementsLedger, Ledger!Spec, MappedStage, MappedEngine

\* A retired attempt keeps its outcome, whatever hooks are called later.
THEOREM OutcomesFinal == StatsSpec => OutcomeIsFinal
<1>1. ASSUME LedgerInv, [StatsNext]_statsVars, NEW x \in Handles, history[x].outcome \in Outcomes
      PROVE  history'[x] = history[x]
  <2>1. x \notin Active /\ x # next_handle
    <3>1. x \in Active <=> history[x].outcome = "open"
      BY <1>1 DEF LedgerInv, LedgerLinked
    <3>2. history[x].outcome = "none" <=> x >= next_handle
      BY <1>1 DEF LedgerInv, LedgerLinked
    <3>3. history[x].outcome # "open" /\ history[x].outcome # "none"
      BY <1>1 DEF Outcomes
    <3>4. x \in Nat
      BY SMT DEF Handles
    <3> QED
      BY <3>1, <3>2, <3>3, <3>4, SMT
  <2>2. ASSUME NEW u \in Engines, on_new_request(u) PROVE history'[x] = history[x]
    BY <1>1, <2>1, <2>2 DEF on_new_request, LedgerInv, StatsTypeOK
  <2>3. ASSUME NEW h \in Handles, on_request_response(h) PROVE history'[x] = history[x]
    BY SMTT(30), <1>1, <2>1, <2>3, ResponseEffect DEF LedgerInv, StatsTypeOK, statsVars, Active
  <2>4. ASSUME NEW h \in Handles, NEW o \in Outcomes, finalize_request(h, o)
        PROVE  history'[x] = history[x]
    BY SMTT(30), <1>1, <2>1, <2>4, FinalizeEffect DEF LedgerInv, StatsTypeOK, statsVars, Active
  <2>5. ASSUME \/ \E u \in Engines : on_request_swapped(u)
               \/ get_request_stats
               \/ Tick
               \/ UNCHANGED statsVars
        PROVE  history' = history
    BY <2>5 DEF on_request_swapped, get_request_stats, Tick, statsVars
  <2> QED
    BY SMTT(30), <1>1, <2>2, <2>3, <2>4, <2>5
       DEF StatsNext, on_request_complete, on_request_fail, on_request_abort, Outcomes
<1>2. LedgerInv /\ [StatsNext]_statsVars =>
        [\A h \in Handles : history[h].outcome \in Outcomes => history'[h] = history[h]]_statsVars
  BY <1>1
<1> QED
  BY <1>2, LedgerInvariant, PTL DEF StatsSpec, OutcomeIsFinal

\* The finished count of an engine is the number of its attempts that completed: no
\* failed, aborted or repeated call of a hook is counted (_finalize_request).
THEOREM FinishedCount == StatsSpec => []FinishedExact
<1>1. LedgerInv => FinishedExact
  BY DEF LedgerInv
<1> QED
  BY <1>1, LedgerInvariant, PTL

-----------------------------------------------------------------------------
(* The windows of the reported figures *)

\* The samples of an attempt, as its auxiliary record has them.
Begun(h) == [handle |-> h, timestamp |-> history[h].start, value |-> 1]

FirstToken(h) == [handle |-> h, timestamp |-> history[h].first,
                  value |-> history[h].first - history[h].start]

Recent(t) == t # NoTime /\ t >= now - sliding_window_size

\* A monitor holds only samples of attempts on its engine, and all recent ones.
QpsKept ==
  \A e \in Engines :
    /\ \A s \in qps_monitors[e] : \E h \in Handles :
         history[h].engine_url = e /\ history[h].start # NoTime /\ s = Begun(h)
    /\ \A h \in Handles :
         history[h].engine_url = e /\ Recent(history[h].start) => Begun(h) \in qps_monitors[e]

TtftKept ==
  \A e \in Engines :
    /\ \A s \in ttft_monitors[e] : \E h \in Handles :
         history[h].engine_url = e /\ history[h].first # NoTime /\ s = FirstToken(h)
    /\ \A h \in Handles :
         history[h].engine_url = e /\ Recent(history[h].first) => FirstToken(h) \in ttft_monitors[e]

\* The times in the record of an active attempt are those of its auxiliary record.
TimesLinked ==
  \A h \in Handles :
    /\ h \in Active => /\ history[h].start = active_requests[h].start_time
                       /\ active_requests[h].stage = "prefill" => history[h].first = NoTime
    /\ history[h].outcome = "none" => history[h].start = NoTime /\ history[h].first = NoTime

WindowInv == LedgerInv /\ TimesLinked /\ QpsKept /\ TtftKept

\* The times of the auxiliary record under its two updates.
LEMMA TimesUpdate ==
  \A x \in HistoryRecord :
    /\ \A o \in Outcomes : LET y == [x EXCEPT !.outcome = o] IN
         y.outcome = o /\ y.engine_url = x.engine_url /\ y.start = x.start /\ y.first = x.first
    /\ \A t \in Time : LET y == [x EXCEPT !.first = t] IN
         y.outcome = x.outcome /\ y.engine_url = x.engine_url /\ y.start = x.start /\ y.first = t
BY DEF HistoryRecord

\* The clock and the recorded times are numbers.
LEMMA TimesTyped ==
  ASSUME StatsTypeOK
  PROVE  /\ now \in Int /\ sliding_window_size \in Int
         /\ \A h \in Handles : /\ history[h] \in HistoryRecord
                               /\ history[h].start \in Int /\ history[h].first \in Int
<1>1. now \in Time /\ \A h \in Handles : history[h] \in HistoryRecord
  BY DEF StatsTypeOK
<1>2. \A x \in HistoryRecord : x.start \in Time \cup {NoTime} /\ x.first \in Time \cup {NoTime}
  BY DEF HistoryRecord
<1>3. \A t \in Time \cup {NoTime} : t \in Int
  BY SMT DEF Time, NoTime
<1> QED
  BY <1>1, <1>2, <1>3, SMT

\* The recorded beginnings and first tokens of all attempts stay as they are.
SameTimes ==
  \A h \in Handles : /\ history'[h].engine_url = history[h].engine_url
                     /\ history'[h].start = history[h].start
                     /\ history'[h].first = history[h].first

\* Monitors that only drop what is too old, at a time that is not earlier.
Slides(old, new) ==
  \A e \in Engines :
    /\ new[e] \subseteq old[e]
    /\ \A s \in old[e] : ~(s.timestamp < now' - sliding_window_size) => s \in new[e]

LEMMA QpsSlides ==
  ASSUME StatsTypeOK, QpsKept, SameTimes, now' \in Int, now <= now',
         Slides(qps_monitors, qps_monitors')
  PROVE  QpsKept'
<1>1. /\ now \in Int /\ sliding_window_size \in Int
      /\ \A h \in Handles : history[h].start \in Int
  BY TimesTyped
<1>2. \A h \in Handles : Begun(h)' = Begun(h) /\ Begun(h).timestamp = history[h].start
  BY DEF SameTimes, Begun
<1>3. \A h \in Handles : Recent(history[h].start)' =>
        Recent(history[h].start) /\ ~(history[h].start < now' - sliding_window_size)
  BY <1>1, SMT DEF Recent, SameTimes
<1>4. ASSUME NEW e \in Engines, NEW s \in qps_monitors'[e]
      PROVE  \E h \in Handles :
               (history[h].engine_url = e /\ history[h].start # NoTime)' /\ s = Begun(h)'
  <2>1. s \in qps_monitors[e]
    BY <1>4 DEF Slides
  <2>2. PICK h \in Handles : history[h].engine_url = e /\ history[h].start # NoTime /\ s = Begun(h)
    BY <2>1 DEF QpsKept
  <2> QED
    BY <1>2, <2>2 DEF SameTimes
<1>5. ASSUME NEW e \in Engines, NEW h \in Handles,
             (history[h].engine_url = e /\ Recent(history[h].start))'
      PROVE  Begun(h)' \in qps_monitors'[e]
  <2>1. history[h].engine_url = e /\ Recent(history[h].start)
    BY <1>3, <1>5 DEF SameTimes
  <2>2. Begun(h) \in qps_monitors[e] /\ ~(Begun(h).timestamp < now' - sliding_window_size)
    BY <1>2, <1>3, <1>5, <2>1 DEF QpsKept
  <2> QED
    BY <1>2, <2>2 DEF Slides
<1> QED
  BY <1>4, <1>5 DEF QpsKept

LEMMA TtftSlides ==
  ASSUME StatsTypeOK, TtftKept, SameTimes, now' \in Int, now <= now',
         Slides(ttft_monitors, ttft_monitors')
  PROVE  TtftKept'
<1>1. /\ now \in Int /\ sliding_window_size \in Int
      /\ \A h \in Handles : history[h].first \in Int
  BY TimesTyped
<1>2. \A h \in Handles : FirstToken(h)' = FirstToken(h) /\ FirstToken(h).timestamp = history[h].first
  BY DEF SameTimes, FirstToken
<1>3. \A h \in Handles : Recent(history[h].first)' =>
        Recent(history[h].first) /\ ~(history[h].first < now' - sliding_window_size)
  BY <1>1, SMT DEF Recent, SameTimes
<1>4. ASSUME NEW e \in Engines, NEW s \in ttft_monitors'[e]
      PROVE  \E h \in Handles :
               (history[h].engine_url = e /\ history[h].first # NoTime)' /\ s = FirstToken(h)'
  <2>1. s \in ttft_monitors[e]
    BY <1>4 DEF Slides
  <2>2. PICK h \in Handles :
          history[h].engine_url = e /\ history[h].first # NoTime /\ s = FirstToken(h)
    BY <2>1 DEF TtftKept
  <2> QED
    BY <1>2, <2>2 DEF SameTimes
<1>5. ASSUME NEW e \in Engines, NEW h \in Handles,
             (history[h].engine_url = e /\ Recent(history[h].first))'
      PROVE  FirstToken(h)' \in ttft_monitors'[e]
  <2>1. history[h].engine_url = e /\ Recent(history[h].first)
    BY <1>3, <1>5 DEF SameTimes
  <2>2. FirstToken(h) \in ttft_monitors[e] /\ ~(FirstToken(h).timestamp < now' - sliding_window_size)
    BY <1>2, <1>3, <1>5, <2>1 DEF TtftKept
  <2> QED
    BY <1>2, <2>2 DEF Slides
<1> QED
  BY <1>4, <1>5 DEF TtftKept

LEMMA NewRequestWindows ==
  ASSUME WindowInv, NEW u \in Engines, on_new_request(u)
  PROVE  (TimesLinked /\ QpsKept /\ TtftKept)'
<1>1. StatsTypeOK /\ LedgerLinked /\ TimesLinked /\ QpsKept /\ TtftKept
  BY DEF WindowInv, LedgerInv
<1>2. PICK h \in Handles : h = next_handle
  <2>1. next_handle \in 0 .. MaxHandles /\ next_handle < MaxHandles
    BY <1>1 DEF StatsTypeOK, on_new_request
  <2> QED
    BY <2>1, SMT DEF Handles
<1> DEFINE rec == [engine_url |-> u, start |-> now, first |-> NoTime, outcome |-> "open"]
           new == [handle |-> h, timestamp |-> now, value |-> 1]
<1>3. /\ now \in Int /\ sliding_window_size \in Nat
      /\ \A g \in Handles : history[g].start \in Int
  BY <1>1, TimesTyped
<1>4. history[h].start = NoTime /\ history[h].first = NoTime
  <2>1. h >= next_handle
    BY <1>2, SMT DEF Handles
  <2> QED
    BY <1>1, <1>2, <2>1 DEF LedgerLinked, TimesLinked
<1>5. /\ history' = [history EXCEPT ![h] = rec]
      /\ qps_monitors' = [qps_monitors EXCEPT ![u] = update(@, now, h, 1)]
      /\ active_requests' = [active_requests EXCEPT
           ![h] = [stage |-> "prefill", engine_url |-> u, start_time |-> now]]
      /\ UNCHANGED <<now, ttft_monitors>>
  BY <1>2 DEF on_new_request
<1>6. history'[h] = rec /\ \A g \in Handles : g # h => history'[g] = history[g]
  BY <1>1, <1>2, <1>5 DEF StatsTypeOK
<1>7. /\ qps_monitors'[u] = update(qps_monitors[u], now, h, 1)
      /\ \A e \in Engines : e # u => qps_monitors'[e] = qps_monitors[e]
  BY <1>1, <1>5 DEF StatsTypeOK
<1>8. /\ active_requests'[h] = [stage |-> "prefill", engine_url |-> u, start_time |-> now]
      /\ \A g \in Handles : g # h => active_requests'[g] = active_requests[g]
  BY <1>1, <1>2, <1>5 DEF StatsTypeOK
<1>9. /\ rec.start = now /\ rec.first = NoTime /\ rec.engine_url = u /\ rec.outcome = "open"
      /\ now # NoTime
  <2>1. now \in Time
    BY <1>1 DEF StatsTypeOK
  <2> QED
    BY <2>1, SMT DEF Time, NoTime
<1>10. /\ history'[h].start = now /\ history'[h].first = NoTime /\ history'[h].engine_url = u
       /\ now' = now
  BY <1>5, <1>6, <1>9
<1> HIDE DEF rec
<1>11. TimesLinked'
  <2> SUFFICES ASSUME NEW g \in Handles
               PROVE  /\ (g \in Active)' =>
                           /\ history'[g].start = active_requests'[g].start_time
                           /\ active_requests'[g].stage = "prefill" => history'[g].first = NoTime
                      /\ history'[g].outcome = "none" =>
                           history'[g].start = NoTime /\ history'[g].first = NoTime
    BY DEF TimesLinked
  <2>1. CASE g = h
    BY <1>6, <1>8, <1>9, <2>1, SMT
  <2>2. CASE g # h
    BY <1>1, <1>6, <1>8, <2>2 DEF TimesLinked, Active
  <2> QED
    BY <2>1, <2>2
<1>12. TtftKept'
  <2>1. /\ \A g \in Handles : g # h => FirstToken(g)' = FirstToken(g)
        /\ \A g \in Handles : g # h => (Recent(history[g].first)' <=> Recent(history[g].first))
        /\ ~Recent(history[h].first)'
    <3>1. \A g \in Handles : g # h => FirstToken(g)' = FirstToken(g)
      BY <1>6 DEF FirstToken
    <3>2. \A g \in Handles : g # h => (Recent(history[g].first)' <=> Recent(history[g].first))
      BY <1>6, <1>10 DEF Recent
    <3>3. ~Recent(history[h].first)'
      BY <1>10 DEF Recent
    <3> QED
      BY <3>1, <3>2, <3>3
  <2>2. ASSUME NEW e \in Engines, NEW s \in ttft_monitors'[e]
        PROVE  \E g \in Handles :
                 (history[g].engine_url = e /\ history[g].first # NoTime)' /\ s = FirstToken(g)'
    <3>1. PICK g \in Handles :
            history[g].engine_url = e /\ history[g].first # NoTime /\ s = FirstToken(g)
      BY <1>1, <1>5, <2>2 DEF TtftKept
    <3>2. g # h
      BY <1>4, <3>1
    <3> QED
      BY <1>6, <2>1, <3>1, <3>2
  <2>3. ASSUME NEW e \in Engines, NEW g \in Handles,
               (history[g].engine_url = e /\ Recent(history[g].first))'
        PROVE  FirstToken(g)' \in ttft_monitors'[e]
    <3>1. g # h
      BY <2>1, <2>3
    <3>2. history[g].engine_url = e /\ Recent(history[g].first)
      BY <1>6, <2>1, <2>3, <3>1
    <3>3. FirstToken(g) \in ttft_monitors[e]
      BY <1>1, <3>2 DEF TtftKept
    <3> QED
      BY <1>5, <2>1, <3>1, <3>3
  <2> QED
    BY <2>2, <2>3 DEF TtftKept
<1>13. QpsKept'
  <2>1. /\ Begun(h)' = new /\ \A g \in Handles : g # h => Begun(g)' = Begun(g)
        /\ \A g \in Handles : g # h => (Recent(history[g].start)' <=> Recent(history[g].start))
    <3>1. \A g \in Handles : g # h => Begun(g)' = Begun(g)
      BY <1>6 DEF Begun
    <3>2. \A g \in Handles : g # h => (Recent(history[g].start)' <=> Recent(history[g].start))
      BY <1>6, <1>10 DEF Recent
    <3>3. Begun(h)' = new
      BY <1>10 DEF Begun
    <3> QED
      BY <3>1, <3>2, <3>3
  <2>2. /\ qps_monitors'[u] \subseteq qps_monitors[u] \cup {new} /\ new \in qps_monitors'[u]
        /\ \A s \in qps_monitors[u] : ~(s.timestamp < now - sliding_window_size) =>
             s \in qps_monitors'[u]
    <3>1. new.timestamp = now /\ ~(now < now - sliding_window_size)
      BY <1>3, SMTT(30)
    <3> QED
      BY <1>7, <3>1 DEF update, update_no_value
  <2>3. ASSUME NEW e \in Engines, NEW s \in qps_monitors'[e]
        PROVE  \E g \in Handles :
                 (history[g].engine_url = e /\ history[g].start # NoTime)' /\ s = Begun(g)'
    <3>1. CASE e = u /\ s = new
      <4>1. h \in Handles /\ (history[h].engine_url = e /\ history[h].start # NoTime)' /\ s = Begun(h)'
        BY <1>2, <1>9, <1>10, <2>1, <3>1
      <4> QED
        BY <4>1
    <3>2. CASE ~(e = u /\ s = new)
      <4>1. s \in qps_monitors[e]
        BY <1>7, <2>2, <2>3, <3>2
      <4>2. PICK g \in Handles :
              history[g].engine_url = e /\ history[g].start # NoTime /\ s = Begun(g)
        BY <1>1, <4>1 DEF QpsKept
      <4>3. g # h
        BY <1>4, <4>2
      <4> QED
        BY <1>6, <2>1, <4>2, <4>3
    <3> QED
      BY <3>1, <3>2
  <2>4. ASSUME NEW e \in Engines, NEW g \in Handles,
               (history[g].engine_url = e /\ Recent(history[g].start))'
        PROVE  Begun(g)' \in qps_monitors'[e]
    <3>1. CASE g = h
      BY <1>10, <2>1, <2>2, <2>4, <3>1
    <3>2. CASE g # h
      <4>1. Begun(g) \in qps_monitors[e]
        BY <1>1, <1>6, <2>1, <2>4, <3>2 DEF QpsKept
      <4>2. Begun(g).timestamp = history[g].start /\ Recent(history[g].start)
        BY <2>1, <2>4, <3>2 DEF Begun
      <4>3. ~(Begun(g).timestamp < now - sliding_window_size)
        BY <1>3, <4>2, SMT DEF Recent
      <4> QED
        BY <1>7, <2>1, <2>2, <3>2, <4>1, <4>3
    <3> QED
      BY <3>1, <3>2
  <2> QED
    BY <2>3, <2>4 DEF QpsKept
<1> QED
  BY <1>11, <1>12, <1>13

LEMMA ResponseWindows ==
  ASSUME WindowInv, NEW h \in Handles, on_request_response(h), statsVars' # statsVars
  PROVE  (TimesLinked /\ QpsKept /\ TtftKept)'
<1> DEFINE r == active_requests[h]
           g == [history[h] EXCEPT !.first = now]
<1>1. StatsTypeOK /\ LedgerLinked /\ TimesLinked /\ QpsKept /\ TtftKept
  BY DEF WindowInv, LedgerInv
<1>2. r # NoRequest /\ r.stage = "prefill"
  BY DEF on_request_response
<1>3. PICK u : u = r.engine_url
  OBVIOUS
<1>4. /\ history' = [history EXCEPT ![h] = g]
      /\ active_requests' = [active_requests EXCEPT ![h].stage = "decoding"]
      /\ ttft_monitors' = [ttft_monitors EXCEPT ![u] = update(@, now, h, now - r.start_time)]
      /\ UNCHANGED <<now, qps_monitors>>
  BY <1>3 DEF on_request_response
<1>5. /\ now \in Int /\ sliding_window_size \in Nat
      /\ \A x \in Handles : /\ history[x] \in HistoryRecord
                            /\ history[x].start \in Int /\ history[x].first \in Int
  BY <1>1, TimesTyped
<1>6. now \in Time /\ r \in ActiveRequest /\ u \in Engines
  <2>1. now \in Time /\ r \in ActiveRequest
    BY <1>1, <1>2 DEF StatsTypeOK
  <2>2. \A x \in ActiveRequest : x.engine_url \in Engines
    BY DEF ActiveRequest
  <2> QED
    BY <1>3, <2>1, <2>2
<1>7. h \in Active
  BY <1>2 DEF Active
<1>8. /\ history[h].engine_url = u /\ history[h].start = r.start_time /\ history[h].first = NoTime
  BY <1>1, <1>2, <1>3, <1>7 DEF LedgerLinked, TimesLinked
<1>9. history'[h] = g /\ \A x \in Handles : x # h => history'[x] = history[x]
  BY <1>1, <1>4 DEF StatsTypeOK
<1>10. /\ history'[h].engine_url = u /\ history'[h].start = history[h].start
       /\ history'[h].first = now /\ history'[h].outcome = history[h].outcome
  <2>1. /\ g.outcome = history[h].outcome /\ g.engine_url = history[h].engine_url
        /\ g.start = history[h].start /\ g.first = now
    BY <1>5, <1>6, TimesUpdate
  <2> HIDE DEF g
  <2> QED
    BY <1>8, <1>9, <2>1
<1>11. now # NoTime /\ now' = now
  BY <1>4, <1>6, SMT DEF Time, NoTime
<1> HIDE DEF g
<1>12. TimesLinked'
  <2>1. /\ active_requests'[h] = [r EXCEPT !.stage = "decoding"]
        /\ \A x \in Handles : x # h => active_requests'[x] = active_requests[x]
    BY <1>1, <1>4 DEF StatsTypeOK
  <2>2. active_requests'[h].stage = "decoding" /\ active_requests'[h].start_time = r.start_time
    BY <1>6, <2>1, StageUpdate
  <2>3. history[h].outcome = "open"
    BY <1>1, <1>7 DEF LedgerLinked
  <2> SUFFICES ASSUME NEW x \in Handles
               PROVE  /\ (x \in Active)' =>
                           /\ history'[x].start = active_requests'[x].start_time
                           /\ active_requests'[x].stage = "prefill" => history'[x].first = NoTime
                      /\ history'[x].outcome = "none" =>
                           history'[x].start = NoTime /\ history'[x].first = NoTime
    BY DEF TimesLinked
  <2>4. CASE x = h
    BY <1>8, <1>10, <2>2, <2>3, <2>4
  <2>5. CASE x # h
    BY <1>1, <1>9, <2>1, <2>5 DEF TimesLinked, Active
  <2> QED
    BY <2>4, <2>5
<1>13. QpsKept'
  <2>1. \A x \in Handles : /\ Begun(x)' = Begun(x)
                           /\ history'[x].engine_url = history[x].engine_url
                           /\ history'[x].start = history[x].start
    <3>1. \A x \in Handles : /\ history'[x].engine_url = history[x].engine_url
                             /\ history'[x].start = history[x].start
      BY <1>8, <1>9, <1>10
    <3> QED
      BY <3>1 DEF Begun
  <2>2. \A x \in Handles : Recent(history[x].start)' <=> Recent(history[x].start)
    BY <1>11, <2>1 DEF Recent
  <2>3. qps_monitors' = qps_monitors
    BY <1>4
  <2>4. ASSUME NEW e \in Engines, NEW s \in qps_monitors'[e]
        PROVE  \E x \in Handles :
                 (history[x].engine_url = e /\ history[x].start # NoTime)' /\ s = Begun(x)'
    <3>1. PICK x \in Handles : history[x].engine_url = e /\ history[x].start # NoTime /\ s = Begun(x)
      BY <1>1, <2>3, <2>4 DEF QpsKept
    <3> QED
      BY <2>1, <3>1
  <2>5. ASSUME NEW e \in Engines, NEW x \in Handles,
               (history[x].engine_url = e /\ Recent(history[x].start))'
        PROVE  Begun(x)' \in qps_monitors'[e]
    <3>1. history[x].engine_url = e /\ Recent(history[x].start)
      BY <2>1, <2>2, <2>5
    <3> QED
      BY <1>1, <2>1, <2>3, <3>1 DEF QpsKept
  <2> QED
    BY <2>4, <2>5 DEF QpsKept
<1>14. TtftKept'
  <2> DEFINE new == [handle |-> h, timestamp |-> now, value |-> now - r.start_time]
  <2>1. /\ \A x \in Handles : x # h => /\ FirstToken(x)' = FirstToken(x)
                                       /\ Recent(history[x].first)' <=> Recent(history[x].first)
        /\ FirstToken(h)' = new
    <3>1. \A x \in Handles : x # h => FirstToken(x)' = FirstToken(x)
      BY <1>9 DEF FirstToken
    <3>2. \A x \in Handles : x # h => (Recent(history[x].first)' <=> Recent(history[x].first))
      BY <1>9, <1>11 DEF Recent
    <3>3. FirstToken(h)' = new
      BY <1>8, <1>10 DEF FirstToken
    <3> QED
      BY <3>1, <3>2, <3>3
  <2>2. /\ ttft_monitors'[u] = update(ttft_monitors[u], now, h, now - r.start_time)
        /\ \A e \in Engines : e # u => ttft_monitors'[e] = ttft_monitors[e]
    BY <1>1, <1>4, <1>6 DEF StatsTypeOK
  <2>3. /\ ttft_monitors'[u] \subseteq ttft_monitors[u] \cup {new} /\ new \in ttft_monitors'[u]
        /\ \A s \in ttft_monitors[u] : ~(s.timestamp < now - sliding_window_size) =>
             s \in ttft_monitors'[u]
    <3>1. new.timestamp = now /\ ~(now < now - sliding_window_size)
      BY <1>5, SMTT(30)
    <3> QED
      BY <2>2, <3>1 DEF update, update_no_value
  <2> HIDE DEF new
  <2>4. ASSUME NEW e \in Engines, NEW s \in ttft_monitors'[e]
        PROVE  \E x \in Handles :
                 (history[x].engine_url = e /\ history[x].first # NoTime)' /\ s = FirstToken(x)'
    <3>1. CASE e = u /\ s = new
      <4>1. (history[h].engine_url = e /\ history[h].first # NoTime)' /\ s = FirstToken(h)'
        BY <1>10, <1>11, <2>1, <3>1
      <4> QED
        BY <4>1
    <3>2. CASE ~(e = u /\ s = new)
      <4>1. s \in ttft_monitors[e]
        BY <2>2, <2>3, <2>4, <3>2
      <4>2. PICK x \in Handles :
              history[x].engine_url = e /\ history[x].first # NoTime /\ s = FirstToken(x)
        BY <1>1, <4>1 DEF TtftKept
      <4>3. x # h
        BY <1>8, <4>2
      <4> QED
        BY <1>9, <2>1, <4>2, <4>3
    <3> QED
      BY <3>1, <3>2
  <2>5. ASSUME NEW e \in Engines, NEW x \in Handles,
               (history[x].engine_url = e /\ Recent(history[x].first))'
        PROVE  FirstToken(x)' \in ttft_monitors'[e]
    <3>1. CASE x = h
      BY <1>10, <2>1, <2>3, <2>5, <3>1
    <3>2. CASE x # h
      <4>1. FirstToken(x) \in ttft_monitors[e]
        BY <1>1, <1>9, <2>1, <2>5, <3>2 DEF TtftKept
      <4>2. FirstToken(x).timestamp = history[x].first /\ Recent(history[x].first)
        BY <2>1, <2>5, <3>2 DEF FirstToken
      <4>3. ~(FirstToken(x).timestamp < now - sliding_window_size)
        BY <1>5, <4>2, SMTT(30) DEF Recent
      <4> QED
        BY <2>1, <2>2, <2>3, <3>2, <4>1, <4>3
    <3> QED
      BY <3>1, <3>2
  <2> QED
    BY <2>4, <2>5 DEF TtftKept
<1> QED
  BY <1>12, <1>13, <1>14

LEMMA FinalizeWindows ==
  ASSUME WindowInv, NEW h \in Handles, NEW o \in Outcomes, finalize_request(h, o),
         statsVars' # statsVars
  PROVE  (TimesLinked /\ QpsKept /\ TtftKept)'
<1> DEFINE g == [history[h] EXCEPT !.outcome = o]
<1>1. StatsTypeOK /\ LedgerLinked /\ TimesLinked /\ QpsKept /\ TtftKept
  BY DEF WindowInv, LedgerInv
<1>2. /\ history' = [history EXCEPT ![h] = g]
      /\ active_requests' = [active_requests EXCEPT ![h] = NoRequest]
      /\ UNCHANGED <<now, qps_monitors, ttft_monitors>>
  <2>1. active_requests[h] # NoRequest
    BY DEF finalize_request
  <2> QED
    BY <2>1 DEF finalize_request
<1>3. now \in Int /\ sliding_window_size \in Int /\ history[h] \in HistoryRecord
  BY <1>1, TimesTyped
<1>4. /\ history'[h] = g /\ \A x \in Handles : x # h => history'[x] = history[x]
      /\ active_requests'[h] = NoRequest
      /\ \A x \in Handles : x # h => active_requests'[x] = active_requests[x]
  BY <1>1, <1>2 DEF StatsTypeOK
<1>5. /\ g.outcome = o /\ g.engine_url = history[h].engine_url
      /\ g.start = history[h].start /\ g.first = history[h].first
  BY <1>3, TimesUpdate
<1> HIDE DEF g
<1>6. SameTimes
  BY <1>4, <1>5 DEF SameTimes
<1>7. now' = now /\ now' \in Int /\ now <= now'
  BY <1>2, <1>3, SMT
<1>8. Slides(qps_monitors, qps_monitors') /\ Slides(ttft_monitors, ttft_monitors')
  BY <1>2 DEF Slides
<1>9. TimesLinked'
  <2>1. o # "none"
    BY DEF Outcomes
  <2> SUFFICES ASSUME NEW x \in Handles
               PROVE  /\ (x \in Active)' =>
                           /\ history'[x].start = active_requests'[x].start_time
                           /\ active_requests'[x].stage = "prefill" => history'[x].first = NoTime
                      /\ history'[x].outcome = "none" =>
                           history'[x].start = NoTime /\ history'[x].first = NoTime
    BY DEF TimesLinked
  <2>2. CASE x = h
    BY <1>4, <1>5, <2>1, <2>2 DEF Active
  <2>3. CASE x # h
    BY <1>1, <1>4, <2>3 DEF TimesLinked, Active
  <2> QED
    BY <2>2, <2>3
<1> QED
  BY <1>1, <1>6, <1>7, <1>8, <1>9, QpsSlides, TtftSlides

\* The clock, the swap counter and the readers of the statistics.
LEMMA OtherWindows ==
  ASSUME WindowInv, UNCHANGED <<history, active_requests>>,
         \/ UNCHANGED statsVars
         \/ Tick
         \/ \E u \in Engines : on_request_swapped(u)
         \/ get_request_stats
  PROVE  (TimesLinked /\ QpsKept /\ TtftKept)'
<1>1. StatsTypeOK /\ TimesLinked /\ QpsKept /\ TtftKept
  BY DEF WindowInv, LedgerInv
<1>2. now \in Int /\ sliding_window_size \in Int
  BY <1>1, TimesTyped
<1>3. SameTimes
  BY DEF SameTimes
<1>4. now' = now \/ now' = now + 1
  BY DEF statsVars, Tick, on_request_swapped, get_request_stats
<1>5. now' \in Int /\ now <= now'
  BY <1>2, <1>4, SMT
<1>6. Slides(qps_monitors, qps_monitors') /\ Slides(ttft_monitors, ttft_monitors')
  <2>1. CASE get_request_stats
    <3>1. /\ now' = now
          /\ qps_monitors' = [e \in Engines |-> IF e \in urls THEN update_no_value(qps_monitors[e], now)
                                                              ELSE qps_monitors[e]]
          /\ ttft_monitors' = [e \in Engines |-> IF e \in urls THEN update_no_value(ttft_monitors[e], now)
                                                               ELSE ttft_monitors[e]]
      BY <2>1 DEF get_request_stats
    <3>2. Slides(qps_monitors, qps_monitors')
      BY <3>1 DEF Slides, update_no_value
    <3>3. Slides(ttft_monitors, ttft_monitors')
      BY <3>1 DEF Slides, update_no_value
    <3> QED
      BY <3>2, <3>3
  <2>2. CASE UNCHANGED <<qps_monitors, ttft_monitors>>
    BY <2>2 DEF Slides
  <2>3. get_request_stats \/ UNCHANGED <<qps_monitors, ttft_monitors>>
    BY DEF statsVars, Tick, on_request_swapped
  <2> QED
    BY <2>1, <2>2, <2>3
<1>7. TimesLinked'
  BY <1>1 DEF TimesLinked, Active
<1> QED
  BY <1>1, <1>3, <1>5, <1>6, <1>7, QpsSlides, TtftSlides

LEMMA WindowInvInductive == WindowInv /\ [StatsNext]_statsVars => WindowInv'
<1> SUFFICES ASSUME WindowInv, [StatsNext]_statsVars PROVE WindowInv'
  OBVIOUS
<1>1. LedgerInv'
  BY LedgerInvInductive DEF WindowInv
<1>2. CASE UNCHANGED statsVars
  <2>1. UNCHANGED <<history, active_requests>>
    BY <1>2 DEF statsVars
  <2> QED
    BY <1>1, <1>2, <2>1, OtherWindows DEF WindowInv
<1>3. ASSUME NEW u \in Engines, on_new_request(u) PROVE WindowInv'
  BY <1>1, <1>3, NewRequestWindows DEF WindowInv
<1>4. ASSUME NEW h \in Handles, on_request_response(h), ~UNCHANGED statsVars PROVE WindowInv'
  BY <1>1, <1>4, ResponseWindows DEF WindowInv
<1>5. ASSUME NEW h \in Handles, NEW o \in Outcomes, finalize_request(h, o), ~UNCHANGED statsVars
      PROVE  WindowInv'
  BY <1>1, <1>5, FinalizeWindows DEF WindowInv
<1>6. CASE Tick \/ get_request_stats \/ \E u \in Engines : on_request_swapped(u)
  <2>1. UNCHANGED <<history, active_requests>>
    BY <1>6 DEF Tick, on_request_swapped, get_request_stats
  <2> QED
    BY <1>1, <1>6, <2>1, OtherWindows DEF WindowInv
<1> QED
  BY <1>2, <1>3, <1>4, <1>5, <1>6 DEF StatsNext, Outcomes, on_request_complete, on_request_fail,
                                      on_request_abort

LEMMA WindowInvInit == StatsInit => WindowInv
<1> SUFFICES ASSUME StatsInit PROVE WindowInv
  OBVIOUS
<1>1. LedgerInv
  BY LedgerInvInit
<1>2. \A h \in Handles : /\ history[h].start = NoTime /\ history[h].first = NoTime
                         /\ active_requests[h] = NoRequest
  BY DEF StatsInit
<1>3. \A e \in Engines : qps_monitors[e] = {} /\ ttft_monitors[e] = {}
  BY DEF StatsInit
<1>4. TimesLinked
  BY <1>2 DEF TimesLinked, Active
<1>5. QpsKept
  BY <1>2, <1>3 DEF QpsKept, Recent
<1>6. TtftKept
  BY <1>2, <1>3 DEF TtftKept, Recent
<1> QED
  BY <1>1, <1>4, <1>5, <1>6 DEF WindowInv

\* For any engines, handles, window and order of calls, get_request_stats computes
\* the QPS of an engine from every attempt that began on it within the window and
\* from no other, and its TTFT from exactly the first tokens of the window.
THEOREM WindowsExact == StatsSpec => []ReportedWindows
<1>1. WindowInv => ReportedWindows
  <2> SUFFICES ASSUME WindowInv, NEW e \in urls
               PROVE  /\ Report(e).qps = {Begun(h) : h \in {g \in Handles :
                           history[g].engine_url = e /\ Recent(history[g].start)}}
                      /\ Report(e).ttft = {FirstToken(h) : h \in {g \in Handles :
                           history[g].engine_url = e /\ Recent(history[g].first)}}
    BY DEF ReportedWindows, Begun, FirstToken, Recent
  <2>1. StatsTypeOK /\ QpsKept /\ TtftKept
    BY DEF WindowInv, LedgerInv
  <2>2. e \in Engines
    <3>1. urls \in SUBSET Engines
      BY <2>1 DEF StatsTypeOK
    <3> QED
      BY <3>1
  <2>3. /\ now \in Int /\ sliding_window_size \in Int
        /\ \A h \in Handles : history[h].start \in Int /\ history[h].first \in Int
    BY <2>1, TimesTyped
  <2>4. /\ Report(e).qps = {s \in qps_monitors[e] : ~(s.timestamp < now - sliding_window_size)}
        /\ Report(e).ttft = {s \in ttft_monitors[e] : ~(s.timestamp < now - sliding_window_size)}
    BY DEF Report, update_no_value
  <2>5. \A h \in Handles : /\ Begun(h).timestamp = history[h].start
                           /\ FirstToken(h).timestamp = history[h].first
    BY DEF Begun, FirstToken
  <2>6. \A t \in Int : Recent(t) <=> (t # NoTime /\ ~(t < now - sliding_window_size))
    BY <2>3, SMT DEF Recent
  <2>7. Report(e).qps = {Begun(h) : h \in {g \in Handles :
          history[g].engine_url = e /\ Recent(history[g].start)}}
    <3>1. ASSUME NEW s \in qps_monitors[e], ~(s.timestamp < now - sliding_window_size)
          PROVE  \E h \in Handles :
                   history[h].engine_url = e /\ Recent(history[h].start) /\ s = Begun(h)
      BY <2>1, <2>2, <2>3, <2>5, <2>6, <3>1, SMT DEF QpsKept
    <3>2. ASSUME NEW h \in Handles, history[h].engine_url = e, Recent(history[h].start)
          PROVE  Begun(h) \in qps_monitors[e] /\ ~(Begun(h).timestamp < now - sliding_window_size)
      BY <2>1, <2>2, <2>3, <2>5, <2>6, <3>2 DEF QpsKept
    <3> QED
      BY <2>4, <3>1, <3>2
  <2>8. Report(e).ttft = {FirstToken(h) : h \in {g \in Handles :
          history[g].engine_url = e /\ Recent(history[g].first)}}
    <3>1. ASSUME NEW s \in ttft_monitors[e], ~(s.timestamp < now - sliding_window_size)
          PROVE  \E h \in Handles :
                   history[h].engine_url = e /\ Recent(history[h].first) /\ s = FirstToken(h)
      BY <2>1, <2>2, <2>3, <2>5, <2>6, <3>1, SMT DEF TtftKept
    <3>2. ASSUME NEW h \in Handles, history[h].engine_url = e, Recent(history[h].first)
          PROVE  /\ FirstToken(h) \in ttft_monitors[e]
                 /\ ~(FirstToken(h).timestamp < now - sliding_window_size)
      BY <2>1, <2>2, <2>3, <2>5, <2>6, <3>2 DEF TtftKept
    <3> QED
      BY <2>4, <3>1, <3>2
  <2> QED
    BY <2>7, <2>8
<1> QED
  BY <1>1, WindowInvInit, WindowInvInductive, PTL DEF StatsSpec

=============================================================================
