--------------------------- MODULE LifecycleProofs ---------------------------
(***************************************************************************)
(* Proofs about the life of proxied requests, for any set of engines and   *)
(* requests, any failover budget, any length of bodies and any number of   *)
(* attempts in the ledger.                                                 *)
(***************************************************************************)
EXTENDS RequestLifecycle, RequestStatsProofs, SequenceTheorems

\* Leaves are left to Zenon; those that need arithmetic or sequences cite SMT.
USE Zenon

Suspended == {"idle", "routing", "connecting", "headers", "reading", "writing",
              "error_frame", "done_frame", "done"}

Generating == {"connecting", "headers", "reading", "writing", "error_frame", "done_frame"}

LifeTypeOK ==
  /\ pc \in [Requests -> Suspended]
  /\ endpoints \in [Requests -> SUBSET Engines]
  /\ error_urls \in [Requests -> SUBSET Engines]
  /\ tried \in [Requests -> Seq(Engines)]
  /\ handle \in [Requests -> Int]
  /\ last_error \in [Requests -> {"none", "connect", "other", "timeout"}]
  /\ response \in [Requests -> {"none", "400", "404", "500", "502", "503", "504", "overwritten",
                                "cancelled", "relayed"}]
  /\ is_sse \in [Requests -> BOOLEAN]
  /\ chunks \in [Requests -> Nat]
  /\ frames \in [Requests -> Seq({"error", "done"})]
  /\ close \in [Requests -> {"open", "clean", "abrupt", "client"}]

\* The open generators and the live records of the ledger are one to one.
Tracked ==
  /\ \A r \in InGenerator :
       /\ handle[r] \in Active
       /\ active_requests[handle[r]].engine_url = tried[r][Len(tried[r])]
       /\ active_requests[handle[r]].stage = IF chunks[r] > 0 THEN "decoding" ELSE "prefill"
  /\ \A r, s \in InGenerator : handle[s] = handle[r] => s = r
  /\ \A h \in Active : \E r \in InGenerator : handle[r] = h

\* The backends of the first n attempts.
UpTo(t, n) == {t[i] : i \in 1 .. n}

\* The failover loop: while a request looks for a backend, the backends set aside
\* are the ones it tried, and while it is at one, all it tried but the last.
FailoverOK(r) ==
  /\ Len(tried[r]) <= max_attempts
  /\ \A i, j \in 1 .. Len(tried[r]) : tried[r][i] = tried[r][j] => i = j
  /\ \A i \in 1 .. Len(tried[r]) : tried[r][i] \in endpoints[r]
  /\ pc[r] = "idle" => tried[r] = <<>> /\ error_urls[r] = {} /\ last_error[r] = "none"
  /\ pc[r] = "routing" => /\ error_urls[r] = UpTo(tried[r], Len(tried[r]))
                          /\ last_error[r] = "connect" => tried[r] # <<>>
  /\ pc[r] \in Generating \/ response[r] = "504" =>
       tried[r] # <<>> /\ error_urls[r] = UpTo(tried[r], Len(tried[r]) - 1)
  /\ response[r] = "502" => /\ error_urls[r] = UpTo(tried[r], Len(tried[r]))
                            /\ Len(tried[r]) = max_attempts \/ error_urls[r] = endpoints[r]
                            /\ tried[r] # <<>>

\* How far a request has got is what its answer, its chunks and its frames say.
StreamOK(r) ==
  /\ pc[r] \in {"idle", "routing", "connecting", "headers"} =>
       response[r] = "none" /\ chunks[r] = 0
  /\ pc[r] \in Generating \ {"connecting", "headers"} => response[r] = "relayed"
  /\ pc[r] \in Suspended \ {"error_frame", "done_frame", "done"} => frames[r] = <<>>
  /\ pc[r] \in {"error_frame", "done_frame"} => frames[r] # <<>>
  /\ pc[r] # "done" => close[r] = "open"

TimeoutOK(r) ==
  last_error[r] = "timeout" =>
    /\ pc[r] = "done"
    /\ response[r] \in {"504", "cancelled"}
    /\ handle[r] \in Handles /\ history[handle[r]].outcome = "fail"

Delivered == {r \in Requests : close[r] = "clean" /\ frames[r] = <<>>}

Completed == {h \in Handles : history[h].outcome = "complete"}

DeliveredOK == IsFiniteSet(Delivered) /\ Cardinality(Completed) = Cardinality(Delivered)

LifeInv ==
  /\ LedgerInv
  /\ LifeTypeOK
  /\ Tracked
  /\ \A r \in Requests : FailoverOK(r) /\ StreamOK(r) /\ TimeoutOK(r)
  /\ DeliveredOK

-----------------------------------------------------------------------------
(* What the calls of a request do to the ledger *)

LEMMA BeginEffect ==
  ASSUME LedgerInv, NEW u \in Engines, on_new_request(u)
  PROVE  /\ next_handle \in Handles \ Active
         /\ Active' = Active \cup {next_handle}
         /\ active_requests'[next_handle].engine_url = u
         /\ active_requests'[next_handle].stage = "prefill"
         /\ \A h \in Active : active_requests'[h] = active_requests[h]
         /\ history[next_handle].outcome = "none" /\ history'[next_handle].outcome = "open"
         /\ \A h \in Handles : h # next_handle => history'[h] = history[h]
<1>1. StatsTypeOK /\ LedgerLinked
  BY DEF LedgerInv
<1>2. next_handle \in Handles
  BY <1>1, StatsAssumption, SMT DEF on_new_request, Handles, StatsTypeOK
<1>3. history[next_handle].outcome = "none" /\ next_handle \notin Active
  BY <1>1, <1>2, SMT DEF LedgerLinked, Handles
<1> DEFINE new == [stage |-> "prefill", engine_url |-> u, start_time |-> now]
<1>4. /\ active_requests' = [active_requests EXCEPT ![next_handle] = new]
      /\ active_requests \in [Handles -> ActiveRequest \cup {NoRequest}]
      /\ new # NoRequest /\ new.engine_url = u /\ new.stage = "prefill"
  BY <1>1, StatsAssumption, SMT DEF on_new_request, StatsTypeOK, ActiveRequest
<1>5. /\ history' = [history EXCEPT ![next_handle] =
                      [engine_url |-> u, start |-> now, first |-> NoTime, outcome |-> "open"]]
      /\ history \in [Handles -> HistoryRecord]
  BY <1>1 DEF on_new_request, StatsTypeOK
<1>6. /\ history'[next_handle].outcome = "open"
      /\ \A h \in Handles : h # next_handle => history'[h] = history[h]
  BY <1>2, <1>5
<1> HIDE DEF new
<1>7. /\ active_requests'[next_handle] = new
      /\ \A h \in Handles : h # next_handle => active_requests'[h] = active_requests[h]
  BY <1>2, <1>4
<1>8. Active' = Active \cup {next_handle}
  BY <1>2, <1>4, <1>7 DEF Active
<1> QED
  BY <1>2, <1>3, <1>4, <1>6, <1>7, <1>8 DEF Active

LEMMA RetireEffect ==
  ASSUME LedgerInv, NEW h \in Active, NEW o \in Outcomes, finalize_request(h, o)
  PROVE  /\ Active' = Active \ {h}
         /\ \A g \in Active \ {h} : active_requests'[g] = active_requests[g]
         /\ history[h].outcome = "open" /\ history'[h].outcome = o
         /\ \A g \in Handles \ {h} : history'[g] = history[g]
<1>1. StatsTypeOK /\ LedgerLinked /\ h \in Handles /\ active_requests[h] # NoRequest
  BY DEF LedgerInv, Active
<1>2. active_requests' = [active_requests EXCEPT ![h] = NoRequest]
  BY <1>1 DEF finalize_request
<1>3. active_requests'[h] = NoRequest /\ \A g \in Handles \ {h} : active_requests'[g] = active_requests[g]
  BY <1>1, <1>2 DEF StatsTypeOK
<1>4. statsVars' # statsVars
  BY <1>1, <1>3 DEF statsVars
<1>5. PICK x \in HistoryRecord : history' = [history EXCEPT ![h] = x] /\ x.outcome = o
  BY <1>1, <1>4, FinalizeEffect, SMT
<1>6. history'[h].outcome = o /\ \A g \in Handles \ {h} : history'[g] = history[g]
  BY <1>1, <1>5 DEF StatsTypeOK
<1>7. history[h].outcome = "open"
  BY <1>1 DEF LedgerLinked
<1> QED
  BY <1>1, <1>3, <1>6, <1>7 DEF Active

LEMMA FirstTokenEffect ==
  ASSUME LedgerInv, NEW h \in Active, active_requests[h].stage = "prefill", on_request_response(h)
  PROVE  /\ Active' = Active
         /\ active_requests'[h].stage = "decoding"
         /\ active_requests'[h].engine_url = active_requests[h].engine_url
         /\ \A g \in Active \ {h} : active_requests'[g] = active_requests[g]
         /\ \A g \in Handles : history'[g].outcome = history[g].outcome
<1> DEFINE u == active_requests[h].engine_url
<1>1. StatsTypeOK /\ CountsMatch /\ h \in Handles /\ active_requests[h] # NoRequest
  BY DEF LedgerInv, Active
<1>2. active_requests[h] \in ActiveRequest /\ u \in Engines
  BY <1>1 DEF StatsTypeOK, ActiveRequest
<1>3. h \in InStage("prefill", u) /\ InStage("prefill", u) \in SUBSET Handles
  BY DEF InStage, Active
<1>4. in_prefill_requests[u] > 0
  BY <1>1, <1>2, <1>3, CountRemove DEF CountsMatch
<1>5. active_requests' = [active_requests EXCEPT ![h].stage = "decoding"]
  BY <1>1, <1>2, <1>4, SMT DEF on_request_response, StatsTypeOK
<1>6. /\ active_requests'[h] = [active_requests[h] EXCEPT !.stage = "decoding"]
      /\ \A g \in Handles \ {h} : active_requests'[g] = active_requests[g]
  BY <1>1, <1>5 DEF StatsTypeOK
<1>7. /\ active_requests'[h] \in ActiveRequest
      /\ active_requests'[h].stage = "decoding"
      /\ active_requests'[h].engine_url = u
  BY <1>2, <1>6, StageUpdate
<1>8. statsVars' # statsVars
  BY <1>7 DEF statsVars
<1>9. PICK a \in ActiveRequest, x \in HistoryRecord :
        history' = [history EXCEPT ![h] = x] /\ x.outcome = history[h].outcome
  BY <1>1, <1>8, ResponseEffect
<1>10. \A g \in Handles : history'[g].outcome = history[g].outcome
  BY <1>1, <1>9 DEF StatsTypeOK
<1>11. Active' = Active
  BY <1>1, <1>6, <1>7, StatsAssumption DEF Active
<1> QED
  BY <1>6, <1>7, <1>10, <1>11 DEF Active

-----------------------------------------------------------------------------
(* Types, and what a step of one request leaves to the others *)

LEMMA TypeStep ==
  ASSUME LifeInv, NEW r \in Requests, Step(r)
  PROVE  LifeTypeOK'
<1>0. LifeTypeOK /\ LedgerInv /\ FailoverOK(r)
  BY DEF LifeInv
<1> USE DEF Answer, EndBody, Goto, loopVars, LifeTypeOK, Suspended, Remaining
<1>1. CASE EarlyAnswer(r)
  BY <1>0, <1>1, SMT DEF EarlyAnswer
<1>2. CASE Arrive(r)
  BY <1>0, <1>2, ZenonT(30) DEF Arrive
<1>3. CASE StartAttempt(r)
  <2>1. PICK u \in Engines : tried' = [tried EXCEPT ![r] = Append(@, u)]
    BY <1>0, <1>3 DEF StartAttempt
  <2>2. tried' \in [Requests -> Seq(Engines)]
    BY <1>0, <2>1, SMT
  <2>3. next_handle \in Int
    BY <1>0, StatsAssumption, SMT DEF LedgerInv, StatsTypeOK
  <2> QED
    BY <1>0, <1>3, <2>2, <2>3 DEF StartAttempt
<1>4. CASE RouterRaises(r)
  BY <1>0, <1>4 DEF RouterRaises
<1>5. CASE Exhausted(r)
  BY <1>0, <1>5 DEF Exhausted
<1>6. CASE AttemptFails(r)
  <2>1. tried[r] # <<>> /\ tried[r] \in Seq(Engines)
    BY <1>0, <1>6 DEF AttemptFails, FailoverOK, Generating
  <2>2. tried[r][Len(tried[r])] \in Engines
    BY <2>1, SMT
  <2> QED
    BY <1>0, <1>6, <2>2, SMT DEF AttemptFails
<1>7. CASE BackendTimeout(r)
  BY <1>0, <1>7 DEF BackendTimeout
<1>8. CASE Cancelled(r)
  BY <1>0, <1>8 DEF Cancelled
<1>9. CASE Headers(r)
  BY <1>0, <1>9 DEF Headers
<1>10. CASE Abandoned(r)
  BY <1>0, <1>10 DEF Abandoned
<1>11. CASE StartStream(r)
  BY <1>0, <1>11 DEF StartStream
<1>12. CASE Chunk(r)
  BY <1>0, <1>12, SMT DEF Chunk
<1>13. CASE ClientTakes(r)
  BY <1>0, <1>13 DEF ClientTakes
<1>14. CASE StreamEnds(r)
  BY <1>0, <1>14 DEF StreamEnds
<1>15. CASE UsageRaises(r)
  BY <1>0, <1>15 DEF UsageRaises
<1>16. CASE StreamFails(r)
  BY <1>0, <1>16 DEF StreamFails
<1>17. CASE SseStall(r)
  BY <1>0, <1>17, SMT DEF SseStall
<1>18. CASE SseStallDone(r)
  BY <1>0, <1>18, SMT DEF SseStallDone
<1>19. CASE SseStallReturn(r)
  BY <1>0, <1>19 DEF SseStallReturn
<1>20. CASE Disconnect(r)
  BY <1>0, <1>20 DEF Disconnect
<1> QED
  BY <1>1, <1>2, <1>3, <1>4, <1>5, <1>6, <1>7, <1>8, <1>9, <1>10, <1>11, <1>12, <1>13,
     <1>14, <1>15, <1>16, <1>17, <1>18, <1>19, <1>20 DEF Step

\* Nothing of request s changes.
Rests(s) ==
  /\ pc'[s] = pc[s] /\ endpoints'[s] = endpoints[s] /\ error_urls'[s] = error_urls[s]
  /\ tried'[s] = tried[s] /\ handle'[s] = handle[s] /\ last_error'[s] = last_error[s]
  /\ response'[s] = response[s] /\ chunks'[s] = chunks[s] /\ frames'[s] = frames[s]
  /\ close'[s] = close[s]

LEMMA OthersRest ==
  ASSUME LifeTypeOK, NEW r \in Requests, Step(r), NEW s \in Requests, s # r
  PROVE  Rests(s)
<1> USE DEF Answer, EndBody, Goto, loopVars, LifeTypeOK, Rests
<1>1. CASE EarlyAnswer(r)
  BY <1>1 DEF EarlyAnswer
<1>2. CASE Arrive(r)
  BY <1>2 DEF Arrive
<1>3. CASE StartAttempt(r)
  BY <1>3 DEF StartAttempt
<1>4. CASE RouterRaises(r)
  BY <1>4 DEF RouterRaises
<1>5. CASE Exhausted(r)
  BY <1>5 DEF Exhausted
<1>6. CASE AttemptFails(r)
  BY <1>6 DEF AttemptFails
<1>7. CASE BackendTimeout(r)
  BY <1>7 DEF BackendTimeout
<1>8. CASE Cancelled(r)
  BY <1>8 DEF Cancelled
<1>9. CASE Headers(r)
  BY <1>9 DEF Headers
<1>10. CASE Abandoned(r)
  BY <1>10 DEF Abandoned
<1>11. CASE StartStream(r)
  BY <1>11 DEF StartStream
<1>12. CASE Chunk(r)
  BY <1>12 DEF Chunk
<1>13. CASE ClientTakes(r)
  BY <1>13 DEF ClientTakes
<1>14. CASE StreamEnds(r)
  BY <1>14 DEF StreamEnds
<1>15. CASE UsageRaises(r)
  BY <1>15 DEF UsageRaises
<1>16. CASE StreamFails(r)
  BY <1>16 DEF StreamFails
<1>17. CASE SseStall(r)
  BY <1>17 DEF SseStall
<1>18. CASE SseStallDone(r)
  BY <1>18 DEF SseStallDone
<1>19. CASE SseStallReturn(r)
  BY <1>19 DEF SseStallReturn
<1>20. CASE Disconnect(r)
  BY <1>20 DEF Disconnect
<1> QED
  BY <1>1, <1>2, <1>3, <1>4, <1>5, <1>6, <1>7, <1>8, <1>9, <1>10, <1>11, <1>12, <1>13,
     <1>14, <1>15, <1>16, <1>17, <1>18, <1>19, <1>20 DEF Step

-----------------------------------------------------------------------------
(* What a step does to the request that takes it *)

LEMMA DoneFrame ==
  ASSUME NEW s \in Seq({"error", "done"})
  PROVE  Append(s, "done") # <<>>
<1>1. Len(Append(s, "done")) = Len(s) + 1 /\ Len(s) \in Nat
  BY SMT
<1>2. Len(s) + 1 # Len(<<>>)
  BY <1>1, SMT
<1> QED
  BY <1>1, <1>2

LEMMA StreamStep ==
  ASSUME LifeInv, NEW r \in Requests, Step(r)
  PROVE  StreamOK(r)'
<1>0. LifeTypeOK /\ StreamOK(r)
  BY DEF LifeInv
<1> USE DEF Answer, EndBody, Goto, loopVars, LifeTypeOK, StreamOK, Suspended, Generating
<1>1. CASE EarlyAnswer(r)
  BY <1>0, <1>1 DEF EarlyAnswer
<1>2. CASE Arrive(r)
  BY <1>0, <1>2 DEF Arrive
<1>3. CASE StartAttempt(r)
  BY <1>0, <1>3 DEF StartAttempt
<1>4. CASE RouterRaises(r)
  BY <1>0, <1>4 DEF RouterRaises
<1>5. CASE Exhausted(r)
  BY <1>0, <1>5 DEF Exhausted
<1>6. CASE AttemptFails(r)
  BY <1>0, <1>6 DEF AttemptFails
<1>7. CASE BackendTimeout(r)
  BY <1>0, <1>7 DEF BackendTimeout
<1>8. CASE Cancelled(r)
  BY <1>0, <1>8 DEF Cancelled
<1>9. CASE Headers(r)
  BY <1>0, <1>9 DEF Headers
<1>10. CASE Abandoned(r)
  BY <1>0, <1>10 DEF Abandoned
<1>11. CASE StartStream(r)
  BY <1>0, <1>11 DEF StartStream
<1>12. CASE Chunk(r)
  BY <1>0, <1>12 DEF Chunk
<1>13. CASE ClientTakes(r)
  BY <1>0, <1>13 DEF ClientTakes
<1>14. CASE StreamEnds(r)
  BY <1>0, <1>14 DEF StreamEnds
<1>15. CASE UsageRaises(r)
  BY <1>0, <1>15 DEF UsageRaises
<1>16. CASE StreamFails(r)
  BY <1>0, <1>16 DEF StreamFails
<1>17. CASE SseStall(r)
  BY <1>0, <1>17 DEF SseStall
<1>18. CASE SseStallDone(r)
  <2>1. /\ frames'[r] = Append(frames[r], "done") /\ pc'[r] = "done_frame" /\ pc[r] = "error_frame"
        /\ response'[r] = response[r] /\ close'[r] = close[r]
    BY <1>0, <1>18 DEF SseStallDone
  <2>2. frames[r] \in Seq({"error", "done"})
    BY <1>0
  <2>3. Append(frames[r], "done") # <<>>
    BY <2>2, DoneFrame
  <2> QED
    BY <1>0, <2>1, <2>3
<1>19. CASE SseStallReturn(r)
  BY <1>0, <1>19 DEF SseStallReturn
<1>20. CASE Disconnect(r)
  BY <1>0, <1>20 DEF Disconnect
<1> QED
  BY <1>1, <1>2, <1>3, <1>4, <1>5, <1>6, <1>7, <1>8, <1>9, <1>10, <1>11, <1>12, <1>13,
     <1>14, <1>15, <1>16, <1>17, <1>18, <1>19, <1>20 DEF Step

LEMMA LoopStep ==
  ASSUME LifeInv, NEW r \in Requests, Step(r)
  PROVE  FailoverOK(r)'
<1>0. /\ LifeTypeOK /\ FailoverOK(r) /\ StreamOK(r)
      /\ tried[r] \in Seq(Engines)
  BY DEF LifeInv, LifeTypeOK
<1> USE DEF Answer, EndBody, Goto, loopVars, LifeTypeOK, FailoverOK, Generating
<1>1. CASE EarlyAnswer(r)
  BY <1>0, <1>1 DEF EarlyAnswer
<1>2. CASE Arrive(r)
  <2>1. tried'[r] = <<>> /\ error_urls'[r] = {} /\ last_error'[r] = "none"
    BY <1>0, <1>2 DEF Arrive
  <2>2. pc'[r] \in {"routing", "done"} /\ response'[r] \in {"none", "503", "404"}
    BY <1>0, <1>2 DEF Arrive, StreamOK
  <2> QED
    BY <2>1, <2>2, LifecycleAssumption, SMTT(30) DEF UpTo, max_attempts
<1>3. CASE StartAttempt(r)
  <2> DEFINE t == tried[r]
  <2>1. PICK u \in Remaining(r) : tried' = [tried EXCEPT ![r] = Append(@, u)]
    BY <1>3 DEF StartAttempt
  <2>2. /\ tried'[r] = Append(t, u) /\ endpoints'[r] = endpoints[r]
        /\ error_urls'[r] = error_urls[r] /\ pc'[r] = "connecting"
        /\ response'[r] = "none"
    BY <1>0, <1>3, <2>1 DEF StartAttempt, StreamOK
  <2>3. /\ u \in endpoints[r] /\ u \notin UpTo(t, Len(t)) /\ error_urls[r] = UpTo(t, Len(t))
        /\ Len(t) < max_attempts
    BY <1>0, <1>3 DEF StartAttempt, Remaining, AnotherAttempt
  <2>4. /\ Len(t) \in Nat /\ Len(Append(t, u)) = Len(t) + 1
        /\ Append(t, u)[Len(t) + 1] = u
        /\ \A i \in 1 .. Len(t) : Append(t, u)[i] = t[i]
    BY <1>0, SMT
  <2>5. UpTo(Append(t, u), Len(t)) = UpTo(t, Len(t))
    BY <2>4 DEF UpTo
  <2>6. \A i \in 1 .. Len(t) : t[i] # u
    BY <2>3 DEF UpTo
  <2>7. \A i \in 1 .. Len(Append(t, u)) : i \in 1 .. Len(t) \/ i = Len(t) + 1
    BY <2>4, SMT
  <2>8. \A i, j \in 1 .. Len(Append(t, u)) : Append(t, u)[i] = Append(t, u)[j] => i = j
    <3>1. \A i, j \in 1 .. Len(t) : t[i] = t[j] => i = j
      BY <1>0
    <3> HIDE DEF t
    <3> QED
      BY <2>4, <2>6, <2>7, <3>1
  <2>9. \A i \in 1 .. Len(Append(t, u)) : Append(t, u)[i] \in endpoints[r]
    BY <1>0, <2>3, <2>4, <2>7
  <2>10. Len(Append(t, u)) <= max_attempts /\ Append(t, u) # <<>>
    <3>1. max_attempts \in Nat
      BY LifecycleAssumption, SMT DEF max_attempts
    <3>2. Len(t) + 1 <= max_attempts /\ Len(t) + 1 # 0 /\ Len(<<>>) = 0
      BY <2>3, <2>4, <3>1, SMT
    <3> QED
      BY <2>4, <3>2
  <2> QED
    BY <2>2, <2>3, <2>4, <2>5, <2>8, <2>9, <2>10, SMTT(30)
<1>4. CASE RouterRaises(r)
  BY <1>0, <1>4 DEF RouterRaises
<1>5. CASE Exhausted(r)
  <2>1. /\ tried'[r] = tried[r] /\ endpoints'[r] = endpoints[r]
        /\ error_urls'[r] = error_urls[r] /\ pc'[r] = "done"
        /\ response'[r] = IF last_error[r] = "connect" THEN "502" ELSE "500"
        /\ error_urls[r] = UpTo(tried[r], Len(tried[r]))
    BY <1>0, <1>5 DEF Exhausted
  <2>2. Len(tried[r]) \in Nat /\ max_attempts \in Nat
    BY <1>0, LifecycleAssumption, SMT DEF max_attempts
  <2>3. UpTo(tried[r], Len(tried[r])) \subseteq endpoints[r]
    BY <1>0, SMT DEF UpTo
  <2>4. Len(tried[r]) = max_attempts \/ error_urls[r] = endpoints[r]
    <3>1. ~(Len(tried[r]) < max_attempts) \/ endpoints[r] \ error_urls[r] = {}
      BY <1>5 DEF Exhausted, AnotherAttempt, Remaining
    <3>2. Len(tried[r]) <= max_attempts
      BY <1>0
    <3>3. CASE ~(Len(tried[r]) < max_attempts)
      BY <2>2, <3>2, <3>3, SMT
    <3>4. CASE endpoints[r] \ error_urls[r] = {}
      BY <2>1, <2>3, <3>4
    <3> QED
      BY <3>1, <3>3, <3>4
  <2>5. last_error[r] = "connect" => tried[r] # <<>>
    BY <1>0, <1>5 DEF Exhausted
  <2> QED
    BY <1>0, <2>1, <2>4, <2>5
<1>6. CASE AttemptFails(r)
  <2> DEFINE t == tried[r]
  <2>1. /\ tried'[r] = t /\ endpoints'[r] = endpoints[r] /\ pc'[r] = "routing"
        /\ error_urls'[r] = UpTo(t, Len(t) - 1) \cup {t[Len(t)]}
        /\ response'[r] = "none" /\ t # <<>>
    BY <1>0, <1>6 DEF AttemptFails, StreamOK
  <2>2. Len(t) \in Nat \ {0}
    BY <1>0, <2>1, SMTT(30)
  <2>3. \A i \in 1 .. Len(t) : i \in 1 .. (Len(t) - 1) \/ i = Len(t)
    BY <2>2, SMT
  <2>4. 1 .. (Len(t) - 1) \in SUBSET (1 .. Len(t)) /\ Len(t) \in 1 .. Len(t)
    BY <2>2, SMT
  <2>5. UpTo(t, Len(t) - 1) \cup {t[Len(t)]} = UpTo(t, Len(t))
    BY <2>3, <2>4 DEF UpTo
  <2> QED
    BY <1>0, <2>1, <2>5
<1>7. CASE BackendTimeout(r)
  BY <1>0, <1>7 DEF BackendTimeout
<1>8. CASE Cancelled(r)
  BY <1>0, <1>8 DEF Cancelled
<1>9. CASE Headers(r)
  BY <1>0, <1>9 DEF Headers
<1>10. CASE Abandoned(r)
  BY <1>0, <1>10 DEF Abandoned
<1>11. CASE StartStream(r)
  BY <1>0, <1>11 DEF StartStream
<1>12. CASE Chunk(r)
  BY <1>0, <1>12 DEF Chunk
<1>13. CASE ClientTakes(r)
  BY <1>0, <1>13 DEF ClientTakes
<1>14. CASE StreamEnds(r)
  BY <1>0, <1>14 DEF StreamEnds
<1>15. CASE UsageRaises(r)
  BY <1>0, <1>15 DEF UsageRaises
<1>16. CASE StreamFails(r)
  BY <1>0, <1>16 DEF StreamFails
<1>17. CASE SseStall(r)
  BY <1>0, <1>17 DEF SseStall
<1>18. CASE SseStallDone(r)
  BY <1>0, <1>18 DEF SseStallDone
<1>19. CASE SseStallReturn(r)
  BY <1>0, <1>19 DEF SseStallReturn
<1>20. CASE Disconnect(r)
  BY <1>0, <1>20 DEF Disconnect
<1> QED
  BY <1>1, <1>2, <1>3, <1>4, <1>5, <1>6, <1>7, <1>8, <1>9, <1>10, <1>11, <1>12, <1>13,
     <1>14, <1>15, <1>16, <1>17, <1>18, <1>19, <1>20 DEF Step

-----------------------------------------------------------------------------
(* The steps of a request, as the ledger sees them *)

Delivers(r) == close[r] = "clean" /\ frames[r] = <<>>

Quiet(r) ==
  /\ get_request_stats \/ UNCHANGED statsVars
  /\ pc'[r] \in Generating <=> pc[r] \in Generating
  /\ pc[r] \in Generating => /\ handle'[r] = handle[r] /\ tried'[r] = tried[r]
                             /\ chunks'[r] > 0 <=> chunks[r] > 0
  /\ ~Delivers(r) /\ ~Delivers(r)'

Begins(r) ==
  /\ pc[r] \notin Generating /\ pc'[r] \in Generating
  /\ \E u \in Engines : on_new_request(u) /\ tried'[r] = Append(tried[r], u)
  /\ handle'[r] = next_handle
  /\ chunks'[r] = 0
  /\ ~Delivers(r) /\ ~Delivers(r)'

Streams(r) ==
  /\ pc[r] \in Generating /\ pc'[r] \in Generating
  /\ on_request_response(handle[r])
  /\ chunks[r] = 0 /\ chunks'[r] = 1
  /\ handle'[r] = handle[r] /\ tried'[r] = tried[r]
  /\ ~Delivers(r) /\ ~Delivers(r)'

Retires(r, o) ==
  /\ pc[r] \in Generating /\ pc'[r] \notin Generating
  /\ finalize_request(handle[r], o)
  /\ handle'[r] = handle[r]
  /\ ~Delivers(r) /\ (Delivers(r)' <=> o = "complete")

LEMMA StepKinds ==
  ASSUME LifeInv, NEW r \in Requests, Step(r)
  PROVE  Quiet(r) \/ Begins(r) \/ Streams(r) \/ \E o \in Outcomes : Retires(r, o)
<1>0. LifeTypeOK /\ StreamOK(r)
  BY DEF LifeInv
<1> USE DEF Answer, EndBody, Goto, loopVars, LifeTypeOK, StreamOK, Suspended, Generating, Delivers
<1>1. CASE EarlyAnswer(r)
  BY <1>0, <1>1 DEF EarlyAnswer, Quiet
<1>2. CASE Arrive(r)
  BY <1>0, <1>2 DEF Arrive, Quiet
<1>3. CASE StartAttempt(r)
  BY <1>0, <1>3, SMT DEF StartAttempt, Remaining, Begins
<1>4. CASE RouterRaises(r)
  BY <1>0, <1>4 DEF RouterRaises, Quiet
<1>5. CASE Exhausted(r)
  BY <1>0, <1>5 DEF Exhausted, Quiet
<1>6. CASE AttemptFails(r)
  <2>1. Retires(r, "fail")
    BY <1>0, <1>6 DEF AttemptFails, Retires, on_request_fail
  <2> QED
    BY <2>1 DEF Outcomes
<1>7. CASE BackendTimeout(r)
  <2>1. Retires(r, "fail")
    BY <1>0, <1>7 DEF BackendTimeout, Retires, on_request_fail
  <2> QED
    BY <2>1 DEF Outcomes
<1>8. CASE Cancelled(r)
  <2>1. Retires(r, "fail") \/ Retires(r, "abort")
    BY <1>0, <1>8 DEF Cancelled, Retires, on_request_fail, on_request_abort
  <2> QED
    BY <2>1 DEF Outcomes
<1>9. CASE Headers(r)
  BY <1>0, <1>9 DEF Headers, Quiet
<1>10. CASE Abandoned(r)
  <2>1. Retires(r, "abort")
    BY <1>0, <1>10 DEF Abandoned, Retires, on_request_abort
  <2> QED
    BY <2>1 DEF Outcomes
<1>11. CASE StartStream(r)
  BY <1>0, <1>11 DEF StartStream, Quiet
<1>12. CASE Chunk(r)
  <2>1. CASE chunks[r] = 0
    BY <1>0, <1>12, <2>1, SMTT(30) DEF Chunk, Streams
  <2>2. CASE chunks[r] # 0
    BY <1>0, <1>12, <2>2, SMT DEF Chunk, Quiet
  <2> QED
    BY <2>1, <2>2
<1>13. CASE ClientTakes(r)
  BY <1>0, <1>13 DEF ClientTakes, Quiet
<1>14. CASE StreamEnds(r)
  <2>1. Retires(r, "complete")
    BY <1>0, <1>14 DEF StreamEnds, Retires, on_request_complete
  <2> QED
    BY <2>1 DEF Outcomes
<1>15. CASE UsageRaises(r)
  <2>1. Retires(r, "fail")
    BY <1>0, <1>15 DEF UsageRaises, Retires, on_request_fail
  <2> QED
    BY <2>1 DEF Outcomes
<1>16. CASE StreamFails(r)
  <2>1. Retires(r, "fail")
    BY <1>0, <1>16 DEF StreamFails, Retires, on_request_fail
  <2> QED
    BY <2>1 DEF Outcomes
<1>17. CASE SseStall(r)
  BY <1>0, <1>17 DEF SseStall, Quiet
<1>18. CASE SseStallDone(r)
  BY <1>0, <1>18 DEF SseStallDone, Quiet
<1>19. CASE SseStallReturn(r)
  <2>1. Retires(r, "fail")
    BY <1>0, <1>19 DEF SseStallReturn, Retires, on_request_fail
  <2> QED
    BY <2>1 DEF Outcomes
<1>20. CASE Disconnect(r)
  <2>1. Retires(r, "fail") \/ Retires(r, "abort")
    BY <1>0, <1>20 DEF Disconnect, Retires, on_request_fail, on_request_abort
  <2> QED
    BY <2>1 DEF Outcomes
<1> QED
  BY <1>1, <1>2, <1>3, <1>4, <1>5, <1>6, <1>7, <1>8, <1>9, <1>10, <1>11, <1>12, <1>13,
     <1>14, <1>15, <1>16, <1>17, <1>18, <1>19, <1>20 DEF Step

\* The generators that are open belong to requests in one of six states.
LEMMA Generators ==
  /\ InGenerator = {r \in Requests : pc[r] \in Generating}
  /\ InGenerator' = {r \in Requests : pc'[r] \in Generating}
BY DEF InGenerator, Generating

\* What the rest of the invariant needs to know about the ledger after a step.
Settled ==
  /\ LedgerInv' /\ Tracked' /\ DeliveredOK'
  /\ \A h \in Handles : history[h].outcome = "fail" => history'[h].outcome = "fail"

LEMMA QuietStep ==
  ASSUME LifeInv, NEW r \in Requests, \A s \in Requests \ {r} : Rests(s), Quiet(r)
  PROVE  Settled
<1>1. LedgerInv /\ Tracked /\ DeliveredOK
  BY DEF LifeInv
<1>2. active_requests' = active_requests /\ history' = history
  BY DEF Quiet, get_request_stats, statsVars
<1>3. LedgerInv'
  BY <1>1, LedgerInvInductive DEF Quiet, StatsNext
<1>4. Active' = Active
  BY <1>2 DEF Active
<1>5. InGenerator' = InGenerator
  BY Generators DEF Quiet, Rests
<1>6. \A s \in InGenerator : /\ handle'[s] = handle[s] /\ tried'[s] = tried[s]
                             /\ chunks'[s] > 0 <=> chunks[s] > 0
  BY Generators DEF Quiet, Rests
<1>7. Tracked'
  BY <1>1, <1>2, <1>4, <1>5, <1>6, SMTT(30) DEF Tracked
<1>8. Delivered' = Delivered /\ Completed' = Completed
  BY <1>2 DEF Quiet, Rests, Delivers, Delivered, Completed
<1> QED
  BY <1>1, <1>2, <1>3, <1>7, <1>8 DEF DeliveredOK, Settled

LEMMA BeginStep ==
  ASSUME LifeInv, NEW r \in Requests, \A s \in Requests \ {r} : Rests(s), Begins(r)
  PROVE  Settled
<1>1. LedgerInv /\ Tracked /\ DeliveredOK
  BY DEF LifeInv
<1>2. PICK u \in Engines : on_new_request(u) /\ tried'[r] = Append(tried[r], u)
  BY DEF Begins
<1>3. LedgerInv'
  BY <1>1, <1>2, LedgerInvInductive DEF StatsNext
<1>4. /\ next_handle \in Handles \ Active
      /\ Active' = Active \cup {next_handle}
      /\ active_requests'[next_handle].engine_url = u
      /\ active_requests'[next_handle].stage = "prefill"
      /\ \A h \in Active : active_requests'[h] = active_requests[h]
      /\ history[next_handle].outcome = "none" /\ history'[next_handle].outcome = "open"
      /\ \A h \in Handles : h # next_handle => history'[h] = history[h]
  BY <1>1, <1>2, BeginEffect
<1>5. InGenerator' = InGenerator \cup {r} /\ r \notin InGenerator
  BY Generators DEF Begins, Rests
<1>6. \A s \in InGenerator : /\ handle'[s] = handle[s] /\ tried'[s] = tried[s]
                             /\ chunks'[s] = chunks[s]
  BY <1>5, Generators DEF Rests
<1>7. handle'[r] = next_handle /\ chunks'[r] = 0 /\ tried'[r][Len(tried'[r])] = u
  <2>1. tried[r] \in Seq(Engines)
    BY DEF LifeInv, LifeTypeOK
  <2> QED
    BY <1>2, <2>1, SMTT(30) DEF Begins
<1>8. Tracked'
  <2>1. \A s \in InGenerator : /\ handle[s] \in Active
                               /\ active_requests[handle[s]].engine_url = tried[s][Len(tried[s])]
                               /\ active_requests[handle[s]].stage =
                                    IF chunks[s] > 0 THEN "decoding" ELSE "prefill"
    BY <1>1 DEF Tracked
  <2>2. ASSUME NEW s \in InGenerator'
        PROVE  /\ handle'[s] \in Active'
               /\ active_requests'[handle'[s]].engine_url = tried'[s][Len(tried'[s])]
               /\ active_requests'[handle'[s]].stage =
                    IF chunks'[s] > 0 THEN "decoding" ELSE "prefill"
    <3>1. CASE s = r
      BY <1>4, <1>7, <3>1, SMT
    <3>2. CASE s \in InGenerator
      BY <1>4, <1>6, <2>1, <3>2
    <3> QED
      BY <1>5, <3>1, <3>2
  <2>3. \A x, y \in InGenerator' : handle'[x] = handle'[y] => x = y
    BY <1>1, <1>4, <1>5, <1>6, <1>7, SMTT(30) DEF Tracked
  <2>4. \A h \in Active' : \E s \in InGenerator' : handle'[s] = h
    BY <1>1, <1>4, <1>5, <1>6, <1>7, SMT DEF Tracked
  <2> QED
    BY <2>2, <2>3, <2>4 DEF Tracked
<1>9. Delivered' = Delivered
  BY DEF Begins, Rests, Delivers, Delivered
<1>10. Completed' = Completed
  BY <1>4 DEF Completed
<1> QED
  BY <1>1, <1>3, <1>4, <1>8, <1>9, <1>10 DEF DeliveredOK, Settled

LEMMA FirstChunkStep ==
  ASSUME LifeInv, NEW r \in Requests, \A s \in Requests \ {r} : Rests(s), Streams(r)
  PROVE  Settled
<1>1. LedgerInv /\ Tracked /\ DeliveredOK
  BY DEF LifeInv
<1> DEFINE h == handle[r]
<1>2. r \in InGenerator
  BY Generators DEF Streams
<1>3. /\ h \in Active /\ active_requests[h].stage = "prefill"
      /\ active_requests[h].engine_url = tried[r][Len(tried[r])]
  BY <1>1, <1>2, SMTT(30) DEF Tracked, Streams
<1>4. /\ Active' = Active
      /\ active_requests'[h].stage = "decoding"
      /\ active_requests'[h].engine_url = active_requests[h].engine_url
      /\ \A g \in Active \ {h} : active_requests'[g] = active_requests[g]
      /\ \A g \in Handles : history'[g].outcome = history[g].outcome
  BY <1>1, <1>3, FirstTokenEffect DEF Streams
<1>5. LedgerInv'
  BY <1>1, <1>3, LedgerInvInductive DEF Streams, StatsNext, Active
<1>6. InGenerator' = InGenerator
  BY Generators DEF Streams, Rests
<1>7. \A s \in InGenerator : handle'[s] = handle[s] /\ tried'[s] = tried[s]
  BY Generators DEF Rests, Streams
<1>8. chunks'[r] > 0 /\ \A s \in InGenerator : s # r => chunks'[s] = chunks[s] /\ handle[s] # h
  BY <1>1, <1>2, Generators, SMTT(30) DEF Rests, Streams, Tracked
<1>9. Tracked'
  BY <1>1, <1>2, <1>3, <1>4, <1>6, <1>7, <1>8, SMTT(30) DEF Tracked
<1>10. Delivered' = Delivered
  BY DEF Streams, Rests, Delivers, Delivered
<1>11. Completed' = Completed
  BY <1>4 DEF Completed
<1> QED
  BY <1>1, <1>4, <1>5, <1>9, <1>10, <1>11 DEF DeliveredOK, Settled

LEMMA RetireStep ==
  ASSUME LifeInv, NEW r \in Requests, \A s \in Requests \ {r} : Rests(s),
         NEW o \in Outcomes, Retires(r, o)
  PROVE  Settled /\ handle[r] \in Handles /\ history'[handle[r]].outcome = o
<1>1. LedgerInv /\ Tracked /\ DeliveredOK
  BY DEF LifeInv
<1> DEFINE h == handle[r]
<1>2. r \in InGenerator
  BY Generators DEF Retires
<1>3. h \in Active /\ h \in Handles
  BY <1>1, <1>2 DEF Tracked, Active
<1>4. /\ Active' = Active \ {h}
      /\ \A g \in Active \ {h} : active_requests'[g] = active_requests[g]
      /\ history[h].outcome = "open" /\ history'[h].outcome = o
      /\ \A g \in Handles \ {h} : history'[g] = history[g]
  BY <1>1, <1>3, RetireEffect DEF Retires
<1>5. LedgerInv'
  BY <1>1, <1>3, LedgerInvInductive
     DEF Retires, StatsNext, Outcomes, on_request_complete, on_request_fail, on_request_abort
<1>6. InGenerator' = InGenerator \ {r}
  BY Generators DEF Retires, Rests
<1>7. \A s \in InGenerator \ {r} : /\ handle'[s] = handle[s] /\ tried'[s] = tried[s]
                                   /\ chunks'[s] = chunks[s] /\ handle[s] # h
  BY <1>1, <1>2, Generators DEF Rests, Tracked
<1>8. Tracked'
  BY <1>1, <1>2, <1>3, <1>4, <1>6, <1>7, SMTT(30) DEF Tracked
<1>9. DeliveredOK'
  <2>1. CASE o = "complete"
    <3>1. Completed' = Completed \cup {h} /\ h \notin Completed /\ Completed \in SUBSET Handles
      BY <1>3, <1>4, <2>1, SMT DEF Completed
    <3>2. Delivered' = Delivered \cup {r} /\ r \notin Delivered
      BY <2>1 DEF Retires, Rests, Delivers, Delivered
    <3>3. Cardinality(Completed') = Cardinality(Completed) + 1
      BY <1>3, <3>1, CountAdd
    <3>4. IsFiniteSet(Delivered') /\ Cardinality(Delivered') = Cardinality(Delivered) + 1
      BY <1>1, <3>2, FS_AddElement DEF DeliveredOK
    <3> QED
      BY <1>1, <3>3, <3>4 DEF DeliveredOK
  <2>2. CASE o # "complete"
    <3>1. Completed' = Completed
      BY <1>3, <1>4, <2>2 DEF Completed
    <3>2. Delivered' = Delivered
      BY <2>2 DEF Retires, Rests, Delivers, Delivered
    <3> QED
      BY <1>1, <3>1, <3>2 DEF DeliveredOK
  <2> QED
    BY <2>1, <2>2
<1> QED
  BY <1>3, <1>4, <1>5, <1>8, <1>9 DEF Settled

\* Only the two steps that time an attempt out say so, and they retire it as failed.
LEMMA TimeoutStep ==
  ASSUME LifeInv, NEW r \in Requests, Step(r)
  PROVE  TimeoutOK(r)'
<1>0. LifeTypeOK /\ TimeoutOK(r)
  BY DEF LifeInv
<1>1. \A s \in Requests \ {r} : Rests(s)
  BY <1>0, OthersRest
<1> USE DEF Answer, EndBody, Goto, loopVars, LifeTypeOK, TimeoutOK
<1>2. CASE ~(BackendTimeout(r) \/ Cancelled(r))
  <2>1. CASE EarlyAnswer(r)
    BY <1>0, <2>1 DEF EarlyAnswer
  <2>2. CASE Arrive(r)
    BY <1>0, <2>2 DEF Arrive
  <2>3. CASE StartAttempt(r)
    BY <1>0, <2>3 DEF StartAttempt
  <2>4. CASE RouterRaises(r)
    BY <1>0, <2>4 DEF RouterRaises
  <2>5. CASE Exhausted(r)
    BY <1>0, <2>5 DEF Exhausted
  <2>6. CASE AttemptFails(r)
    BY <1>0, <2>6 DEF AttemptFails
  <2>7. CASE Headers(r)
    BY <1>0, <2>7 DEF Headers
  <2>8. CASE Abandoned(r)
    BY <1>0, <2>8 DEF Abandoned
  <2>9. CASE StartStream(r)
    BY <1>0, <2>9 DEF StartStream
  <2>10. CASE Chunk(r)
    BY <1>0, <2>10 DEF Chunk
  <2>11. CASE ClientTakes(r)
    BY <1>0, <2>11 DEF ClientTakes
  <2>12. CASE StreamEnds(r)
    BY <1>0, <2>12 DEF StreamEnds
  <2>13. CASE UsageRaises(r)
    BY <1>0, <2>13 DEF UsageRaises
  <2>14. CASE StreamFails(r)
    BY <1>0, <2>14 DEF StreamFails
  <2>15. CASE SseStall(r)
    BY <1>0, <2>15 DEF SseStall
  <2>16. CASE SseStallDone(r)
    BY <1>0, <2>16 DEF SseStallDone
  <2>17. CASE SseStallReturn(r)
    BY <1>0, <2>17 DEF SseStallReturn
  <2>18. CASE Disconnect(r)
    BY <1>0, <2>18 DEF Disconnect
  <2> QED
    BY <1>2, <2>1, <2>2, <2>3, <2>4, <2>5, <2>6, <2>7, <2>8, <2>9, <2>10, <2>11, <2>12, <2>13, <2>14, <2>15, <2>16, <2>17, <2>18 DEF Step
<1>3. ASSUME NEW o \in Outcomes, pc[r] = "connecting", pc'[r] = "done", handle' = handle,
             ~Delivers(r), ~Delivers(r)', finalize_request(handle[r], o), o # "complete"
      PROVE  handle'[r] \in Handles /\ history'[handle'[r]].outcome = o
  <2>1. Retires(r, o)
    BY <1>3 DEF Retires, Generating
  <2>2. handle[r] \in Handles /\ history'[handle[r]].outcome = o
    BY <1>1, <2>1, RetireStep
  <2> QED
    BY <1>3, <2>2
<1>4. CASE BackendTimeout(r)
  <2>1. /\ pc[r] = "connecting" /\ pc'[r] = "done" /\ handle' = handle
        /\ finalize_request(handle[r], "fail") /\ response'[r] = "504"
        /\ close' = close /\ close[r] = "open"
    BY <1>0, <1>4 DEF BackendTimeout, on_request_fail, StreamOK, LifeInv
  <2>2. handle'[r] \in Handles /\ history'[handle'[r]].outcome = "fail"
    BY <1>3, <2>1 DEF Outcomes, Delivers
  <2> QED
    BY <2>1, <2>2
<1>5. CASE Cancelled(r)
  <2>1. /\ pc[r] = "connecting" /\ pc'[r] = "done" /\ handle' = handle
        /\ response'[r] = "cancelled"
        /\ close' = close /\ close[r] = "open"
    BY <1>0, <1>5 DEF Cancelled, StreamOK, LifeInv
  <2>2. finalize_request(handle[r], "fail") \/ last_error'[r] = last_error[r]
    BY <1>0, <1>5 DEF Cancelled, on_request_fail
  <2>3. last_error[r] # "timeout"
    BY <1>0, <2>1
  <2>4. CASE finalize_request(handle[r], "fail")
    <3>1. handle'[r] \in Handles /\ history'[handle'[r]].outcome = "fail"
      BY <1>3, <2>1, <2>4 DEF Outcomes, Delivers
    <3> QED
      BY <2>1, <3>1
  <2> QED
    BY <2>2, <2>3, <2>4
<1> QED
  BY <1>2, <1>4, <1>5

\* Nothing of what is promised to a request depends on the other ones.
LEMMA RestingOK ==
  ASSUME NEW s \in Requests, Rests(s), FailoverOK(s), StreamOK(s), TimeoutOK(s),
         \A h \in Handles : history[h].outcome = "fail" => history'[h].outcome = "fail"
  PROVE  (FailoverOK(s) /\ StreamOK(s) /\ TimeoutOK(s))'
<1>1. FailoverOK(s)'
  BY DEF Rests, FailoverOK
<1>2. StreamOK(s)'
  BY DEF Rests, StreamOK
<1>3. TimeoutOK(s)'
  BY DEF Rests, TimeoutOK
<1> QED
  BY <1>1, <1>2, <1>3

LEMMA LifeStep ==
  ASSUME LifeInv, [LifeNext]_lifeVars
  PROVE  LifeInv'
<1>1. ASSUME NEW r \in Requests, Step(r) PROVE LifeInv'
  <2>1. LifeTypeOK'
    BY <1>1, TypeStep
  <2>2. \A s \in Requests \ {r} : Rests(s)
    BY <1>1, OthersRest DEF LifeInv
  <2>3. Settled
    BY <1>1, <2>2, StepKinds, QuietStep, BeginStep, FirstChunkStep, RetireStep
  <2>4. (FailoverOK(r) /\ StreamOK(r) /\ TimeoutOK(r))'
    BY <1>1, StreamStep, LoopStep, TimeoutStep
  <2>5. \A s \in Requests \ {r} : (FailoverOK(s) /\ StreamOK(s) /\ TimeoutOK(s))'
    BY <2>2, <2>3, RestingOK DEF LifeInv, Settled
  <2> QED
    BY <2>1, <2>3, <2>4, <2>5 DEF LifeInv, Settled
<1>2. CASE [StatsNext]_statsVars /\ UNCHANGED <<active_requests, history>> /\ UNCHANGED localVars
  <2>1. LedgerInv'
    BY <1>2, LedgerInvInductive DEF LifeInv
  <2>2. LifeTypeOK'
    BY <1>2 DEF LifeInv, LifeTypeOK, localVars
  <2>3. Active' = Active /\ InGenerator' = InGenerator
    BY <1>2 DEF Active, InGenerator, localVars
  <2>4. Tracked'
    BY <1>2, <2>3 DEF LifeInv, Tracked, localVars
  <2>5. DeliveredOK'
    BY <1>2 DEF LifeInv, DeliveredOK, Delivered, Completed, localVars
  <2>6. \A s \in Requests : Rests(s)
    BY <1>2 DEF Rests, localVars
  <2>7. \A s \in Requests : (FailoverOK(s) /\ StreamOK(s) /\ TimeoutOK(s))'
    BY <1>2, <2>6, RestingOK DEF LifeInv
  <2> QED
    BY <2>1, <2>2, <2>4, <2>5, <2>7 DEF LifeInv
<1>3. Observe => [StatsNext]_statsVars /\ UNCHANGED <<active_requests, history>> /\ UNCHANGED localVars
  BY DEF Observe, StatsNext, get_request_stats
<1>4. Clock => [StatsNext]_statsVars /\ UNCHANGED <<active_requests, history>> /\ UNCHANGED localVars
  BY DEF Clock, StatsNext, Tick
<1>5. UNCHANGED lifeVars =>
        [StatsNext]_statsVars /\ UNCHANGED <<active_requests, history>> /\ UNCHANGED localVars
  BY DEF lifeVars, statsVars
<1> QED
  BY <1>1, <1>2, <1>3, <1>4, <1>5 DEF LifeNext, AllDone

LEMMA LifeInitially == LifeInit => LifeInv
<1> SUFFICES ASSUME LifeInit PROVE LifeInv
  OBVIOUS
<1>1. LedgerInv
  BY LedgerInvInit DEF LifeInit
<1>2. LifeTypeOK
  BY SMT DEF LifeInit, LifeTypeOK, Suspended, NoHandle
<1>3. InGenerator = {} /\ Active = {}
  BY DEF LifeInit, StatsInit, InGenerator, Active
<1>4. Tracked
  BY <1>3 DEF Tracked
<1>5. ASSUME NEW r \in Requests PROVE FailoverOK(r) /\ StreamOK(r) /\ TimeoutOK(r)
  BY LifecycleAssumption, SMTT(30)
     DEF LifeInit, FailoverOK, StreamOK, TimeoutOK, Generating, Suspended, max_attempts
<1>6. Delivered = {} /\ Completed = {}
  BY DEF LifeInit, StatsInit, Delivered, Completed
<1>7. DeliveredOK
  BY <1>6, FS_EmptySet DEF DeliveredOK
<1> QED
  BY <1>1, <1>2, <1>4, <1>5, <1>7 DEF LifeInv

LEMMA LifeInvariant == LifeSpec => []LifeInv
<1>1. LifeInv /\ [LifeNext]_lifeVars => LifeInv'
  BY LifeStep
<1> QED
  BY <1>1, LifeInitially, PTL DEF LifeSpec

-----------------------------------------------------------------------------
(* The theorems *)

\* However many requests fail over, time out, stall and disconnect at once, the live
\* records of the ledger are exactly the open process_request generators.
THEOREM LedgerTracks == LifeSpec => []LedgerTracksGenerators
<1>1. LifeInv => LedgerTracksGenerators
  BY SMTT(30) DEF LifeInv, Tracked, LedgerTracksGenerators
<1> QED
  BY <1>1, LifeInvariant, PTL

\* For any budget, the failover loop of route_general_request tries distinct
\* candidates of the request's snapshot, and no more than the budget allows.
THEOREM FailoverDistinct == LifeSpec => []RotationDistinct
<1>1. LifeInv => RotationDistinct
  BY DEF LifeInv, FailoverOK, RotationDistinct
<1> QED
  BY <1>1, LifeInvariant, PTL

\* A 502 means that every candidate, or as many as the budget allows, was tried.
THEOREM BadGatewayExhausts == LifeSpec => []BadGatewayIsExhaustion
<1>1. LifeInv => BadGatewayIsExhaustion
  BY DEF LifeInv, FailoverOK, UpTo, BadGatewayIsExhaustion
<1> QED
  BY <1>1, LifeInvariant, PTL

\* A set of distinct values listed by a sequence has as many members as the sequence.
LEMMA DistinctCount ==
  ASSUME NEW n \in Nat, NEW t, \A i, j \in 1 .. n : t[i] = t[j] => i = j
  PROVE  Cardinality(UpTo(t, n)) = n
<1> DEFINE f == [i \in 1 .. n |-> t[i]]
<1>1. f \in Bijection(1 .. n, UpTo(t, n))
  BY DEF UpTo, Bijection, Injection, Surjection, IsInjective
<1>2. IsFiniteSet(1 .. n) /\ Cardinality(1 .. n) = n
  BY FS_Interval, SMT
<1> QED
  BY <1>1, <1>2, FS_Bijection DEF ExistsBijection

\* A timeout ends its request: nothing is tried after it, and the ledger has the
\* attempt as failed whatever else happened at that moment.
THEOREM TimeoutIsLast == LifeSpec => []TimeoutEndsRequest
<1>1. LifeInv => TimeoutEndsRequest
  <2> SUFFICES ASSUME LifeInv, NEW r \in Requests
               PROVE  /\ last_error[r] = "timeout" =>
                           /\ response[r] \in {"504", "cancelled"}
                           /\ history[handle[r]].outcome = "fail"
                      /\ response[r] = "504" => Cardinality(error_urls[r]) = Len(tried[r]) - 1
    BY DEF TimeoutEndsRequest
  <2>1. FailoverOK(r) /\ TimeoutOK(r) /\ tried[r] \in Seq(Engines)
    BY DEF LifeInv, LifeTypeOK
  <2>2. ASSUME response[r] = "504" PROVE Cardinality(error_urls[r]) = Len(tried[r]) - 1
    <3>1. Len(tried[r]) - 1 \in Nat /\ error_urls[r] = UpTo(tried[r], Len(tried[r]) - 1)
      BY <2>1, <2>2, SMTT(30) DEF FailoverOK
    <3>2. \A i, j \in 1 .. (Len(tried[r]) - 1) : tried[r][i] = tried[r][j] => i = j
      BY <2>1, <3>1, SMTT(30) DEF FailoverOK
    <3> QED
      BY <3>1, <3>2, DistinctCount, SMTT(30)
  <2> QED
    BY <2>1, <2>2 DEF TimeoutOK
<1> QED
  BY <1>1, LifeInvariant, PTL

\* finished_requests counts the bodies that were relayed to their end, no other.
THEOREM FinishedDelivered == LifeSpec => []FinishedAsDelivered
<1>1. LifeInv => FinishedAsDelivered
  BY DEF LifeInv, DeliveredOK, Delivered, Completed, FinishedAsDelivered
<1> QED
  BY <1>1, LifeInvariant, PTL

-----------------------------------------------------------------------------
(* The requests and the statistics *)

LEMMA MonitorMoves ==
  ASSUME LifeInv, [LifeNext]_lifeVars
  PROVE  [StatsNext]_statsVars
<1>1. ASSUME NEW r \in Requests, Step(r) PROVE [StatsNext]_statsVars
  <2>1. CASE Quiet(r)
    BY <2>1 DEF Quiet, StatsNext
  <2>2. CASE Begins(r)
    BY <2>2 DEF Begins, StatsNext
  <2>3. ASSUME r \in InGenerator PROVE handle[r] \in Handles
    BY <2>3 DEF LifeInv, Tracked, Active
  <2>4. CASE Streams(r)
    BY <2>3, <2>4, Generators DEF Streams, StatsNext
  <2>5. ASSUME NEW o \in Outcomes, Retires(r, o) PROVE [StatsNext]_statsVars
    <3>1. handle[r] \in Handles
      BY <2>3, <2>5, Generators DEF Retires
    <3> QED
      BY <2>5, <3>1
         DEF Retires, StatsNext, Outcomes, on_request_complete, on_request_fail, on_request_abort
  <2> QED
    BY <1>1, <2>1, <2>2, <2>4, <2>5, StepKinds
<1>2. CASE Observe
  BY <1>2 DEF Observe, StatsNext
<1>3. CASE Clock
  BY <1>3 DEF Clock, StatsNext
<1>4. CASE UNCHANGED lifeVars
  BY <1>4 DEF lifeVars
<1> QED
  BY <1>1, <1>2, <1>3, <1>4 DEF LifeNext, AllDone

\* Proxied requests call the monitor only in ways it is specified for, on handles it
\* has given out, so all that is proved of the monitor holds under the router's traffic.
THEOREM RequestsDriveMonitor == LifeSpec => StatsSpec
<1>1. LifeInv /\ [LifeNext]_lifeVars => [StatsNext]_statsVars
  BY MonitorMoves
<1>2. LifeInit => StatsInit
  BY DEF LifeInit
<1> QED
  BY <1>1, <1>2, LifeInvariant, PTL DEF LifeSpec, StatsSpec

\* The router with its failovers, timeouts, stalls and disconnects implements the
\* abstract ledger: each attempt of each request is begun once and retired once.
THEOREM RequestsKeepLedger == LifeSpec => ImplementsLedger
  BY RequestsDriveMonitor, LedgerRefinement

-----------------------------------------------------------------------------
(* The failover loop ends *)

Unanswered == {"idle", "routing", "connecting", "headers"}

\* A bound on the steps that a request may still take before its response starts.
Left(r) ==
  CASE pc[r] = "idle" -> 2 * max_attempts + 3
    [] pc[r] = "routing" -> 2 * (max_attempts - Len(tried[r])) + 2
    [] pc[r] = "connecting" -> 2 * (max_attempts - Len(tried[r])) + 3
    [] pc[r] = "headers" -> 1
    [] OTHER -> 0

\* Until its response starts, every step of a request brings it nearer, and no
\* step of another request or of a reader of the statistics takes it back.
AnswerNearer ==
  \A r \in Requests :
    \/ pc[r] \notin Unanswered
    \/ pc'[r] = pc[r] /\ Left(r)' = Left(r)
    \/ Left(r)' < Left(r)

\* Nothing is left exactly when a response was started.
LeftUntilAnswer ==
  \A r \in Requests : Left(r) \in Nat /\ (Left(r) = 0 <=> response[r] # "none")

\* Which way a request goes from the states before its response.
LEMMA LoopMoves ==
  ASSUME LifeInv, NEW r \in Requests, Step(r)
  PROVE  /\ pc[r] = "idle" => tried'[r] = <<>> /\ pc'[r] \in {"routing", "done"}
         /\ pc[r] = "routing" =>
              \/ pc'[r] = "done"
              \/ pc'[r] = "connecting" /\ \E u \in Engines : tried'[r] = Append(tried[r], u)
         /\ pc[r] = "connecting" =>
              \/ pc'[r] \in {"headers", "done"}
              \/ pc'[r] = "routing" /\ tried'[r] = tried[r]
         /\ pc[r] = "headers" => pc'[r] \in {"reading", "done"}
<1>1. LifeTypeOK /\ FailoverOK(r)
  BY DEF LifeInv
<1> USE DEF Answer, Goto, LifeTypeOK, loopVars
<1>2. CASE pc[r] = "idle"
  <2>1. EarlyAnswer(r) \/ Arrive(r)
    BY <1>2 DEF Step, StartAttempt, RouterRaises, Exhausted, AttemptFails, BackendTimeout, Cancelled,
                Headers, Abandoned, StartStream, Chunk, ClientTakes, StreamEnds, UsageRaises,
                StreamFails, SseStall, SseStallDone, SseStallReturn, Disconnect
  <2>2. tried[r] = <<>>
    BY <1>1, <1>2 DEF FailoverOK
  <2> QED
    BY <1>1, <1>2, <2>1, <2>2 DEF EarlyAnswer, Arrive
<1>3. CASE pc[r] = "routing"
  <2>1. StartAttempt(r) \/ RouterRaises(r) \/ Exhausted(r)
    BY <1>3 DEF Step, EarlyAnswer, Arrive, AttemptFails, BackendTimeout, Cancelled,
                Headers, Abandoned, StartStream, Chunk, ClientTakes, StreamEnds, UsageRaises,
                StreamFails, SseStall, SseStallDone, SseStallReturn, Disconnect
  <2>2. CASE StartAttempt(r)
    <3>1. PICK u \in Remaining(r) : tried' = [tried EXCEPT ![r] = Append(@, u)]
      BY <2>2 DEF StartAttempt
    <3>2. u \in Engines
      BY <1>1 DEF Remaining
    <3>3. tried'[r] = Append(tried[r], u)
      BY <1>1, <3>1
    <3>4. pc'[r] = "connecting"
      BY <1>1, <2>2 DEF StartAttempt
    <3> QED
      BY <1>3, <3>2, <3>3, <3>4
  <2>3. CASE RouterRaises(r) \/ Exhausted(r)
    BY <1>1, <1>3, <2>3 DEF RouterRaises, Exhausted
  <2> QED
    BY <2>1, <2>2, <2>3
<1>4. CASE pc[r] = "connecting"
  <2>1. AttemptFails(r) \/ BackendTimeout(r) \/ Cancelled(r) \/ Headers(r)
    BY <1>4 DEF Step, EarlyAnswer, Arrive, StartAttempt, RouterRaises, Exhausted,
                Abandoned, StartStream, Chunk, ClientTakes, StreamEnds, UsageRaises,
                StreamFails, SseStall, SseStallDone, SseStallReturn, Disconnect
  <2> QED
    BY <1>1, <1>4, <2>1 DEF AttemptFails, BackendTimeout, Cancelled, Headers
<1>5. CASE pc[r] = "headers"
  <2>1. Abandoned(r) \/ StartStream(r)
    BY <1>5 DEF Step, EarlyAnswer, Arrive, StartAttempt, RouterRaises, Exhausted, AttemptFails,
                BackendTimeout, Cancelled, Headers, Chunk, ClientTakes, StreamEnds, UsageRaises,
                StreamFails, SseStall, SseStallDone, SseStallReturn, Disconnect
  <2> QED
    BY <1>1, <1>5, <2>1 DEF Abandoned, StartStream
<1> QED
  BY <1>2, <1>3, <1>4, <1>5

\* What is left, state by state.
LEMMA LeftIs ==
  ASSUME NEW r \in Requests
  PROVE  /\ pc[r] = "idle" => Left(r) = 2 * max_attempts + 3
         /\ pc[r] = "routing" => Left(r) = 2 * (max_attempts - Len(tried[r])) + 2
         /\ pc[r] = "connecting" => Left(r) = 2 * (max_attempts - Len(tried[r])) + 3
         /\ pc[r] = "headers" => Left(r) = 1
         /\ pc[r] \notin Unanswered => Left(r) = 0
BY DEF Left, Unanswered

LEMMA LeftIsNext ==
  ASSUME NEW r \in Requests
  PROVE  /\ pc'[r] = "idle" => Left(r)' = 2 * max_attempts + 3
         /\ pc'[r] = "routing" => Left(r)' = 2 * (max_attempts - Len(tried'[r])) + 2
         /\ pc'[r] = "connecting" => Left(r)' = 2 * (max_attempts - Len(tried'[r])) + 3
         /\ pc'[r] = "headers" => Left(r)' = 1
         /\ pc'[r] \notin Unanswered => Left(r)' = 0
BY DEF Left, Unanswered, max_attempts

\* What is left after t of m attempts, compared with what was left before.
LEMMA LeftCompared ==
  ASSUME NEW m \in Nat, NEW t \in Nat, t <= m
  PROVE  /\ 2 * m + 3 \in Nat /\ 2 * (m - t) + 2 \in Nat /\ 2 * (m - t) + 3 \in Nat /\ 1 \in Nat
         /\ 0 < 2 * m + 3 /\ 0 < 2 * (m - t) + 2 /\ 0 < 2 * (m - t) + 3 /\ 0 < 1
         /\ 2 * m + 3 # 0 /\ 2 * (m - t) + 2 # 0 /\ 2 * (m - t) + 3 # 0 /\ 1 # 0
         /\ t = 0 => 2 * (m - t) + 2 < 2 * m + 3
         /\ 2 * (m - (t + 1)) + 3 < 2 * (m - t) + 2
         /\ 1 < 2 * (m - t) + 3 /\ 2 * (m - t) + 2 < 2 * (m - t) + 3
BY SMT

\* Each attempt leaves less of the budget, and the tries of an attempt are bounded:
\* whatever the backends do, the loop of route_general_request cannot go on for ever.
THEOREM FailoverEnds == LifeSpec => [][AnswerNearer]_lifeVars
<1>1. ASSUME LifeInv, LifeInv', [LifeNext]_lifeVars PROVE AnswerNearer
  <2> SUFFICES ASSUME NEW r \in Requests, pc[r] \in Unanswered,
                      ~(pc'[r] = pc[r] /\ Left(r)' = Left(r))
               PROVE  Left(r)' < Left(r)
    BY DEF AnswerNearer
  <2>1. max_attempts \in Nat
    BY LifecycleAssumption, SMT DEF max_attempts
  <2>2. /\ tried[r] \in Seq(Engines) /\ tried'[r] \in Seq(Engines)
        /\ Len(tried[r]) <= max_attempts /\ Len(tried'[r]) <= max_attempts
    <3>1. LifeTypeOK /\ LifeTypeOK' /\ FailoverOK(r) /\ FailoverOK(r)'
      BY <1>1 DEF LifeInv
    <3>2. tried[r] \in Seq(Engines) /\ tried'[r] \in Seq(Engines)
      BY <3>1 DEF LifeTypeOK
    <3>3. Len(tried[r]) <= max_attempts /\ Len(tried'[r]) <= max_attempts
      BY <3>1 DEF FailoverOK, max_attempts
    <3> QED
      BY <3>2, <3>3
  <2>3. Len(tried[r]) \in Nat /\ Len(tried'[r]) \in Nat
    BY <2>2, SMT
  <2>4. Step(r)
    <3>1. \A s \in Requests : Step(s) /\ s # r => pc'[r] = pc[r] /\ tried'[r] = tried[r]
      BY <1>1, OthersRest DEF LifeInv, Rests
    <3>2. Observe \/ Clock \/ UNCHANGED lifeVars => pc'[r] = pc[r] /\ tried'[r] = tried[r]
      BY DEF Observe, Clock, localVars, lifeVars
    <3>3. pc'[r] = pc[r] /\ tried'[r] = tried[r] => Left(r)' = Left(r)
      BY LeftIs, LeftIsNext DEF Unanswered
    <3> QED
      BY <1>1, <3>1, <3>2, <3>3 DEF LifeNext, AllDone
  <2>5. CASE pc[r] = "idle"
    <3>1. CASE pc'[r] = "routing" /\ tried'[r] = <<>>
      <4>1. Len(tried'[r]) = 0
        BY <3>1, SMT
      <4>2. 2 * (max_attempts - Len(tried'[r])) + 2 < 2 * max_attempts + 3
        BY <2>1, <2>2, <2>3, <4>1, LeftCompared
      <4>3. /\ Left(r) = 2 * max_attempts + 3
            /\ Left(r)' = 2 * (max_attempts - Len(tried'[r])) + 2
        BY <2>5, <3>1, LeftIs, LeftIsNext
      <4> QED
        BY <4>2, <4>3
    <3>2. CASE pc'[r] = "done"
      BY <2>1, <2>2, <2>3, <2>5, <3>2, LeftIs, LeftIsNext, LeftCompared DEF Unanswered
    <3> QED
      BY <1>1, <2>4, <2>5, <3>1, <3>2, LoopMoves
  <2>6. CASE pc[r] = "routing"
    <3>1. CASE pc'[r] = "done"
      BY <2>1, <2>2, <2>3, <2>6, <3>1, LeftIs, LeftIsNext, LeftCompared DEF Unanswered
    <3>2. ASSUME NEW u \in Engines, pc'[r] = "connecting", tried'[r] = Append(tried[r], u)
          PROVE  Left(r)' < Left(r)
      <4>1. Len(tried'[r]) = Len(tried[r]) + 1
        BY <2>2, <3>2, SMT
      <4>2. 2 * (max_attempts - (Len(tried[r]) + 1)) + 3 < 2 * (max_attempts - Len(tried[r])) + 2
        BY <2>1, <2>2, <2>3, LeftCompared
      <4>3. /\ Left(r) = 2 * (max_attempts - Len(tried[r])) + 2
            /\ Left(r)' = 2 * (max_attempts - (Len(tried[r]) + 1)) + 3
        BY <2>6, <3>2, <4>1, LeftIs, LeftIsNext
      <4> QED
        BY <4>2, <4>3
    <3> QED
      BY <1>1, <2>4, <2>6, <3>1, <3>2, LoopMoves
  <2>7. CASE pc[r] = "connecting"
    <3>1. CASE pc'[r] = "done"
      BY <2>1, <2>2, <2>3, <2>7, <3>1, LeftIs, LeftIsNext, LeftCompared DEF Unanswered
    <3>2. CASE pc'[r] = "headers"
      BY <2>1, <2>2, <2>3, <2>7, <3>2, LeftIs, LeftIsNext, LeftCompared
    <3>3. CASE pc'[r] = "routing" /\ tried'[r] = tried[r]
      <4>1. 2 * (max_attempts - Len(tried[r])) + 2 < 2 * (max_attempts - Len(tried[r])) + 3
        BY <2>1, <2>2, <2>3, LeftCompared
      <4>2. /\ Left(r) = 2 * (max_attempts - Len(tried[r])) + 3
            /\ Left(r)' = 2 * (max_attempts - Len(tried[r])) + 2
        BY <2>7, <3>3, LeftIs, LeftIsNext
      <4> QED
        BY <4>1, <4>2
    <3> QED
      BY <1>1, <2>4, <2>7, <3>1, <3>2, <3>3, LoopMoves
  <2>8. CASE pc[r] = "headers"
    <3>1. pc'[r] \notin Unanswered
      BY <1>1, <2>4, <2>8, LoopMoves DEF Unanswered
    <3> QED
      BY <2>1, <2>2, <2>3, <2>8, <3>1, LeftIs, LeftIsNext, LeftCompared
  <2> QED
    BY <2>5, <2>6, <2>7, <2>8 DEF Unanswered
<1> QED
  BY <1>1, LifeInvariant, PTL DEF LifeSpec

Responded == \A r \in Requests : pc[r] = "done" => response[r] # "none"

LEMMA RespondedStep ==
  ASSUME LifeInv, Responded, [LifeNext]_lifeVars
  PROVE  Responded'
<1>1. LifeTypeOK /\ \A r \in Requests : StreamOK(r)
  BY DEF LifeInv
<1>2. ASSUME NEW r \in Requests, Step(r) PROVE Responded'
  <2>1. \A s \in Requests \ {r} : pc'[s] = pc[s] /\ response'[s] = response[s]
    BY <1>1, <1>2, OthersRest DEF Rests
  <2> SUFFICES ASSUME pc'[r] = "done" PROVE response'[r] # "none"
    BY <2>1 DEF Responded
  <2>2. ASSUME NEW s, s # "none", Answer(r, s) PROVE response'[r] # "none"
    BY <1>1, <2>2 DEF Answer, LifeTypeOK
  <2>3. CASE EarlyAnswer(r) \/ Arrive(r)
    <3>1. \/ \E s \in {"400", "overwritten", "503", "404"} : Answer(r, s)
          \/ Goto(r, "routing")
      BY <2>3 DEF EarlyAnswer, Arrive
    <3> QED
      BY <1>1, <2>2, <3>1 DEF Goto, LifeTypeOK
  <2>4. CASE RouterRaises(r) \/ Exhausted(r) \/ BackendTimeout(r) \/ Cancelled(r) \/ Abandoned(r)
    <3>1. \E s \in {"500", "502", "504", "cancelled"} : Answer(r, s)
      BY <2>4 DEF RouterRaises, Exhausted, BackendTimeout, Cancelled, Abandoned
    <3> QED
      BY <2>2, <3>1
  <2>5. CASE \/ StartAttempt(r) \/ AttemptFails(r) \/ Headers(r) \/ StartStream(r) \/ Chunk(r)
             \/ ClientTakes(r) \/ SseStall(r) \/ SseStallDone(r)
    <3>1. \E p \in Suspended : p # "done" /\ Goto(r, p)
      BY <2>5 DEF StartAttempt, AttemptFails, Headers, StartStream, Chunk, ClientTakes, SseStall,
                  SseStallDone, Suspended
    <3> QED
      BY <1>1, <3>1 DEF Goto, LifeTypeOK
  <2>6. CASE \/ StreamEnds(r) \/ UsageRaises(r) \/ StreamFails(r) \/ SseStallReturn(r)
             \/ Disconnect(r)
    <3>1. /\ pc[r] \in {"reading", "writing", "error_frame", "done_frame"}
          /\ response' = response
      BY <2>6 DEF StreamEnds, UsageRaises, StreamFails, SseStallReturn, Disconnect, EndBody
    <3> QED
      BY <1>1, <3>1 DEF StreamOK, Generating
  <2> QED
    BY <1>2, <2>3, <2>4, <2>5, <2>6 DEF Step
<1>3. CASE Observe \/ Clock \/ UNCHANGED lifeVars
  BY <1>3 DEF Observe, Clock, localVars, lifeVars, Responded
<1> QED
  BY <1>2, <1>3 DEF LifeNext, AllDone

LEMMA AlwaysResponded == LifeSpec => []Responded
<1>1. LifeInit => Responded
  BY DEF LifeInit, Responded
<1>2. LifeInv /\ Responded /\ [LifeNext]_lifeVars => Responded'
  BY RespondedStep
<1> QED
  BY <1>1, <1>2, LifeInvariant, PTL DEF LifeSpec

\* What is left is never negative and is used up exactly when a response starts:
\* with FailoverEnds, a request is answered in 2 * max_attempts + 3 of its own steps.
THEOREM AnswerInBudget == LifeSpec => []LeftUntilAnswer
<1>1. ASSUME LifeInv, Responded PROVE LeftUntilAnswer
  <2> SUFFICES ASSUME NEW r \in Requests
               PROVE  Left(r) \in Nat /\ (Left(r) = 0 <=> response[r] # "none")
    BY DEF LeftUntilAnswer
  <2>1. pc[r] \in Suspended /\ StreamOK(r) /\ FailoverOK(r) /\ tried[r] \in Seq(Engines)
    BY <1>1 DEF LifeInv, LifeTypeOK
  <2>2. max_attempts \in Nat
    BY LifecycleAssumption, SMT DEF max_attempts
  <2>3. Len(tried[r]) \in Nat /\ Len(tried[r]) <= max_attempts
    BY <2>1, SMT DEF FailoverOK
  <2>4. CASE pc[r] \in Unanswered
    <3>1. response[r] = "none"
      BY <2>1, <2>4 DEF StreamOK, Unanswered
    <3>2. Left(r) \in Nat /\ Left(r) # 0
      BY <2>2, <2>3, <2>4, LeftIs, LeftCompared DEF Unanswered
    <3> QED
      BY <3>1, <3>2
  <2>5. CASE pc[r] \notin Unanswered
    <3>1. response[r] # "none"
      BY <1>1, <2>1, <2>5 DEF StreamOK, Generating, Suspended, Unanswered, Responded
    <3>2. Left(r) = 0
      BY <2>5, LeftIs
    <3> QED
      BY <3>1, <3>2, SMT
  <2> QED
    BY <2>4, <2>5
<1> QED
  BY <1>1, LifeInvariant, AlwaysResponded, PTL

=============================================================================
