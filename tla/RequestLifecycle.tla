-------------------------- MODULE RequestLifecycle --------------------------
(***************************************************************************)
(* The life of proxied requests                                            *)
(* (src/vllm_router/services/request_service/request.py):                  *)
(* route_general_request with its failover loop, the process_request       *)
(* generator it drives, and the calls they make on the request statistics  *)
(* ledger.  One process per request; a step runs from one suspension point *)
(* (await or yield) to the next, plus a few cuts between steps that touch  *)
(* only the request's own locals.                                          *)
(*                                                                         *)
(* Where a request can be suspended (pc):                                  *)
(*   idle        not arrived                                               *)
(*   routing     about to choose a backend (or awaiting an async router)   *)
(*   connecting  in process_request, before response headers, under the    *)
(*               entry deadline                                            *)
(*   headers     headers yielded, StreamingResponse not yet iterated       *)
(*   reading     awaiting the next chunk of the backend                    *)
(*   writing     a chunk yielded, waiting for the client to take it        *)
(*   error_frame, done_frame   the two frames of a stalled SSE stream      *)
(*   done                                                                  *)
(*                                                                         *)
(* Bodies are abstracted to a number of chunks; which backend a router     *)
(* picks is any of the candidates it is given.  The backends, the network  *)
(* and the clients are the environment.                                    *)
(***************************************************************************)
EXTENDS RequestStats, Sequences

CONSTANTS Requests,
          max_instance_failover_reroute_attempts,
          MaxChunks             \* bound on the chunks of a body

ASSUME LifecycleAssumption ==
  /\ max_instance_failover_reroute_attempts \in Nat
  /\ MaxChunks \in Nat

VARIABLES pc,
          endpoints,            \* the discovery snapshot, filtered
          error_urls,
          tried,                \* backends of the attempts so far, in order
          handle,               \* ledger handle of the current attempt
          last_error,
          response,             \* what the client is answered
          is_sse,               \* content type of the backend's response
          chunks,               \* chunks relayed
          frames,               \* stall frames sent after them
          close                 \* how the body ended

localVars == <<pc, endpoints, error_urls, tried, handle, last_error, response,
               is_sse, chunks, frames, close>>

lifeVars == <<statsVars, localVars>>

NoHandle == -1

LifeInit ==
  /\ StatsInit
  /\ pc = [r \in Requests |-> "idle"]
  /\ endpoints = [r \in Requests |-> {}]
  /\ error_urls = [r \in Requests |-> {}]
  /\ tried = [r \in Requests |-> <<>>]
  /\ handle = [r \in Requests |-> NoHandle]
  /\ last_error = [r \in Requests |-> "none"]
  /\ response = [r \in Requests |-> "none"]
  /\ is_sse = [r \in Requests |-> FALSE]
  /\ chunks = [r \in Requests |-> 0]
  /\ frames = [r \in Requests |-> <<>>]
  /\ close = [r \in Requests |-> "open"]

Goto(r, s) == pc' = [pc EXCEPT ![r] = s]

\* The handler returns (or raises) before a body is streamed.
Answer(r, s) ==
  /\ Goto(r, "done")
  /\ response' = [response EXCEPT ![r] = s]
  /\ UNCHANGED <<is_sse, chunks, frames, close>>

\* The body ends.
EndBody(r, how) ==
  /\ Goto(r, "done")
  /\ close' = [close EXCEPT ![r] = how]
  /\ UNCHANGED <<response, is_sse, chunks, frames>>

-----------------------------------------------------------------------------
(* route_general_request: validation and discovery *)

\* A malformed body, a missing model or a pre_request callback that answers.
EarlyAnswer(r) ==
  /\ pc[r] = "idle"
  /\ \E s \in {"400", "overwritten"} : Answer(r, s)
  /\ UNCHANGED <<statsVars, endpoints, error_urls, tried, handle, last_error>>

\* The candidates are one snapshot of service discovery; reading the request
\* statistics (not done for a request pinned to an engine id) slides windows.
Arrive(r) ==
  /\ pc[r] = "idle"
  /\ get_request_stats \/ UNCHANGED statsVars
  /\ \E eps \in SUBSET Engines, model_ever_existed \in BOOLEAN :
       /\ endpoints' = [endpoints EXCEPT ![r] = eps]
       /\ \/ /\ eps = {}
             /\ Answer(r, IF model_ever_existed THEN "503" ELSE "404")
          \/ /\ eps # {}
             /\ Goto(r, "routing")
             /\ UNCHANGED <<response, is_sse, chunks, frames, close>>
  /\ UNCHANGED <<error_urls, tried, handle, last_error>>

-----------------------------------------------------------------------------
(* The failover loop *)

max_attempts == max_instance_failover_reroute_attempts + 1

Remaining_ignores_errors(r) == endpoints[r]

Remaining(r) == endpoints[r] \ error_urls[r]

AnotherAttempt(r) == Len(tried[r]) < max_attempts /\ Remaining(r) # {}

\* The router picks a candidate and process_request starts: a new attempt.
StartAttempt(r) ==
  /\ pc[r] = "routing"
  /\ AnotherAttempt(r)
  /\ \E u \in Remaining(r) :
       /\ on_new_request(u)
       /\ tried' = [tried EXCEPT ![r] = Append(@, u)]
  /\ handle' = [handle EXCEPT ![r] = next_handle]
  /\ Goto(r, "connecting")
  /\ UNCHANGED <<endpoints, error_urls, last_error, response, is_sse, chunks, frames, close>>

\* route_request raises; it is called outside the try of the loop.
RouterRaises(r) ==
  /\ pc[r] = "routing"
  /\ AnotherAttempt(r)
  /\ Answer(r, "500")
  /\ UNCHANGED <<statsVars, endpoints, error_urls, tried, handle, last_error>>

Exhausted_early(r) ==
  /\ pc[r] = "routing"
  /\ tried[r] # <<>>
  /\ Answer(r, IF last_error[r] = "connect" THEN "502" ELSE "500")
  /\ UNCHANGED <<statsVars, endpoints, error_urls, tried, handle, last_error>>

\* The loop ends without a response: the attempts or the candidates ran out.
Exhausted(r) ==
  /\ pc[r] = "routing"
  /\ ~AnotherAttempt(r)
  /\ Answer(r, IF last_error[r] = "connect" THEN "502" ELSE "500")
  /\ UNCHANGED <<statsVars, endpoints, error_urls, tried, handle, last_error>>

\* A connect failure, or any error but a timeout, before headers: the attempt
\* fails, its backend is set aside and the loop goes on.
AttemptFails(r) ==
  /\ pc[r] = "connecting"
  /\ on_request_fail(handle[r])
  /\ error_urls' = [error_urls EXCEPT ![r] = @ \cup {tried[r][Len(tried[r])]}]
  /\ \E e \in {"connect", "other"} : last_error' = [last_error EXCEPT ![r] = e]
  /\ Goto(r, "routing")
  /\ UNCHANGED <<endpoints, tried, handle, response, is_sse, chunks, frames, close>>

BackendTimeout_first_only(r) ==
  /\ pc[r] = "connecting"
  /\ Len(tried[r]) = 1
  /\ on_request_fail(handle[r])
  /\ last_error' = [last_error EXCEPT ![r] = "timeout"]
  /\ Answer(r, "504")
  /\ UNCHANGED <<endpoints, error_urls, tried, handle>>

\* A read timeout or the entry deadline before headers: 504, no rotation.
BackendTimeout(r) ==
  /\ pc[r] = "connecting"
  /\ on_request_fail(handle[r])
  /\ last_error' = [last_error EXCEPT ![r] = "timeout"]
  /\ Answer(r, "504")
  /\ UNCHANGED <<endpoints, error_urls, tried, handle>>

\* The handler is cancelled while the attempt waits for headers.  When the
\* entry deadline expires in the same moment the CancelledError is not turned
\* into a TimeoutError, and the attempt is still retired as a failure.
Cancelled_expiry_aborts(r) ==
  /\ pc[r] = "connecting"
  /\ \E expired \in BOOLEAN :
       /\ on_request_abort(handle[r])
       /\ last_error' = [last_error EXCEPT ![r] = IF expired THEN "timeout" ELSE @]
  /\ Answer(r, "cancelled")
  /\ UNCHANGED <<endpoints, error_urls, tried, handle>>

Cancelled(r) ==
  /\ pc[r] = "connecting"
  /\ \E expired \in BOOLEAN :
       /\ IF expired THEN on_request_fail(handle[r]) ELSE on_request_abort(handle[r])
       /\ last_error' = [last_error EXCEPT ![r] = IF expired THEN "timeout" ELSE @]
  /\ Answer(r, "cancelled")
  /\ UNCHANGED <<endpoints, error_urls, tried, handle>>

Headers(r) ==
  /\ pc[r] = "connecting"
  /\ \E b \in BOOLEAN : is_sse' = [is_sse EXCEPT ![r] = b]
  /\ last_error' = [last_error EXCEPT ![r] = "none"]
  /\ Goto(r, "headers")
  /\ UNCHANGED <<statsVars, endpoints, error_urls, tried, handle, response, chunks, frames, close>>

-----------------------------------------------------------------------------
(* Relaying the body *)

loopVars == <<endpoints, error_urls, tried, handle, last_error>>

\* The response is never iterated; the suspended generator is closed later.
Abandoned_leaks(r) ==
  /\ pc[r] = "headers"
  /\ Answer(r, "cancelled")
  /\ UNCHANGED <<statsVars, loopVars>>

Abandoned(r) ==
  /\ pc[r] = "headers"
  /\ on_request_abort(handle[r])
  /\ Answer(r, "cancelled")
  /\ UNCHANGED loopVars

StartStream(r) ==
  /\ pc[r] = "headers"
  /\ response' = [response EXCEPT ![r] = "relayed"]
  /\ Goto(r, "reading")
  /\ UNCHANGED <<statsVars, loopVars, is_sse, chunks, frames, close>>

\* The first chunk moves the attempt to the decoding stage.
Chunk(r) ==
  /\ pc[r] = "reading"
  /\ chunks[r] < MaxChunks
  /\ IF chunks[r] = 0 THEN on_request_response(handle[r]) ELSE UNCHANGED statsVars
  /\ chunks' = [chunks EXCEPT ![r] = @ + 1]
  /\ Goto(r, "writing")
  /\ UNCHANGED <<loopVars, response, is_sse, frames, close>>

ClientTakes(r) ==
  /\ pc[r] = "writing"
  /\ Goto(r, "reading")
  /\ UNCHANGED <<statsVars, loopVars, response, is_sse, chunks, frames, close>>

StreamEnds(r) ==
  /\ pc[r] = "reading"
  /\ on_request_complete(handle[r])
  /\ EndBody(r, "clean")
  /\ UNCHANGED loopVars

\* The whole body was relayed, then the usage accounting of a non-streaming
\* response raises what its except clause does not name.
UsageRaises(r) ==
  /\ pc[r] = "reading"
  /\ chunks[r] > 0
  /\ ~is_sse[r]
  /\ on_request_fail(handle[r])
  /\ EndBody(r, "abrupt")
  /\ UNCHANGED loopVars

\* The backend breaks the stream, or stalls and the body is not SSE.
StreamFails(r) ==
  /\ pc[r] = "reading"
  /\ on_request_fail(handle[r])
  /\ EndBody(r, "abrupt")
  /\ UNCHANGED loopVars

\* The read gap exceeds its bound on an SSE stream: error frame, then [DONE].
SseStall(r) ==
  /\ pc[r] = "reading"
  /\ is_sse[r]
  /\ frames' = [frames EXCEPT ![r] = <<"error">>]
  /\ Goto(r, "error_frame")
  /\ UNCHANGED <<statsVars, loopVars, response, is_sse, chunks, close>>

SseStallDone(r) ==
  /\ pc[r] = "error_frame"
  /\ frames' = [frames EXCEPT ![r] = Append(@, "done")]
  /\ Goto(r, "done_frame")
  /\ UNCHANGED <<statsVars, loopVars, response, is_sse, chunks, close>>

SseStallReturn_completes(r) ==
  /\ pc[r] = "done_frame"
  /\ on_request_complete(handle[r])
  /\ EndBody(r, "clean")
  /\ UNCHANGED loopVars

SseStallReturn(r) ==
  /\ pc[r] = "done_frame"
  /\ on_request_fail(handle[r])
  /\ EndBody(r, "clean")
  /\ UNCHANGED loopVars

\* The client goes away: the generator gets CancelledError or GeneratorExit.
\* Inside the stall handler the attempt already counts as a failure.
Disconnect(r) ==
  /\ pc[r] \in {"reading", "writing", "error_frame", "done_frame"}
  /\ IF pc[r] \in {"reading", "writing"} THEN on_request_abort(handle[r])
                                         ELSE on_request_fail(handle[r])
  /\ EndBody(r, "client")
  /\ UNCHANGED loopVars

-----------------------------------------------------------------------------

\* Another reader of the statistics (the /metrics handler, the log thread).
Observe == get_request_stats /\ UNCHANGED localVars

Clock == Tick /\ UNCHANGED localVars

AllDone == (\A r \in Requests : pc[r] = "done") /\ UNCHANGED lifeVars

Step(r) ==
  \/ EarlyAnswer(r) \/ Arrive(r)
  \/ StartAttempt(r) \/ RouterRaises(r) \/ Exhausted(r)
  \/ AttemptFails(r) \/ BackendTimeout(r) \/ Cancelled(r) \/ Headers(r)
  \/ Abandoned(r) \/ StartStream(r) \/ Chunk(r) \/ ClientTakes(r)
  \/ StreamEnds(r) \/ UsageRaises(r) \/ StreamFails(r)
  \/ SseStall(r) \/ SseStallDone(r) \/ SseStallReturn(r) \/ Disconnect(r)

LifeNext == (\E r \in Requests : Step(r)) \/ Observe \/ Clock \/ AllDone

LifeSpec == LifeInit /\ [][LifeNext]_lifeVars

\* The event loop runs what is ready, the entry deadline and the read timeout
\* fire (both are on unless the operator disables them), and the server either
\* iterates a StreamingResponse or drops it.  Nothing is assumed of clients.
LifeFairness ==
  \A r \in Requests :
    /\ WF_lifeVars(StartAttempt(r) \/ RouterRaises(r) \/ Exhausted(r))
    /\ WF_lifeVars(BackendTimeout(r))
    /\ WF_lifeVars(StartStream(r) \/ Abandoned(r))
    /\ WF_lifeVars(StreamFails(r) \/ SseStall(r))

LifeFairSpec == LifeSpec /\ LifeFairness

-----------------------------------------------------------------------------
(* Properties *)

\* Requests whose process_request generator is open.
InGenerator ==
  {r \in Requests : pc[r] \in {"connecting", "headers", "reading", "writing",
                               "error_frame", "done_frame"}}

\* No leak and no early retirement: the ledger's live records are exactly the
\* open generators, each under its own handle, on the backend the request is
\* now at, in the decoding stage once a chunk has arrived.  So a drained router
\* reports no request in flight, whatever mix of failovers, timeouts, stalls and
\* disconnects it went through.
LedgerTracksGenerators ==
  /\ Active = {handle[r] : r \in InGenerator}
  /\ \A r \in InGenerator :
       /\ \A s \in InGenerator : s # r => handle[s] # handle[r]
       /\ handle[r] \in Active =>
            /\ active_requests[handle[r]].engine_url = tried[r][Len(tried[r])]
            /\ active_requests[handle[r]].stage = IF chunks[r] > 0 THEN "decoding" ELSE "prefill"

\* Failover never returns to a backend that failed this request, never leaves
\* the candidates of the request's snapshot, and stays within the budget.
RotationDistinct ==
  \A r \in Requests :
    /\ Len(tried[r]) <= max_attempts
    /\ \A i, j \in 1 .. Len(tried[r]) : tried[r][i] = tried[r][j] => i = j
    /\ \A i \in 1 .. Len(tried[r]) : tried[r][i] \in endpoints[r]

\* "Could not establish a connection ... within the permitted failover attempts"
\* is said only when every attempt failed before headers and either the budget
\* or the candidates are used up.
BadGatewayIsExhaustion ==
  \A r \in Requests : response[r] = "502" =>
    /\ error_urls[r] = {tried[r][i] : i \in 1 .. Len(tried[r])}
    /\ Len(tried[r]) = max_attempts \/ error_urls[r] = endpoints[r]
    /\ tried[r] # <<>>

\* A timed-out attempt is the last one of its request, is not rotated away from,
\* and is retired as a failure even when a cancellation coincides with it: "an
\* expired timer is a backend failure, never a client abort".
TimeoutEndsRequest ==
  \A r \in Requests :
    /\ last_error[r] = "timeout" =>
         /\ response[r] \in {"504", "cancelled"}
         /\ history[handle[r]].outcome = "fail"
    /\ response[r] = "504" => Cardinality(error_urls[r]) = Len(tried[r]) - 1

\* finished_requests counts exactly the responses that were relayed to their
\* end without a stall frame: never a truncated body, an abort, a failed-over
\* attempt, or a stalled SSE stream even though that one is closed cleanly.
FinishedAsDelivered ==
  Cardinality({h \in Handles : history[h].outcome = "complete"}) =
    Cardinality({r \in Requests : close[r] = "clean" /\ frames[r] = <<>>})

\* A routed request is eventually answered: a status of its own, or a relayed
\* response.
Answered == \A r \in Requests : pc[r] = "routing" ~> response[r] # "none"

=============================================================================
