--------------------------- MODULE MultipartProxy ---------------------------
(***************************************************************************)
(* proxy_multipart_request                                                 *)
(* (src/vllm_router/services/request_service/request.py), the path of      *)
(* audio and image uploads: one attempt, no failover, a total timeout, and *)
(* its own calls on the request statistics ledger.  One process per        *)
(* request, cut at the awaits and yields:                                  *)
(*   idle, parsed (form read, file not yet), routing, posting (awaiting response headers),                   *)
(*   body (awaiting the whole body of a plain response),                   *)
(*   returned (StreamingResponse handed to the server, not iterated),      *)
(*   reading, writing (relaying a stream), done.                           *)
(***************************************************************************)
EXTENDS RequestStats

CONSTANTS Uploads               \* the requests

VARIABLES pc, stream, handle, first_token, response, ending

uploadVars == <<pc, stream, handle, first_token, response, ending>>

allVars == <<statsVars, uploadVars>>

NoHandle == -1

UploadInit ==
  /\ StatsInit
  /\ pc = [r \in Uploads |-> "idle"]
  /\ stream = [r \in Uploads |-> FALSE]
  /\ handle = [r \in Uploads |-> NoHandle]
  /\ first_token = [r \in Uploads |-> FALSE]
  /\ response = [r \in Uploads |-> "none"]
  /\ ending = [r \in Uploads |-> "none"]

Goto(r, s) == pc' = [pc EXCEPT ![r] = s]

\* The handler is over for r: what was answered, and how the attempt ended.
Finish(r, status, how) ==
  /\ Goto(r, "done")
  /\ response' = [response EXCEPT ![r] = status]
  /\ ending' = [ending EXCEPT ![r] = how]
  /\ UNCHANGED <<stream, handle, first_token>>

-----------------------------------------------------------------------------

\* The form cannot be read, or a field of a transcription is missing or is not
\* the number it should be.
FormRefused(r) ==
  /\ pc[r] = "idle"
  /\ Finish(r, "400", "refused")
  /\ UNCHANGED statsVars

\* A transcription says whether to stream, and its file is read next; the form of
\* another upload is sent on as it came, and never streamed.
ParseForm(r) ==
  /\ pc[r] = "idle"
  /\ \E s \in BOOLEAN : stream' = [stream EXCEPT ![r] = s]
  /\ Goto(r, "parsed")
  /\ UNCHANGED <<statsVars, handle, first_token, response, ending>>

\* A form without a model, or no engine that serves it awake.
Refuse(r) ==
  /\ pc[r] = "parsed"
  /\ \E s \in {"400", "404"} : Finish(r, s, "refused")
  /\ UNCHANGED statsVars

Route(r) ==
  /\ pc[r] = "parsed"
  /\ get_request_stats
  /\ Goto(r, "routing")
  /\ UNCHANGED <<stream, handle, first_token, response, ending>>

RouterRaises(r) ==
  /\ pc[r] = "routing"
  /\ Finish(r, "500", "refused")
  /\ UNCHANGED statsVars

Post(r) ==
  /\ pc[r] = "routing"
  /\ \E u \in Engines : on_new_request(u)
  /\ handle' = [handle EXCEPT ![r] = next_handle]
  /\ Goto(r, "posting")
  /\ UNCHANGED <<stream, first_token, response, ending>>

\* ClientResponseError (too many redirects) is answered with its own status,
\* any other ClientError with 503, the total timeout and the rest with 500.
ErrorStatus == {"3xx", "503", "500"}

PostFails(r) ==
  /\ pc[r] = "posting"
  /\ on_request_fail(handle[r])
  /\ \E s \in ErrorStatus : Finish(r, s, "failed")

PostCancelled_no_hook(r) ==
  /\ pc[r] = "posting"
  /\ UNCHANGED statsVars
  /\ Finish(r, "cancelled", "cancelled")

PostCancelled(r) ==
  /\ pc[r] = "posting"
  /\ on_request_abort(handle[r])
  /\ Finish(r, "cancelled", "cancelled")

\* A plain response counts its headers as the first token.
Headers(r) ==
  /\ pc[r] = "posting"
  /\ IF stream[r] THEN UNCHANGED statsVars ELSE on_request_response(handle[r])
  /\ Goto(r, IF stream[r] THEN "returned" ELSE "body")
  /\ UNCHANGED <<stream, handle, first_token, response, ending>>

-----------------------------------------------------------------------------
(* A plain response *)

\* The body is relayed, or replaced by a 502 when it is not the JSON it claims.
BodyRead(r) ==
  /\ pc[r] = "body"
  /\ on_request_complete(handle[r])
  /\ \E s \in {"relayed", "502"} : Finish(r, s, "complete")

\* Not JSON, and its text cannot be decoded either: the exception escapes the
\* handler while outcome is still "abort".
BodyUndecodable(r) ==
  /\ pc[r] = "body"
  /\ on_request_abort(handle[r])
  /\ Finish(r, "500", "undecodable")

BodyFails(r) ==
  /\ pc[r] = "body"
  /\ on_request_fail(handle[r])
  /\ \E s \in ErrorStatus : Finish(r, s, "failed")

BodyCancelled(r) ==
  /\ pc[r] = "body"
  /\ on_request_abort(handle[r])
  /\ Finish(r, "cancelled", "cancelled")

-----------------------------------------------------------------------------
(* A stream *)

\* The server drops the response before it iterates it (the client is gone by
\* the time the response starts): a generator that never started has no
\* finally to run.
NeverIterated(r) ==
  /\ pc[r] = "returned"
  /\ Finish(r, "cancelled", "never iterated")
  /\ UNCHANGED statsVars

Iterate(r) ==
  /\ pc[r] = "returned"
  /\ Goto(r, "reading")
  /\ response' = [response EXCEPT ![r] = "relayed"]
  /\ UNCHANGED <<statsVars, stream, handle, first_token, ending>>

Chunk(r) ==
  /\ pc[r] = "reading"
  /\ IF first_token[r] THEN UNCHANGED statsVars ELSE on_request_response(handle[r])
  /\ first_token' = [first_token EXCEPT ![r] = TRUE]
  /\ Goto(r, "writing")
  /\ UNCHANGED <<stream, handle, response, ending>>

ClientTakes(r) ==
  /\ pc[r] = "writing"
  /\ Goto(r, "reading")
  /\ UNCHANGED <<statsVars, stream, handle, first_token, response, ending>>

StreamEnds(r) ==
  /\ pc[r] = "reading"
  /\ on_request_complete(handle[r])
  /\ Finish(r, "relayed", "complete")

\* The backend breaks the stream or the total timeout expires.
StreamFails(r) ==
  /\ pc[r] = "reading"
  /\ on_request_fail(handle[r])
  /\ Finish(r, "relayed", "failed")

Disconnect(r) ==
  /\ pc[r] \in {"reading", "writing"}
  /\ on_request_abort(handle[r])
  /\ Finish(r, "relayed", "cancelled")

-----------------------------------------------------------------------------

AllDone == (\A r \in Uploads : pc[r] = "done") /\ UNCHANGED allVars

UploadStep(r) ==
  \/ FormRefused(r) \/ ParseForm(r) \/ Refuse(r) \/ Route(r) \/ RouterRaises(r) \/ Post(r) \/ PostFails(r) \/ PostCancelled(r)
  \/ Headers(r) \/ BodyRead(r) \/ BodyUndecodable(r) \/ BodyFails(r) \/ BodyCancelled(r)
  \/ NeverIterated(r) \/ Iterate(r) \/ Chunk(r) \/ ClientTakes(r)
  \/ StreamEnds(r) \/ StreamFails(r) \/ Disconnect(r)

UploadNext == (\E r \in Uploads : UploadStep(r)) \/ AllDone

UploadSpec == UploadInit /\ [][UploadNext]_allVars

-----------------------------------------------------------------------------
(* Properties *)

InFlight == {r \in Uploads : pc[r] \in {"posting", "body", "returned", "reading", "writing"}}

\* The live records of the ledger are the uploads in flight, plus those whose
\* stream the server dropped before iterating it, and nothing else: every other
\* way out of the handler retires its attempt.
LeaksOnlyUniterated ==
  Active = {handle[r] : r \in InFlight \cup {s \in Uploads : ending[s] = "never iterated"}}

=============================================================================
