------------------------ MODULE DisaggregatedRequests ------------------------
(***************************************************************************)
(* The two request paths that split prefill from decode                    *)
(* (src/vllm_router/services/request_service/request.py): the orchestrated *)
(* one, which carries the key-value cache parameters of the prefill answer *)
(* to the decode engine over the shared client, and the one that uses the  *)
(* client sessions pod discovery keeps in app.state.  The router class     *)
(* decides which of the two a process runs.  Requests are cut at the       *)
(* awaits:                                                                 *)
(*   idle, prefill, decode (awaiting its headers), refused (awaiting the   *)
(*   text of an error), body, returned (not iterated yet), streaming, over *)
(* Neither path books anything in the request statistics.                  *)
(***************************************************************************)
EXTENDS Integers, FiniteSets

CONSTANTS PDRequests,           \* the requests
          Prefillers,           \* the engines with a prefill label
          NoEngine,
          MaxReplacements       \* bound: session closings and openings of a role

VARIABLES kind,         \* which of the two routers the process runs
          stage, streams, prefiller, remote_host, status, content,
          session,      \* role |-> how often its session was opened or closed
          fault         \* auxiliary: an engine, a timeout or its session failed the request

pdVars == <<kind, stage, streams, prefiller, remote_host, status, content, session, fault>>

PDRoles == {"prefill", "decode"}

\* A session that has never been opened is at 0; odd is open, even is closed.
Usable(n) == n % 2 = 1

PDInit ==
  /\ kind \in {"orchestrated", "sessions"}
  /\ stage = [r \in PDRequests |-> "idle"]
  /\ streams = [r \in PDRequests |-> FALSE]
  /\ prefiller = [r \in PDRequests |-> NoEngine]
  /\ remote_host = [r \in PDRequests |-> NoEngine]
  /\ status = [r \in PDRequests |-> "none"]
  /\ content = [r \in PDRequests |-> "none"]
  /\ session = [role \in PDRoles |-> 0]
  /\ fault = [r \in PDRequests |-> FALSE]

At(r, k, s) == kind = k /\ stage[r] = s

Enter(r, s) == stage' = [stage EXCEPT ![r] = s]

\* The client has its answer: the status, and what came after it.
Answer(r, code, what) ==
  /\ Enter(r, "over")
  /\ status' = [status EXCEPT ![r] = code]
  /\ content' = [content EXCEPT ![r] = what]

Ends(r, code, what) ==
  /\ Answer(r, code, what)
  /\ UNCHANGED <<kind, streams, prefiller, remote_host, session, fault>>

Fails(r, code, what) ==
  /\ Answer(r, code, what)
  /\ fault' = [fault EXCEPT ![r] = TRUE]
  /\ UNCHANGED <<kind, streams, prefiller, remote_host, session>>

-----------------------------------------------------------------------------
(* Orchestrated *)

\* request.json() raises outside of any try, before an engine is selected or a
\* session is looked at: the framework answers.
BodyUnreadable(r) == stage[r] = "idle" /\ Ends(r, "500", "error")

\* _find_endpoints raises an HTTPException that the handler's except does not
\* match: the framework turns it into the answer.
RoleMissing(r) == At(r, "orchestrated", "idle") /\ Fails(r, "503", "error")

\* Both engines are selected before anything is sent.
SendPrefill(r) ==
  /\ At(r, "orchestrated", "idle")
  /\ \E e \in Prefillers : prefiller' = [prefiller EXCEPT ![r] = e]
  /\ \E s \in BOOLEAN : streams' = [streams EXCEPT ![r] = s]
  /\ Enter(r, "prefill")
  /\ UNCHANGED <<kind, remote_host, status, content, session, fault>>

\* The engine's own status, 503 for a client error, 500 for the total timeout
\* and for an answer that is not an object.
ErrorAnswers == {"engine", "503", "500"}

PrefillFails(r) ==
  /\ At(r, "orchestrated", "prefill")
  /\ \E code \in ErrorAnswers : Fails(r, code, "error")

\* The parameters of the prefill answer with its host filled in, if it has any.
SendDecode(r) ==
  /\ At(r, "orchestrated", "prefill")
  /\ \E h \in {prefiller[r], NoEngine} : remote_host' = [remote_host EXCEPT ![r] = h]
  /\ Enter(r, "decode")
  /\ UNCHANGED <<kind, streams, prefiller, status, content, session, fault>>

DecodeFails(r) ==
  /\ At(r, "orchestrated", "decode")
  /\ \E code \in {"503", "500"} : Fails(r, code, "error")

DecodeHeaders(r) ==
  /\ At(r, "orchestrated", "decode")
  /\ \/ Enter(r, IF streams[r] THEN "returned" ELSE "body") /\ UNCHANGED fault
     \/ Enter(r, "refused") /\ fault' = [fault EXCEPT ![r] = TRUE]
  /\ UNCHANGED <<kind, streams, prefiller, remote_host, status, content, session>>

\* The text of the refusal is read in full, or that read fails as well.
RefusalRead(r) ==
  /\ At(r, "orchestrated", "refused")
  /\ \E code \in ErrorAnswers : Fails(r, code, "error")

DecodeRead(r) == At(r, "orchestrated", "body") /\ Ends(r, "200", "whole")

DecodeBodyFails(r) ==
  /\ At(r, "orchestrated", "body")
  /\ \E code \in {"503", "500"} : Fails(r, code, "error")

-----------------------------------------------------------------------------
(* Over the sessions of app.state *)

\* A session that is missing or closed raises inside the try: 500.
PrefillOverSession(r) ==
  /\ At(r, "sessions", "idle")
  /\ IF Usable(session["prefill"])
     THEN Enter(r, "prefill") /\ UNCHANGED <<status, content, fault>>
     ELSE Answer(r, "500", "error") /\ fault' = [fault EXCEPT ![r] = TRUE]
  /\ UNCHANGED <<kind, streams, prefiller, remote_host, session>>

\* raise_for_status and the check of the content type both raise a
\* ClientResponseError, whose status is relayed: 200 for an answer that is not
\* JSON.  Everything else is a 500, also that the session was closed meanwhile.
PrefillerError(r) ==
  /\ At(r, "sessions", "prefill")
  /\ \E code \in {"engine", "200", "500"} : Fails(r, code, "error")

\* Naming the decode session in the log raises if there has never been one.
PrefillSucceeds(r) ==
  /\ At(r, "sessions", "prefill")
  /\ IF session["decode"] = 0
     THEN Answer(r, "500", "error") /\ fault' = [fault EXCEPT ![r] = TRUE]
     ELSE Enter(r, "returned") /\ UNCHANGED <<status, content, fault>>
  /\ UNCHANGED <<kind, streams, prefiller, remote_host, session>>

Uniterated(r) ==
  /\ stage[r] = "returned"
  /\ Ends(r, "none", "cancelled")

IterateStream(r) ==
  /\ At(r, "orchestrated", "returned")
  /\ Enter(r, "streaming")
  /\ status' = [status EXCEPT ![r] = "200"]
  /\ UNCHANGED <<kind, streams, prefiller, remote_host, content, session, fault>>

\* The decode request is sent by the generator, over the session of that time,
\* which need not be the one there was when the prefill was sent.
DecodeOverSession(r) ==
  /\ At(r, "sessions", "returned")
  /\ IF Usable(session["decode"])
     THEN /\ Enter(r, "streaming")
          /\ status' = [status EXCEPT ![r] = "200"]
          /\ UNCHANGED <<content, fault>>
     ELSE Answer(r, "200", "error") /\ fault' = [fault EXCEPT ![r] = TRUE]
  /\ UNCHANGED <<kind, streams, prefiller, remote_host, session>>

StreamComplete(r) ==
  /\ stage[r] = "streaming"
  /\ Ends(r, "200", "whole")

StreamBreaks_looks_whole(r) ==
  /\ stage[r] = "streaming"
  /\ Fails(r, "200", "whole")

\* The engine breaks off, a timeout strikes or the session is closed under the
\* stream.  The exception ends the orchestrated stream; over a session it is sent
\* to the client as one more chunk, a JSON error under the status 200.
StreamBreaks(r) ==
  /\ stage[r] = "streaming"
  /\ Fails(r, "200", IF kind = "sessions" THEN "error" ELSE "broken")

Cancelled(r) ==
  /\ stage[r] \in {"prefill", "decode", "refused", "body", "streaming"}
  /\ Ends(r, status[r], "cancelled")

-----------------------------------------------------------------------------

\* initialize_client_sessions of pod discovery, on every event of a ready pod:
\* the session of a role is closed (an await) and a new one takes its place.
ReplaceSession(role) ==
  /\ kind = "sessions"
  /\ session[role] < MaxReplacements
  /\ session' = [session EXCEPT ![role] = @ + 1]
  /\ UNCHANGED <<kind, stage, streams, prefiller, remote_host, status, content, fault>>

OrchestratedStep(r) ==
  \/ RoleMissing(r) \/ SendPrefill(r) \/ PrefillFails(r) \/ SendDecode(r) \/ DecodeFails(r)
  \/ DecodeHeaders(r) \/ RefusalRead(r) \/ DecodeRead(r) \/ DecodeBodyFails(r)

SessionStep(r) ==
  \/ PrefillOverSession(r) \/ PrefillerError(r) \/ PrefillSucceeds(r) \/ DecodeOverSession(r)

PDStep(r) ==
  \/ BodyUnreadable(r) \/ OrchestratedStep(r) \/ SessionStep(r)
  \/ Uniterated(r) \/ IterateStream(r) \/ StreamComplete(r) \/ StreamBreaks(r) \/ Cancelled(r)

PDDone == (\A r \in PDRequests : stage[r] = "over") /\ UNCHANGED pdVars

PDNext ==
  \/ \E r \in PDRequests : PDStep(r)
  \/ \E role \in PDRoles : ReplaceSession(role)
  \/ PDDone

PDSpec == PDInit /\ [][PDNext]_pdVars

-----------------------------------------------------------------------------
(* Properties *)

\* A request that an engine, a timeout or the closing of its session failed is
\* never passed off as a whole answer, on either path and wherever between prefill
\* and the last chunk it struck; and an answer the client is told is good (200) is
\* whole unless the client left, the stream broke after it had begun, or, over the
\* sessions only, the body itself is the error.
TruthfulAnswer ==
  \A r \in PDRequests :
    /\ content[r] = "whole" => status[r] = "200" /\ ~fault[r]
    /\ stage[r] = "over" /\ status[r] = "200" /\ kind = "orchestrated" => content[r] # "error"
    /\ status[r] \in ErrorAnswers => content[r] = "error"

=============================================================================
