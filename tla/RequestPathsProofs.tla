------------------------- MODULE RequestPathsProofs -------------------------
(***************************************************************************)
(* Proofs about the request paths beside the JSON one: disaggregated       *)
(* requests, sleep requests, external providers and uploads, each for any  *)
(* set of requests, engines and configurations.                            *)
(***************************************************************************)
EXTENDS MultipartProxy, DisaggregatedRequests, SleepMode, ExternalProviders, SequenceTheorems,
        TLAPS

\* Leaves are left to Zenon; those that need arithmetic or sequences cite SMT.
USE Zenon

-----------------------------------------------------------------------------
(* Disaggregated requests *)

Stages == {"idle", "prefill", "decode", "refused", "body", "returned", "streaming", "over"}
Codes == {"none", "200"} \cup ErrorAnswers
Contents == {"none", "whole", "error", "broken", "cancelled"}

PDTypeOK ==
  /\ kind \in {"orchestrated", "sessions"}
  /\ stage \in [PDRequests -> Stages]
  /\ status \in [PDRequests -> Codes]
  /\ content \in [PDRequests -> Contents]
  /\ fault \in [PDRequests -> BOOLEAN]
  /\ session \in [PDRoles -> Nat]

\* What has come of the request so far: nothing before it is over, and the status
\* only when its stream has begun.
PDProgress(r) ==
  /\ stage[r] # "over" => content[r] = "none"
  /\ stage[r] \notin {"refused", "over"} => ~fault[r]
  /\ stage[r] \notin {"streaming", "over"} => status[r] = "none"
  /\ stage[r] = "streaming" => status[r] = "200"

PDTruth(r) ==
  /\ content[r] = "whole" => status[r] = "200" /\ ~fault[r]
  /\ stage[r] = "over" /\ status[r] = "200" /\ kind = "orchestrated" => content[r] # "error"
  /\ status[r] \in ErrorAnswers => content[r] = "error"

PDOK(r) == PDProgress(r) /\ PDTruth(r)

PDInv == PDTypeOK /\ \A r \in PDRequests : PDOK(r)

LEMMA PDInitially == PDInit => PDInv
  BY SMTT(30) DEF PDInit, PDInv, PDTypeOK, PDOK, PDProgress, PDTruth, Stages, Codes, Contents,
         ErrorAnswers, PDRoles

\* A step of a request leaves the others alone, and the sessions.
PDOthers(r) ==
  /\ UNCHANGED <<kind, session>>
  /\ \A q \in PDRequests : q # r =>
       /\ stage'[q] = stage[q] /\ status'[q] = status[q] /\ content'[q] = content[q]
       /\ fault'[q] = fault[q]

LEMMA PDFrame ==
  ASSUME PDInv, NEW r \in PDRequests, PDOthers(r), PDOK(r)'
  PROVE  \A q \in PDRequests : PDOK(q)'
  BY SMT DEF PDInv, PDOthers, PDOK, PDProgress, PDTruth

LEMMA PDEnds ==
  ASSUME PDTypeOK, NEW r \in PDRequests, NEW code \in Codes, NEW what \in Contents,
         Answer(r, code, what), UNCHANGED <<kind, session>>,
         UNCHANGED fault \/ fault' = [fault EXCEPT ![r] = TRUE]
  PROVE  /\ PDTypeOK' /\ PDOthers(r)
         /\ stage'[r] = "over" /\ status'[r] = code /\ content'[r] = what
  BY DEF Answer, Enter, PDTypeOK, PDOthers, Stages

\* A request that ends truthfully is over for good.
LEMMA PDEnded ==
  ASSUME PDInv, NEW r \in PDRequests, NEW code \in Codes, NEW what \in Contents,
         Ends(r, code, what) \/ Fails(r, code, what),
         what = "whole" => code = "200" /\ Ends(r, code, what) /\ ~fault[r],
         code \in ErrorAnswers => what = "error",
         kind = "orchestrated" /\ code = "200" => what # "error"
  PROVE  PDTypeOK' /\ PDOthers(r) /\ PDOK(r)'
<1>1. PDTypeOK /\ PDOK(r)
  BY DEF PDInv
<1>2. /\ Answer(r, code, what) /\ UNCHANGED <<kind, session>>
      /\ UNCHANGED fault \/ fault' = [fault EXCEPT ![r] = TRUE]
      /\ Ends(r, code, what) => UNCHANGED fault
  BY DEF Ends, Fails
<1>3. /\ PDTypeOK' /\ PDOthers(r)
      /\ stage'[r] = "over" /\ status'[r] = code /\ content'[r] = what
  BY <1>1, <1>2, PDEnds
<1>4. PDProgress(r)'
  BY <1>3 DEF PDProgress
<1>5. PDTruth(r)'
  BY <1>1, <1>2, <1>3 DEF PDTruth
<1> QED
  BY <1>3, <1>4, <1>5 DEF PDOK

LEMMA PDOrchestrated ==
  ASSUME PDInv, NEW r \in PDRequests, OrchestratedStep(r) \/ IterateStream(r)
  PROVE  PDTypeOK' /\ PDOthers(r) /\ PDOK(r)'
<1>1. PDTypeOK /\ PDOK(r)
  BY DEF PDInv
<1>2. ASSUME kind = "orchestrated", NEW code \in ErrorAnswers, Fails(r, code, "error")
      PROVE  PDTypeOK' /\ PDOthers(r) /\ PDOK(r)'
  <2>1. code \in Codes /\ code # "200" /\ "error" \in Contents
    BY DEF Codes, ErrorAnswers, Contents
  <2> QED
    BY <1>2, <2>1, PDEnded
<1>3. CASE RoleMissing(r) \/ PrefillFails(r) \/ DecodeFails(r) \/ RefusalRead(r) \/ DecodeBodyFails(r)
  BY <1>2, <1>3 DEF RoleMissing, PrefillFails, DecodeFails, RefusalRead, DecodeBodyFails, At,
                    ErrorAnswers
<1>4. CASE DecodeRead(r)
  <2>1. kind = "orchestrated" /\ ~fault[r] /\ Ends(r, "200", "whole")
    BY <1>1, <1>4 DEF DecodeRead, At, PDOK, PDProgress
  <2>2. "200" \in Codes \ ErrorAnswers /\ "whole" \in Contents \ {"error"}
    BY DEF Codes, ErrorAnswers, Contents
  <2> QED
    BY <2>1, <2>2, PDEnded
<1>5. CASE SendPrefill(r) \/ SendDecode(r)
  <2>1. /\ kind = "orchestrated" /\ stage[r] \in {"idle", "prefill"}
        /\ stage' = [stage EXCEPT ![r] = "prefill"] \/ stage' = [stage EXCEPT ![r] = "decode"]
        /\ UNCHANGED <<kind, status, content, session, fault>>
    BY <1>5 DEF SendPrefill, SendDecode, At, Enter
  <2>2. PDTypeOK' /\ PDOthers(r) /\ stage'[r] \in {"prefill", "decode"}
    BY <1>1, <2>1 DEF PDTypeOK, PDOthers, Stages
  <2> QED
    BY <1>1, <2>1, <2>2 DEF PDOK, PDProgress, PDTruth
<1>6. CASE DecodeHeaders(r)
  <2>1. /\ kind = "orchestrated" /\ stage[r] = "decode"
        /\ UNCHANGED <<kind, status, content, session>>
    BY <1>6 DEF DecodeHeaders, At
  <2>2. CASE UNCHANGED fault /\ Enter(r, IF streams[r] THEN "returned" ELSE "body")
    <3>1. PDTypeOK' /\ PDOthers(r) /\ stage'[r] \in {"returned", "body"}
      BY <1>1, <2>1, <2>2 DEF PDTypeOK, PDOthers, Stages, Enter
    <3> QED
      BY <1>1, <2>1, <2>2, <3>1 DEF PDOK, PDProgress, PDTruth
  <2>3. CASE Enter(r, "refused") /\ fault' = [fault EXCEPT ![r] = TRUE]
    <3>1. PDTypeOK' /\ PDOthers(r) /\ stage'[r] = "refused"
      BY <1>1, <2>1, <2>3 DEF PDTypeOK, PDOthers, Stages, Enter
    <3> QED
      BY <1>1, <2>1, <3>1 DEF PDOK, PDProgress, PDTruth
  <2> QED
    BY <1>6, <2>2, <2>3 DEF DecodeHeaders
<1>7. CASE IterateStream(r)
  <2>1. /\ kind = "orchestrated" /\ stage[r] = "returned"
        /\ stage' = [stage EXCEPT ![r] = "streaming"] /\ status' = [status EXCEPT ![r] = "200"]
        /\ UNCHANGED <<kind, content, session, fault>>
    BY <1>7 DEF IterateStream, At, Enter
  <2>2. PDTypeOK' /\ PDOthers(r) /\ stage'[r] = "streaming" /\ status'[r] = "200"
    BY <1>1, <2>1 DEF PDTypeOK, PDOthers, Stages, Codes
  <2> QED
    BY <1>1, <2>1, <2>2 DEF PDOK, PDProgress, PDTruth, ErrorAnswers
<1> QED
  BY <1>3, <1>4, <1>5, <1>6, <1>7 DEF OrchestratedStep

LEMMA PDOverSessions ==
  ASSUME PDInv, NEW r \in PDRequests, BodyUnreadable(r) \/ SessionStep(r)
  PROVE  PDTypeOK' /\ PDOthers(r) /\ PDOK(r)'
<1>1. PDTypeOK /\ PDOK(r)
  BY DEF PDInv
<1>2. /\ "error" \in Contents /\ {"200", "500", "engine"} \subseteq Codes
      /\ "200" \notin ErrorAnswers
  BY DEF Contents, Codes, ErrorAnswers
<1>3. ASSUME NEW code \in {"200", "500", "engine"}, kind = "sessions" \/ code = "500",
             Ends(r, code, "error") \/ Fails(r, code, "error")
      PROVE  PDTypeOK' /\ PDOthers(r) /\ PDOK(r)'
  BY <1>2, <1>3, PDEnded
<1>4. CASE BodyUnreadable(r) \/ PrefillerError(r)
  BY <1>3, <1>4 DEF BodyUnreadable, PrefillerError, At
\* The request ends with an error, or goes on.
<1>5. ASSUME NEW s \in {"prefill", "returned"}, stage[r] \in {"idle", "prefill"}, Enter(r, s),
             UNCHANGED <<kind, session, status, content, fault>>
      PROVE  PDTypeOK' /\ PDOthers(r) /\ PDOK(r)'
  <2>1. stage'[r] = s /\ PDTypeOK' /\ PDOthers(r)
    BY <1>1, <1>5 DEF PDTypeOK, PDOthers, Stages, Enter
  <2> QED
    BY <1>1, <1>5, <2>1 DEF PDOK, PDProgress, PDTruth
<1>6. CASE PrefillOverSession(r)
  <2>1. CASE Usable(session["prefill"])
    BY <1>5, <1>6, <2>1 DEF PrefillOverSession, At
  <2>2. CASE ~Usable(session["prefill"])
    BY <1>3, <1>6, <2>2 DEF PrefillOverSession, At, Fails
  <2> QED
    BY <2>1, <2>2
<1>7. CASE PrefillSucceeds(r)
  <2>1. CASE session["decode"] = 0
    BY <1>3, <1>7, <2>1 DEF PrefillSucceeds, At, Fails
  <2>2. CASE session["decode"] # 0
    BY <1>5, <1>7, <2>2 DEF PrefillSucceeds, At
  <2> QED
    BY <2>1, <2>2
<1>8. CASE DecodeOverSession(r)
  <2>1. CASE ~Usable(session["decode"])
    BY <1>3, <1>8, <2>1 DEF DecodeOverSession, At, Fails
  <2>2. CASE Usable(session["decode"])
    <3>1. /\ kind = "sessions" /\ stage[r] = "returned"
          /\ stage' = [stage EXCEPT ![r] = "streaming"] /\ status' = [status EXCEPT ![r] = "200"]
          /\ UNCHANGED <<kind, session, content, fault>>
      BY <1>8, <2>2 DEF DecodeOverSession, At, Enter
    <3>2. stage'[r] = "streaming" /\ status'[r] = "200" /\ PDTypeOK' /\ PDOthers(r)
      BY <1>1, <1>2, <3>1 DEF PDTypeOK, PDOthers, Stages
    <3> QED
      BY <1>1, <1>2, <3>1, <3>2 DEF PDOK, PDProgress, PDTruth
  <2> QED
    BY <2>1, <2>2
<1> QED
  BY <1>4, <1>6, <1>7, <1>8 DEF SessionStep

LEMMA PDStreaming ==
  ASSUME PDInv, NEW r \in PDRequests,
         Uniterated(r) \/ StreamComplete(r) \/ StreamBreaks(r) \/ Cancelled(r)
  PROVE  PDTypeOK' /\ PDOthers(r) /\ PDOK(r)'
<1>1. PDTypeOK /\ PDProgress(r)
  BY DEF PDInv, PDOK
<1>2. /\ {"none", "200"} \subseteq Codes \ ErrorAnswers
      /\ {"whole", "error", "broken", "cancelled"} \subseteq Contents
  BY DEF Codes, ErrorAnswers, Contents
<1>3. CASE Uniterated(r)
  BY <1>2, <1>3, PDEnded DEF Uniterated
<1>4. CASE StreamComplete(r)
  <2>1. ~fault[r] /\ Ends(r, "200", "whole")
    BY <1>1, <1>4 DEF StreamComplete, PDProgress
  <2> QED
    BY <1>2, <2>1, PDEnded
<1>5. CASE StreamBreaks(r)
  <2>1. CASE kind = "sessions"
    <3>1. Fails(r, "200", "error")
      BY <1>5, <2>1 DEF StreamBreaks
    <3> QED
      BY <1>2, <2>1, <3>1, PDEnded
  <2>2. CASE kind # "sessions"
    <3>1. Fails(r, "200", "broken")
      BY <1>5, <2>2 DEF StreamBreaks
    <3> QED
      BY <1>2, <2>2, <3>1, PDEnded
  <2> QED
    BY <2>1, <2>2
<1>6. CASE Cancelled(r)
  <2>1. status[r] \in {"none", "200"} /\ Ends(r, status[r], "cancelled")
    BY <1>1, <1>6 DEF Cancelled, PDProgress
  <2> QED
    BY <1>2, <2>1, PDEnded
<1> QED
  BY <1>3, <1>4, <1>5, <1>6

LEMMA PDInvariant == PDSpec => []PDInv
<1>1. PDInv /\ [PDNext]_pdVars => PDInv'
  <2> SUFFICES ASSUME PDInv, [PDNext]_pdVars PROVE PDInv'
    OBVIOUS
  <2>1. ASSUME NEW r \in PDRequests, PDStep(r) PROVE PDInv'
    <3>1. PDTypeOK' /\ PDOthers(r) /\ PDOK(r)'
      BY <2>1, PDOrchestrated, PDOverSessions, PDStreaming DEF PDStep
    <3> QED
      BY <3>1, PDFrame DEF PDInv
  <2>2. ASSUME NEW role \in PDRoles, ReplaceSession(role) PROVE PDInv'
    <3>1. /\ UNCHANGED <<kind, stage, status, content, fault>>
          /\ session' = [session EXCEPT ![role] = @ + 1]
      BY <2>2 DEF ReplaceSession
    <3>2. session' \in [PDRoles -> Nat]
      BY <2>2, <3>1, SMT DEF PDInv, PDTypeOK
    <3>3. PDTypeOK'
      BY <3>1, <3>2 DEF PDInv, PDTypeOK
    <3>4. \A q \in PDRequests : PDOK(q)'
      BY <3>1 DEF PDInv, PDOK, PDProgress, PDTruth
    <3> QED
      BY <3>3, <3>4 DEF PDInv
  <2>3. CASE UNCHANGED pdVars
    BY <2>3, SMTT(30) DEF PDInv, PDTypeOK, PDOK, PDProgress, PDTruth, pdVars
  <2> QED
    BY <2>1, <2>2, <2>3 DEF PDNext, PDDone
<1> QED
  BY <1>1, PDInitially, PTL DEF PDSpec

\* On both disaggregated paths no answer is passed off as whole that an engine, a
\* timeout or the replacement of a session failed, and only over the sessions is an
\* error sent under the status 200 (route_orchestrated_disaggregated_request,
\* route_disaggregated_prefill_request).
THEOREM AnswersTruthful == PDSpec => []TruthfulAnswer
<1>1. PDInv => TruthfulAnswer
  BY DEF PDInv, PDOK, PDTruth, TruthfulAnswer
<1> QED
  BY <1>1, PDInvariant, PTL

-----------------------------------------------------------------------------
(* Sleep requests *)

AdminState == [pc : {"idle", "posting", "answered", "over"}, op : {"none", "/sleep", "/wake_up"},
               engine : Sleepers \cup {NoSleeper}, answer : {"none", "200", "400", "500"}]

SleepStatus == {"awake", "asleep"}

SleepTypeOK ==
  /\ by \in {"pod-ip", "service-name", "static"}
  /\ asleep \in [Sleepers -> BOOLEAN] /\ up \in [Sleepers -> BOOLEAN]
  /\ label \in [Sleepers -> BOOLEAN]
  /\ unseen \in [Sleepers -> BOOLEAN] /\ undisturbed \in [Sleepers -> BOOLEAN]
  /\ events \in [Sleepers -> Seq(BOOLEAN)]
  /\ table \in [Sleepers -> SleepStatus \cup {"none"}]
  /\ reading \in [engine : Sleepers \cup {NoSleeper}, status : SleepStatus]
  /\ reading.engine = NoSleeper => reading = NotReading
  /\ admin \in [Admins -> AdminState]
  /\ \A a \in Admins : admin[a].pc \in {"posting", "answered"} => admin[a].engine \in Sleepers

Answered(a, e) == admin[a].pc = "answered" /\ admin[a].engine = e

\* The table will soon say this of e, without another event.
Effective(e) == IF reading.engine = e THEN reading.status ELSE table[e]

StatusOf(e) == IF asleep[e] THEN "asleep" ELSE "awake"

\* The last event to come of an engine that is up says that it is ready.
LastReady(e) == up[e] /\ events[e] # <<>> => events[e][Len(events[e])]

\* When no event is to come and nothing was missed, the table tells the truth.
TableTells(e) == up[e] /\ events[e] = <<>> /\ ~unseen[e] => Effective(e) = StatusOf(e)

\* No two requests are on their way to the engine.
Calm(e) == \A a, b \in InFlightOn(e) : a = b

\* The label on the pod says what the engine does, but for a request that has not
\* patched it yet; and when it does, no change went unseen.
LabelTells(e) ==
  /\ \A a \in Admins : Answered(a, e) => (asleep[e] <=> admin[a].op = "/sleep")
  /\ (\A a \in Admins : ~Answered(a, e)) => (label[e] <=> asleep[e])
  /\ (label[e] <=> asleep[e]) => ~unseen[e]

SleepOK(e) ==
  by = "pod-ip" =>
    /\ LastReady(e) /\ TableTells(e)
    /\ undisturbed[e] => Calm(e) /\ LabelTells(e)

SleepInv == SleepTypeOK /\ \A e \in Sleepers : SleepOK(e)

LEMMA SleepInitially == SleepInit => SleepInv
<1> SUFFICES ASSUME SleepInit PROVE SleepInv
  OBVIOUS
<1>1. \A a \in Admins : admin[a] = NewAdmin /\ NewAdmin \in AdminState /\ NewAdmin.pc = "idle"
  BY DEF SleepInit, NewAdmin, AdminState
<1>2. NotReading \in [engine : Sleepers \cup {NoSleeper}, status : SleepStatus]
  BY DEF NotReading, SleepStatus
<1>3. admin \in [Admins -> AdminState]
  BY <1>1 DEF SleepInit
<1>4. <<>> \in Seq(BOOLEAN)
  BY SMT
<1>5. SleepTypeOK
  BY <1>1, <1>2, <1>3, <1>4 DEF SleepInit, SleepTypeOK, SleepStatus
<1>6. ASSUME NEW e \in Sleepers PROVE SleepOK(e)
  <2>1. reading.engine # e
    BY SleepersAssumption DEF SleepInit, NotReading
  <2>2. /\ Effective(e) = "awake" /\ ~asleep[e] /\ ~label[e] /\ ~unseen[e] /\ events[e] = <<>>
    BY <2>1 DEF Effective, SleepInit
  <2>3. Calm(e) /\ \A a \in Admins : ~Answered(a, e)
    BY <1>1 DEF Calm, InFlightOn, Answered
  <2> QED
    BY <2>2, <2>3 DEF SleepOK, LastReady, LabelTells, TableTells, StatusOf
<1> QED
  BY <1>5, <1>6 DEF SleepInv

\* A request moves on: its engine and what it asks for stay.
LEMMA AdminMoves ==
  ASSUME SleepTypeOK, NEW a \in Admins, NEW p \in {"answered", "over"},
         \/ p = "answered" /\ admin[a].pc = "posting" /\ admin' = [admin EXCEPT ![a].pc = p]
         \/ /\ p = "over"
            /\ \E c \in {"200", "400", "500"} : admin' = [admin EXCEPT ![a].pc = p, ![a].answer = c]
  PROVE  /\ admin' \in [Admins -> AdminState]
         /\ admin'[a].pc = p /\ admin'[a].engine = admin[a].engine /\ admin'[a].op = admin[a].op
         /\ \A b \in Admins : b # a => admin'[b] = admin[b]
         /\ \A b \in Admins : admin'[b].pc \in {"posting", "answered"} => admin'[b].engine \in Sleepers
<1>1. admin[a] \in AdminState /\ admin \in [Admins -> AdminState]
  BY DEF SleepTypeOK
<1>2. CASE p = "answered"
  <2>1. admin' = [admin EXCEPT ![a] = [admin[a] EXCEPT !.pc = p]]
    BY <1>2
  <2>2. [admin[a] EXCEPT !.pc = p] =
          [pc |-> p, op |-> admin[a].op, engine |-> admin[a].engine, answer |-> admin[a].answer]
    BY <1>1, SMT DEF AdminState
  <2>3. admin[a].pc = "posting"
    BY <1>2
  <2> QED
    BY <1>1, <1>2, <2>1, <2>2, <2>3 DEF AdminState, SleepTypeOK
<1>3. CASE p = "over"
  <2>1. PICK c \in {"200", "400", "500"} :
          admin' = [admin EXCEPT ![a] = [admin[a] EXCEPT !.pc = p, !.answer = c]]
    BY <1>3, ZenonT(30)
  <2>2. [admin[a] EXCEPT !.pc = p, !.answer = c] =
          [pc |-> p, op |-> admin[a].op, engine |-> admin[a].engine, answer |-> c]
    <3>1. [admin[a] EXCEPT !.pc = p] =
            [pc |-> p, op |-> admin[a].op, engine |-> admin[a].engine, answer |-> admin[a].answer]
      BY <1>1, SMT DEF AdminState
    <3>2. [admin[a] EXCEPT !.pc = p, !.answer = c] = [[admin[a] EXCEPT !.pc = p] EXCEPT !.answer = c]
      OBVIOUS
    <3>3. [[pc |-> p, op |-> admin[a].op, engine |-> admin[a].engine, answer |-> admin[a].answer]
             EXCEPT !.answer = c] =
            [pc |-> p, op |-> admin[a].op, engine |-> admin[a].engine, answer |-> c]
      BY SMT
    <3> QED
      BY <3>1, <3>2, <3>3
  <2> QED
    BY <1>1, <1>3, <2>1, <2>2 DEF AdminState, SleepTypeOK
<1> QED
  BY <1>2, <1>3

\* The last event, when one is read or another comes.
LEMMA LastOf ==
  ASSUME NEW q \in Seq(BOOLEAN)
  PROVE  /\ \A b \in BOOLEAN : /\ Append(q, b) \in Seq(BOOLEAN) /\ Append(q, b) # <<>>
                               /\ Append(q, b)[Len(Append(q, b))] = b
         /\ q # <<>> => /\ Tail(q) \in Seq(BOOLEAN)
                        /\ Tail(q) # <<>> => Tail(q)[Len(Tail(q))] = q[Len(q)]
                        /\ Tail(q) = <<>> => Head(q) = q[Len(q)]
<1>1. ASSUME NEW b \in BOOLEAN
      PROVE  /\ Append(q, b) \in Seq(BOOLEAN) /\ Append(q, b) # <<>>
             /\ Append(q, b)[Len(Append(q, b))] = b
  BY AppendProperties, SMT
<1>2. ASSUME q # <<>>
      PROVE  /\ Tail(q) \in Seq(BOOLEAN)
             /\ Tail(q) # <<>> => Tail(q)[Len(Tail(q))] = q[Len(q)]
             /\ Tail(q) = <<>> => Head(q) = q[Len(q)]
  <2>1. /\ Head(q) = q[1] /\ Tail(q) \in Seq(BOOLEAN)
        /\ Len(Tail(q)) = Len(q) - 1
        /\ \A i \in 1 .. Len(Tail(q)) : Tail(q)[i] = q[i + 1]
    <3>1. Head(q) = q[1]
      BY <1>2, SMT
    <3> QED
      BY <1>2, <3>1, HeadTailProperties
  <2>2. /\ Len(q) \in Nat /\ Len(Tail(q)) \in Nat
        /\ Tail(q) = <<>> <=> Len(Tail(q)) = 0
    BY <2>1, EmptySeq, LenProperties
  <2>3. PICK n \in Nat, k \in Nat : n = Len(q) /\ k = Len(Tail(q))
    BY <2>2
  <2>4. k = n - 1 /\ k + 1 = n
    BY <2>1, <2>3, SMT
  <2>5. k # 0 => k \in 1 .. k
    BY SMT
  <2>6. k = 0 => n = 1
    BY <2>4, SMT
  <2> QED
    BY <2>1, <2>2, <2>3, <2>4, <2>5, <2>6
<1> QED
  BY <1>1, <1>2

\* A step that leaves alone what the invariant says of an engine.
LEMMA SleepFrame ==
  ASSUME NEW e \in Sleepers, SleepOK(e), UNCHANGED by, undisturbed'[e] => undisturbed[e],
         up'[e] = up[e], asleep'[e] = asleep[e], label'[e] = label[e], events'[e] = events[e],
         unseen'[e] = unseen[e],
         Effective(e)' = Effective(e), InFlightOn(e)' \subseteq InFlightOn(e),
         \A a \in Admins : undisturbed'[e] => /\ Answered(a, e)' <=> Answered(a, e)
                                              /\ Answered(a, e) => admin'[a].op = admin[a].op
  PROVE  SleepOK(e)'
<1> SUFFICES ASSUME by = "pod-ip"
             PROVE  /\ LastReady(e)' /\ TableTells(e)'
                    /\ undisturbed'[e] => Calm(e)' /\ LabelTells(e)'
  BY DEF SleepOK
<1>1. /\ LastReady(e) /\ TableTells(e)
      /\ undisturbed[e] => Calm(e) /\ LabelTells(e)
  BY DEF SleepOK
<1>2. LastReady(e)' /\ TableTells(e)'
  BY <1>1 DEF LastReady, TableTells, StatusOf
<1>3. undisturbed'[e] => Calm(e)'
  BY <1>1 DEF Calm
<1>4. undisturbed'[e] => LabelTells(e)'
  BY <1>1 DEF LabelTells
<1> QED
  BY <1>2, <1>3, <1>4

LEMMA SleepEngines ==
  ASSUME SleepInv, NEW d \in Sleepers, Restart(d) \/ Recover(d) \/ PodUnready(d) \/ ModelsUnread(d)
  PROVE  SleepInv'
<1>1. SleepTypeOK /\ SleepOK(d)
  BY DEF SleepInv
<1>2. UNCHANGED <<by, label, reading, admin>>
  BY DEF Restart, Recover, PodUnready, ModelsUnread
<1>3. up[d] \in BOOLEAN /\ events[d] \in Seq(BOOLEAN)
  BY <1>1 DEF SleepTypeOK
<1>4. /\ Append(events[d], TRUE) \in Seq(BOOLEAN) /\ Append(events[d], FALSE) \in Seq(BOOLEAN)
      /\ events[d] # <<>> => Tail(events[d]) \in Seq(BOOLEAN)
  BY <1>3, LastOf
<1>5. /\ up' \in [Sleepers -> BOOLEAN] /\ asleep' \in [Sleepers -> BOOLEAN]
      /\ unseen' \in [Sleepers -> BOOLEAN] /\ undisturbed' \in [Sleepers -> BOOLEAN]
      /\ events' \in [Sleepers -> Seq(BOOLEAN)]
      /\ table' \in [Sleepers -> SleepStatus \cup {"none"}]
      /\ \A e \in Sleepers : e # d =>
           /\ up'[e] = up[e] /\ asleep'[e] = asleep[e] /\ events'[e] = events[e]
           /\ table'[e] = table[e] /\ unseen'[e] = unseen[e] /\ undisturbed'[e] = undisturbed[e]
  <2>1. CASE Restart(d)
    BY <1>1, <1>4, <2>1 DEF Restart, Disturb, SleepTypeOK
  <2>2. CASE Recover(d)
    BY <1>1, <1>4, <2>2 DEF Recover, Unseen, SleepTypeOK
  <2>3. CASE PodUnready(d)
    BY <1>1, <1>4, <2>3 DEF PodUnready, SleepTypeOK
  <2>4. CASE ModelsUnread(d)
    BY <1>1, <1>4, <2>4 DEF ModelsUnread, Disturb, Unseen, SleepTypeOK
  <2> QED
    BY <2>1, <2>2, <2>3, <2>4
<1>6. SleepTypeOK'
  BY <1>1, <1>2, <1>5 DEF SleepTypeOK
<1>7. ASSUME NEW e \in Sleepers, e # d PROVE SleepOK(e)'
  BY <1>2, <1>5, <1>7, SleepFrame DEF SleepInv, Effective, InFlightOn, Answered
<1>8. SleepOK(d)'
  <2> SUFFICES ASSUME by = "pod-ip"
               PROVE  /\ LastReady(d)' /\ TableTells(d)'
                      /\ undisturbed'[d] => Calm(d)' /\ LabelTells(d)'
    BY <1>2 DEF SleepOK
  <2>0. /\ LastReady(d) /\ TableTells(d)
        /\ undisturbed[d] => Calm(d) /\ LabelTells(d)
    BY <1>1 DEF SleepOK
  <2>1. CASE Restart(d)
    <3>1. ~up'[d] /\ ~undisturbed'[d]
      BY <1>1, <2>1 DEF Restart, Disturb, SleepTypeOK
    <3> QED
      BY <3>1 DEF LastReady, TableTells
  <2>2. CASE Recover(d)
    <3>1. /\ events'[d] = Append(events[d], TRUE) /\ ~unseen'[d]
          /\ asleep' = asleep /\ undisturbed' = undisturbed
      BY <1>1, <2>2 DEF Recover, Unseen, SleepTypeOK
    <3>2. events'[d] # <<>> /\ events'[d][Len(events'[d])] = TRUE
      <4>1. \A b \in BOOLEAN : /\ Append(events[d], b) \in Seq(BOOLEAN) /\ Append(events[d], b) # <<>>
                              /\ Append(events[d], b)[Len(Append(events[d], b))] = b
        BY <1>3, LastOf
      <4> QED
        BY <3>1, <4>1
    <3>3. LastReady(d)' /\ TableTells(d)'
      BY <3>2 DEF LastReady, TableTells
    <3> QED
      BY <1>2, <2>0, <3>1, <3>3 DEF Calm, LabelTells, InFlightOn, Answered
  <2>3. CASE PodUnready(d)
    <3>1. /\ events[d] # <<>> /\ ~Head(events[d]) /\ events'[d] = Tail(events[d])
          /\ UNCHANGED <<up, asleep, unseen, undisturbed>>
      BY <1>1, <2>3 DEF PodUnready, SleepTypeOK
    <3>2. /\ events'[d] # <<>> => events'[d][Len(events'[d])] = events[d][Len(events[d])]
          /\ events'[d] = <<>> => Head(events[d]) = events[d][Len(events[d])]
      BY <1>3, <3>1, LastOf
    <3>3. LastReady(d)' /\ TableTells(d)'
      BY <2>0, <3>1, <3>2 DEF LastReady, TableTells
    <3> QED
      BY <1>2, <2>0, <3>1, <3>3 DEF Calm, LabelTells, InFlightOn, Answered
  <2>4. CASE ModelsUnread(d)
    <3>1. /\ events[d] # <<>> /\ events'[d] = Tail(events[d]) /\ up' = up
          /\ unseen'[d] /\ ~undisturbed'[d]
      BY <1>1, <2>4 DEF ModelsUnread, Disturb, Unseen, SleepTypeOK
    <3>2. events'[d] # <<>> => events'[d][Len(events'[d])] = events[d][Len(events[d])]
      BY <1>3, <3>1, LastOf
    <3> QED
      BY <2>0, <3>1, <3>2 DEF LastReady, TableTells
  <2> QED
    BY <2>1, <2>2, <2>3, <2>4
<1> QED
  BY <1>6, <1>7, <1>8 DEF SleepInv

LEMMA SleepReads ==
  ASSUME SleepInv, NEW d \in Sleepers, ReadSleepStatus(d)
  PROVE  SleepInv'
<1> DEFINE told == StatusOf(d)
<1>1. SleepTypeOK
  BY DEF SleepInv
<1>2. /\ UNCHANGED <<by, label, up, asleep, table, admin>>
      /\ reading = NotReading /\ events[d] # <<>> /\ events' = [events EXCEPT ![d] = Tail(@)]
      /\ \/ Unseen(d, FALSE) /\ UNCHANGED undisturbed /\ reading' = [engine |-> d, status |-> told]
         \/ Unseen(d, TRUE) /\ Disturb(d) /\ reading' = [engine |-> d, status |-> "awake"]
  BY DEF ReadSleepStatus, StatusOf
<1>3. events[d] \in Seq(BOOLEAN) /\ Tail(events[d]) \in Seq(BOOLEAN)
  BY <1>1, <1>2, SMT DEF SleepTypeOK
<1>4. /\ events' \in [Sleepers -> Seq(BOOLEAN)]
      /\ \A e \in Sleepers : events'[e] = IF e = d THEN Tail(events[d]) ELSE events[e]
  BY <1>1, <1>2, <1>3 DEF SleepTypeOK
<1>5. /\ undisturbed' \in [Sleepers -> BOOLEAN] /\ unseen' \in [Sleepers -> BOOLEAN]
      /\ \A e \in Sleepers : undisturbed'[e] => undisturbed[e]
      /\ \A e \in Sleepers : e # d => unseen'[e] = unseen[e]
      /\ undisturbed'[d] => ~unseen'[d]
      /\ ~unseen'[d] => reading' = [engine |-> d, status |-> told]
  BY <1>1, <1>2 DEF SleepTypeOK, Disturb, Unseen
<1>6. told \in SleepStatus /\ "awake" \in SleepStatus
  BY DEF SleepStatus, StatusOf
<1>7. /\ reading' \in [engine : Sleepers \cup {NoSleeper}, status : SleepStatus]
      /\ reading'.engine = d /\ d # NoSleeper
      /\ ~unseen'[d] => reading'.status = told
  <2> HIDE DEF told
  <2>1. \A t \in SleepStatus : /\ [engine |-> d, status |-> t].engine = d
                               /\ [engine |-> d, status |-> t].status = t
                               /\ [engine |-> d, status |-> t] \in
                                    [engine : Sleepers \cup {NoSleeper}, status : SleepStatus]
    OBVIOUS
  <2>2. \E t \in SleepStatus : reading' = [engine |-> d, status |-> t]
    BY <1>2, <1>6
  <2> QED
    BY <1>5, <1>6, <2>1, <2>2, SleepersAssumption
<1>8. SleepTypeOK'
  BY <1>1, <1>2, <1>4, <1>5, <1>7 DEF SleepTypeOK
<1>9. ASSUME NEW e \in Sleepers, e # d PROVE SleepOK(e)'
  <2>1. reading.engine # e
    BY <1>2, SleepersAssumption DEF NotReading
  <2>2. Effective(e)' = Effective(e)
    BY <1>2, <1>7, <1>9, <2>1 DEF Effective
  <2> QED
    BY <1>2, <1>4, <1>5, <1>9, <2>2, SleepFrame DEF SleepInv, InFlightOn, Answered
<1>10. SleepOK(d)'
  <2> SUFFICES ASSUME by = "pod-ip"
               PROVE  /\ LastReady(d)' /\ TableTells(d)'
                      /\ undisturbed'[d] => Calm(d)' /\ LabelTells(d)'
    BY <1>2 DEF SleepOK
  <2>1. LastReady(d) /\ (undisturbed'[d] => Calm(d) /\ LabelTells(d))
    BY <1>5 DEF SleepInv, SleepOK
  <2>2. events'[d] # <<>> => events'[d][Len(events'[d])] = events[d][Len(events[d])]
    BY <1>2, <1>3, <1>4, LastOf
  <2>3. LastReady(d)'
    BY <1>2, <2>1, <2>2 DEF LastReady
  <2>4. TableTells(d)'
    BY <1>2, <1>7 DEF TableTells, Effective, StatusOf
  <2>5. undisturbed'[d] => Calm(d)' /\ LabelTells(d)'
    BY <1>2, <1>5, <2>1 DEF Calm, LabelTells, InFlightOn, Answered
  <2> QED
    BY <2>3, <2>4, <2>5
<1> QED
  BY <1>8, <1>9, <1>10 DEF SleepInv

LEMMA SleepAdds ==
  ASSUME SleepInv, AddEngine
  PROVE  SleepInv'
<1>1. SleepTypeOK
  BY DEF SleepInv
<1>2. /\ UNCHANGED <<by, label, up, asleep, events, admin, unseen, undisturbed>>
      /\ reading # NotReading /\ reading' = NotReading
      /\ table' = [table EXCEPT ![reading.engine] = reading.status]
  BY DEF AddEngine
<1>3. reading.engine \in Sleepers /\ reading.status \in SleepStatus
  BY <1>1, <1>2 DEF SleepTypeOK
<1>4. /\ table' \in [Sleepers -> SleepStatus \cup {"none"}]
      /\ \A e \in Sleepers : table'[e] = Effective(e)
  BY <1>1, <1>2, <1>3 DEF SleepTypeOK, Effective
<1>5. /\ NotReading \in [engine : Sleepers \cup {NoSleeper}, status : SleepStatus]
      /\ NotReading.engine \notin Sleepers
  BY SleepersAssumption DEF NotReading, SleepStatus
<1>6. SleepTypeOK'
  BY <1>1, <1>2, <1>4, <1>5 DEF SleepTypeOK
<1>7. ASSUME NEW e \in Sleepers PROVE SleepOK(e)'
  <2>1. Effective(e)' = Effective(e)
    <3>1. Effective(e)' = table'[e]
      BY <1>2, <1>5 DEF Effective
    <3> QED
      BY <1>4, <3>1
  <2> QED
    BY <1>2, <2>1, SleepFrame DEF SleepInv, InFlightOn, Answered
<1> QED
  BY <1>6, <1>7 DEF SleepInv

LEMMA SleepPosts ==
  ASSUME SleepInv, NEW a \in Admins, NEW op \in {"/sleep", "/wake_up"}, NEW d \in Sleepers,
         SleepPosted(a, op, d)
  PROVE  SleepInv'
<1>1. SleepTypeOK
  BY DEF SleepInv
<1>2. /\ UNCHANGED <<by, asleep, up, label, events, table, reading, unseen>>
      /\ admin[a].pc = "idle"
      /\ admin' = [admin EXCEPT ![a] = [pc |-> "posting", op |-> op, engine |-> d, answer |-> "none"]]
      /\ IF InFlightOn(d) = {} THEN UNCHANGED undisturbed ELSE Disturb(d)
  BY DEF SleepPosted
<1>3. [pc |-> "posting", op |-> op, engine |-> d, answer |-> "none"] \in AdminState
  BY DEF AdminState
<1>4. /\ admin' \in [Admins -> AdminState]
      /\ admin'[a].pc = "posting" /\ admin'[a].engine = d
      /\ \A b \in Admins : b # a => admin'[b] = admin[b]
  BY <1>1, <1>2, <1>3 DEF SleepTypeOK
<1>5. /\ undisturbed' \in [Sleepers -> BOOLEAN]
      /\ \A e \in Sleepers : undisturbed'[e] => undisturbed[e]
      /\ undisturbed'[d] => InFlightOn(d) = {}
  BY <1>1, <1>2 DEF SleepTypeOK, Disturb
<1>6. SleepTypeOK'
  BY <1>1, <1>2, <1>4, <1>5 DEF SleepTypeOK
<1>7. \A e \in Sleepers : Effective(e)' = Effective(e)
  BY <1>2 DEF Effective
<1>8. \A e \in Sleepers : \A b \in Admins :
        /\ Answered(b, e)' <=> Answered(b, e)
        /\ Answered(b, e) => admin'[b].op = admin[b].op
  BY <1>2, <1>4 DEF Answered
<1>9. ASSUME NEW e \in Sleepers, e # d PROVE SleepOK(e)'
  <2>1. InFlightOn(e)' \subseteq InFlightOn(e)
    BY <1>4, <1>9 DEF InFlightOn
  <2> QED
    BY <1>2, <1>5, <1>7, <1>8, <2>1, SleepFrame DEF SleepInv
<1>10. SleepOK(d)'
  <2> SUFFICES ASSUME by = "pod-ip"
               PROVE  /\ LastReady(d)' /\ TableTells(d)'
                      /\ undisturbed'[d] => Calm(d)' /\ LabelTells(d)'
    BY <1>2 DEF SleepOK
  <2>1. /\ LastReady(d) /\ TableTells(d)
        /\ undisturbed'[d] => Calm(d) /\ LabelTells(d)
    BY <1>5 DEF SleepInv, SleepOK
  <2>2. undisturbed'[d] => \A b \in InFlightOn(d)' : b = a
    BY <1>4, <1>5, SMT DEF InFlightOn
  <2>3. undisturbed'[d] => Calm(d)'
    BY <2>2 DEF Calm
  <2>4. undisturbed'[d] => LabelTells(d)'
    BY <1>2, <1>8, <2>1 DEF LabelTells
  <2>5. LastReady(d)' /\ TableTells(d)'
    BY <1>2, <1>7, <2>1 DEF LastReady, TableTells, StatusOf
  <2> QED
    BY <2>3, <2>4, <2>5
<1> QED
  BY <1>6, <1>9, <1>10 DEF SleepInv

\* A request ends without a change to its engine, label or table.
LEMMA SleepEnds ==
  ASSUME SleepInv, NEW a \in Admins,
         SleepRefused(a) \/ EngineRefuses(a) \/ LabelRaises(a) \/ LabelFails(a)
  PROVE  SleepInv'
<1> DEFINE d == admin[a].engine
<1>1. SleepTypeOK
  BY DEF SleepInv
<1>2. /\ UNCHANGED <<by, asleep, up, label, events, table, reading, unseen>>
      /\ \E c \in {"200", "400", "500"} : admin' = [admin EXCEPT ![a].pc = "over", ![a].answer = c]
      /\ admin[a].pc \in {"idle", "posting", "answered"}
      /\ UNCHANGED undisturbed \/ Disturb(d)
      /\ admin[a].pc = "answered" => by # "pod-ip" \/ Disturb(d)
      /\ Disturb(d) \/ UNCHANGED undisturbed
      /\ LabelFails(a) => admin[a].pc = "answered"
  BY DEF SleepRefused, EngineRefuses, LabelRaises, LabelFails
<1>3. /\ admin' \in [Admins -> AdminState] /\ admin'[a].pc = "over"
      /\ \A b \in Admins : b # a => admin'[b] = admin[b]
      /\ \A b \in Admins : admin'[b].pc \in {"posting", "answered"} => admin'[b].engine \in Sleepers
  BY <1>1, <1>2, AdminMoves
<1>4. /\ undisturbed' \in [Sleepers -> BOOLEAN]
      /\ \A e \in Sleepers : undisturbed'[e] => undisturbed[e]
      /\ admin[a].pc = "answered" => by # "pod-ip" \/ (d \in Sleepers /\ ~undisturbed'[d])
  BY <1>1, <1>2 DEF SleepTypeOK, Disturb
<1>5. SleepTypeOK'
  BY <1>1, <1>2, <1>3, <1>4 DEF SleepTypeOK
<1>6. ASSUME NEW e \in Sleepers PROVE SleepOK(e)'
  <2>1. CASE by = "pod-ip"
    <3>1. \A b \in Admins : undisturbed'[e] =>
            /\ Answered(b, e)' <=> Answered(b, e)
            /\ Answered(b, e) => admin'[b].op = admin[b].op
      BY <1>3, <1>4, <2>1 DEF Answered
    <3>2. InFlightOn(e)' \subseteq InFlightOn(e)
      BY <1>3 DEF InFlightOn
    <3>3. Effective(e)' = Effective(e)
      BY <1>2 DEF Effective
    <3> QED
      BY <1>2, <1>4, <3>1, <3>2, <3>3, SleepFrame DEF SleepInv
  <2>2. CASE by # "pod-ip"
    BY <1>2, <2>2 DEF SleepOK
  <2> QED
    BY <2>1, <2>2
<1> QED
  BY <1>5, <1>6 DEF SleepInv

LEMMA SleepObeys ==
  ASSUME SleepInv, NEW a \in Admins, EngineObeys(a)
  PROVE  SleepInv'
<1>0. PICK d : d = admin[a].engine
  OBVIOUS
<1>1. SleepTypeOK
  BY DEF SleepInv
<1>2. /\ UNCHANGED <<by, up, label, events, table, reading>>
      /\ admin[a].pc = "posting" /\ d \in Sleepers
      /\ \/ admin' = [admin EXCEPT ![a].pc = "answered"] /\ UNCHANGED undisturbed
         \/ admin' = [admin EXCEPT ![a].pc = "over", ![a].answer = "500"] /\ Disturb(d)
  BY <1>0, <1>1 DEF EngineObeys, SleepTypeOK
<1>3. /\ asleep' \in [Sleepers -> BOOLEAN]
      /\ asleep'[d] <=> admin[a].op = "/sleep"
      /\ \A e \in Sleepers : e # d => asleep'[e] = asleep[e] /\ unseen'[e] = unseen[e]
      /\ unseen' \in [Sleepers -> BOOLEAN]
      /\ asleep'[d] = asleep[d] => unseen'[d] = unseen[d]
      /\ asleep'[d] # asleep[d] => unseen'[d]
  <2>1. PICK b \in BOOLEAN : asleep' = [asleep EXCEPT ![d] = b] /\ (b <=> admin[a].op = "/sleep")
    BY <1>0 DEF EngineObeys
  <2>2. PICK c \in BOOLEAN : /\ unseen' = [unseen EXCEPT ![d] = c]
                             /\ c <=> (unseen[d] \/ asleep' # asleep)
    BY <1>0 DEF EngineObeys, Unseen
  <2>3. asleep \in [Sleepers -> BOOLEAN] /\ unseen \in [Sleepers -> BOOLEAN]
    BY <1>1 DEF SleepTypeOK
  <2>4. /\ asleep' \in [Sleepers -> BOOLEAN] /\ asleep'[d] = b
        /\ \A e \in Sleepers : e # d => asleep'[e] = asleep[e]
    BY <1>2, <2>1, <2>3
  <2>5. asleep'[d] = asleep[d] <=> asleep' = asleep
    <3>1. \A f, g \in [Sleepers -> BOOLEAN] : (\A e \in Sleepers : f[e] = g[e]) => f = g
      BY SMT
    <3>2. (\A e \in Sleepers : asleep'[e] = asleep[e]) => asleep' = asleep
      BY <2>3, <2>4, <3>1
    <3>3. asleep'[d] = asleep[d] => \A e \in Sleepers : asleep'[e] = asleep[e]
      BY <2>4
    <3> QED
      BY <3>2, <3>3
  <2>6. /\ unseen' \in [Sleepers -> BOOLEAN] /\ unseen'[d] = c
        /\ \A e \in Sleepers : e # d => unseen'[e] = unseen[e]
    BY <1>2, <2>2, <2>3
  <2>7. unseen[d] \in BOOLEAN
    BY <1>2, <2>3
  <2>8. c = (unseen[d] \/ asleep' # asleep)
    BY <2>2
  <2> QED
    BY <2>1, <2>4, <2>5, <2>6, <2>7, <2>8
<1>4. /\ admin' \in [Admins -> AdminState] /\ admin'[a].pc \in {"answered", "over"}
      /\ admin'[a].engine = d /\ admin'[a].op = admin[a].op
      /\ \A b \in Admins : b # a => admin'[b] = admin[b]
      /\ \A b \in Admins : admin'[b].pc \in {"posting", "answered"} => admin'[b].engine \in Sleepers
  <2>1. CASE admin' = [admin EXCEPT ![a].pc = "answered"]
    BY <1>0, <1>1, <1>2, <2>1, AdminMoves
  <2>2. CASE admin' = [admin EXCEPT ![a].pc = "over", ![a].answer = "500"]
    BY <1>0, <1>1, <2>2, AdminMoves
  <2> QED
    BY <1>2, <2>1, <2>2
<1>5. /\ undisturbed' \in [Sleepers -> BOOLEAN]
      /\ \A e \in Sleepers : undisturbed'[e] => undisturbed[e]
      /\ undisturbed'[d] => admin'[a].pc = "answered"
  <2>1. CASE UNCHANGED undisturbed /\ admin' = [admin EXCEPT ![a].pc = "answered"]
    BY <1>1, <1>2, <2>1, AdminMoves DEF SleepTypeOK
  <2>2. CASE Disturb(d)
    BY <1>1, <1>2, <2>2 DEF SleepTypeOK, Disturb
  <2> QED
    BY <1>2, <2>1, <2>2
<1>6. SleepTypeOK'
  BY <1>1, <1>2, <1>3, <1>4, <1>5 DEF SleepTypeOK
<1>7. \A e \in Sleepers : Effective(e)' = Effective(e) /\ InFlightOn(e)' \subseteq InFlightOn(e)
  BY <1>0, <1>2, <1>4 DEF Effective, InFlightOn
<1>8. ASSUME NEW e \in Sleepers, e # d PROVE SleepOK(e)'
  <2>1. \A b \in Admins : /\ Answered(b, e)' <=> Answered(b, e)
                          /\ Answered(b, e) => admin'[b].op = admin[b].op
    BY <1>0, <1>2, <1>4, <1>8 DEF Answered
  <2> QED
    BY <1>2, <1>3, <1>5, <1>7, <1>8, <2>1, SleepFrame DEF SleepInv
<1>9. SleepOK(d)'
  <2> SUFFICES ASSUME by = "pod-ip"
               PROVE  /\ LastReady(d)' /\ TableTells(d)'
                      /\ undisturbed'[d] => Calm(d)' /\ LabelTells(d)'
    BY <1>2 DEF SleepOK
  <2>1. /\ LastReady(d) /\ TableTells(d)
        /\ undisturbed'[d] => Calm(d) /\ LabelTells(d)
    BY <1>2, <1>5 DEF SleepInv, SleepOK
  <2>2. LastReady(d)'
    BY <1>2, <2>1 DEF LastReady
  <2>3. TableTells(d)'
    BY <1>2, <1>3, <1>7, <2>1 DEF TableTells, StatusOf
  <2>4. ASSUME undisturbed'[d] PROVE Calm(d)' /\ LabelTells(d)'
    <3>1. \A b \in Admins : ~Answered(b, d) /\ (Answered(b, d)' <=> b = a)
      BY <1>0, <1>2, <1>4, <1>5, <2>1, <2>4, SMT DEF Calm, InFlightOn, Answered
    <3>2. label[d] <=> asleep[d]
      BY <2>1, <2>4, <3>1 DEF LabelTells
    <3>3. Calm(d)'
      BY <1>2, <1>7, <2>1, <2>4 DEF Calm
    <3>4. label[d] \in BOOLEAN /\ asleep[d] \in BOOLEAN /\ asleep'[d] \in BOOLEAN
      BY <1>1, <1>2, <1>3 DEF SleepTypeOK
    <3>5. (label'[d] <=> asleep'[d]) => ~unseen'[d]
      BY <1>2, <1>3, <2>1, <2>4, <3>2, <3>4 DEF LabelTells
    <3>6. LabelTells(d)'
      BY <1>3, <1>4, <3>1, <3>5 DEF LabelTells
    <3> QED
      BY <3>3, <3>6
  <2> QED
    BY <2>2, <2>3, <2>4
<1> QED
  BY <1>6, <1>8, <1>9 DEF SleepInv

LEMMA SleepPatches ==
  ASSUME SleepInv, NEW a \in Admins, LabelPatched(a)
  PROVE  SleepInv'
<1>0. PICK d : d = admin[a].engine
  OBVIOUS
<1>1. SleepTypeOK
  BY DEF SleepInv
<1>2. /\ UNCHANGED <<by, asleep, up, table, reading, undisturbed>>
      /\ admin[a].pc = "answered" /\ d \in Sleepers
      /\ admin' = [admin EXCEPT ![a].pc = "over", ![a].answer = "200"]
  BY <1>0, <1>1 DEF LabelPatched, SleepTypeOK
<1>3. PICK want \in BOOLEAN :
        /\ want <=> admin[a].op = "/sleep"
        /\ label' = [label EXCEPT ![d] = want]
        /\ IF label[d] = want
           THEN UNCHANGED <<events, unseen>>
           ELSE /\ events' = [events EXCEPT ![d] = Append(@, up[d])]
                /\ unseen' = [unseen EXCEPT ![d] = FALSE]
  BY <1>0 DEF LabelPatched, Announce, Unseen
<1>4. /\ label' \in [Sleepers -> BOOLEAN] /\ label'[d] = want
      /\ \A e \in Sleepers : e # d => label'[e] = label[e]
  BY <1>1, <1>2, <1>3 DEF SleepTypeOK
<1>5. /\ events[d] \in Seq(BOOLEAN) /\ up[d] \in BOOLEAN
      /\ Append(events[d], up[d]) \in Seq(BOOLEAN) /\ Append(events[d], up[d]) # <<>>
      /\ Append(events[d], up[d])[Len(Append(events[d], up[d]))] = up[d]
  <2>1. events[d] \in Seq(BOOLEAN) /\ up[d] \in BOOLEAN
    BY <1>1, <1>2 DEF SleepTypeOK
  <2>2. \A b \in BOOLEAN : /\ Append(events[d], b) \in Seq(BOOLEAN) /\ Append(events[d], b) # <<>>
                           /\ Append(events[d], b)[Len(Append(events[d], b))] = b
    BY <2>1, LastOf
  <2> QED
    BY <2>1, <2>2
<1>6. /\ events' \in [Sleepers -> Seq(BOOLEAN)] /\ unseen' \in [Sleepers -> BOOLEAN]
      /\ \A e \in Sleepers : e # d => events'[e] = events[e] /\ unseen'[e] = unseen[e]
      /\ \/ label[d] = want /\ events'[d] = events[d] /\ unseen'[d] = unseen[d]
         \/ events'[d] = Append(events[d], up[d]) /\ ~unseen'[d]
  <2>1. CASE label[d] = want
    BY <1>1, <1>3, <2>1 DEF SleepTypeOK
  <2>2. CASE label[d] # want
    <3>1. /\ events \in [Sleepers -> Seq(BOOLEAN)] /\ unseen \in [Sleepers -> BOOLEAN]
          /\ events' = [events EXCEPT ![d] = Append(events[d], up[d])]
          /\ unseen' = [unseen EXCEPT ![d] = FALSE]
      BY <1>1, <1>3, <2>2 DEF SleepTypeOK
    <3>2. events' \in [Sleepers -> Seq(BOOLEAN)] /\ unseen' \in [Sleepers -> BOOLEAN]
      BY <1>5, <3>1
    <3> QED
      BY <1>2, <3>1, <3>2
  <2> QED
    BY <2>1, <2>2
<1>7. /\ admin' \in [Admins -> AdminState] /\ admin'[a].pc = "over"
      /\ \A b \in Admins : b # a => admin'[b] = admin[b]
      /\ \A b \in Admins : admin'[b].pc \in {"posting", "answered"} => admin'[b].engine \in Sleepers
  BY <1>1, <1>2, AdminMoves
<1>8. SleepTypeOK'
  BY <1>1, <1>2, <1>4, <1>6, <1>7 DEF SleepTypeOK
<1>9. \A e \in Sleepers : Effective(e)' = Effective(e) /\ InFlightOn(e)' \subseteq InFlightOn(e)
  BY <1>2, <1>7 DEF Effective, InFlightOn
<1>10. ASSUME NEW e \in Sleepers, e # d PROVE SleepOK(e)'
  <2>1. \A b \in Admins : /\ Answered(b, e)' <=> Answered(b, e)
                          /\ Answered(b, e) => admin'[b].op = admin[b].op
    BY <1>0, <1>2, <1>7, <1>10 DEF Answered
  <2> QED
    BY <1>2, <1>4, <1>6, <1>9, <1>10, <2>1, SleepFrame DEF SleepInv
<1>11. SleepOK(d)'
  <2> SUFFICES ASSUME by = "pod-ip"
               PROVE  /\ LastReady(d)' /\ TableTells(d)'
                      /\ undisturbed'[d] => Calm(d)' /\ LabelTells(d)'
    BY <1>2 DEF SleepOK
  <2>1. /\ LastReady(d) /\ TableTells(d)
        /\ undisturbed'[d] => Calm(d) /\ LabelTells(d)
    BY <1>2 DEF SleepInv, SleepOK
  <2>2. LastReady(d)'
    BY <1>2, <1>5, <1>6, <2>1 DEF LastReady
  <2>3. TableTells(d)'
    BY <1>2, <1>5, <1>6, <1>9, <2>1 DEF TableTells, StatusOf
  <2>4. ASSUME undisturbed'[d] PROVE Calm(d)' /\ LabelTells(d)'
    <3>1. \A b \in Admins : ~Answered(b, d)'
      BY <1>0, <1>2, <1>7, <2>1, <2>4, SMT DEF Calm, InFlightOn, Answered
    <3>2. asleep[d] <=> want
      BY <1>0, <1>2, <1>3, <2>1, <2>4 DEF LabelTells, Answered
    <3>3. asleep[d] \in BOOLEAN /\ label[d] \in BOOLEAN
      BY <1>1, <1>2 DEF SleepTypeOK
    <3>4. ~unseen'[d]
      BY <1>6, <2>1, <2>4, <3>2, <3>3 DEF LabelTells
    <3>5. Calm(d)'
      BY <1>2, <1>9, <2>1, <2>4 DEF Calm
    <3>6. LabelTells(d)'
      BY <1>2, <1>4, <3>1, <3>2, <3>4 DEF LabelTells
    <3> QED
      BY <3>5, <3>6
  <2> QED
    BY <2>2, <2>3, <2>4
<1> QED
  BY <1>8, <1>10, <1>11 DEF SleepInv

LEMMA SleepInvariant == SleepSpec => []SleepInv
<1>1. SleepInv /\ [SleepNext]_sleepVars => SleepInv'
  <2> SUFFICES ASSUME SleepInv, [SleepNext]_sleepVars PROVE SleepInv'
    OBVIOUS
  <2>1. CASE UNCHANGED sleepVars
    BY <2>1, SMTT(30) DEF sleepVars, SleepInv, SleepTypeOK, SleepOK, Calm, LabelTells, LastReady, TableTells,
                Effective, StatusOf, Answered, InFlightOn
  <2> QED
    BY <2>1, SleepEngines, SleepReads, SleepAdds, SleepPosts, SleepEnds, SleepObeys, SleepPatches
       DEF SleepNext, SleepDone
<1> QED
  BY <1>1, SleepInitially, PTL DEF SleepSpec

\* With pod discovery, and whatever requests overlap, fail to patch the label or are
\* lost and however often engines restart: once everything about an engine has
\* settled, the engine table says what the engine does, unless the engine changed
\* after the last event of its pod or did not answer the query for it
\* (_on_engine_update, _add_engine, add_sleep_label, remove_sleep_label).
THEOREM SleepSettles == SleepSpec => []SleepReflected
<1>1. SleepInv => SleepReflected
  <2> SUFFICES ASSUME SleepInv, NEW e \in Sleepers, by = "pod-ip", up[e], Settled(e), ~unseen[e]
               PROVE  table[e] = StatusOf(e)
    BY DEF SleepReflected, StatusOf
  <2>1. TableTells(e)
    BY DEF SleepInv, SleepOK
  <2> QED
    BY <2>1 DEF TableTells, Settled, Effective
<1> QED
  BY <1>1, SleepInvariant, PTL

\* With pod discovery, every change of an engine that the router made is followed by an
\* event of its pod: the request that put it to sleep or woke it changes the label,
\* as long as no two requests overlap on it and nothing is lost or restarts.
THEOREM SleepAnnounced == SleepSpec => []ChangesAnnounced
<1>1. SleepInv => ChangesAnnounced
  <2> SUFFICES ASSUME SleepInv, NEW e \in Sleepers, by = "pod-ip", undisturbed[e], Settled(e)
               PROVE  ~unseen[e]
    BY DEF ChangesAnnounced
  <2>1. LabelTells(e)
    BY DEF SleepInv, SleepOK
  <2>2. label[e] <=> asleep[e]
    BY <2>1 DEF LabelTells, Settled, InFlightOn, Answered
  <2> QED
    BY <2>1, <2>2 DEF LabelTells
<1> QED
  BY <1>1, SleepInvariant, PTL

-----------------------------------------------------------------------------
(* External providers *)

CallState == [pc : {"sending", "hung", "answered", "streaming", "bad gateway", "raised", "broken"},
              attempt : Int, name : ModelNames, adapter : Nat, model : ModelNames]

ExtTypeOK ==
  /\ providers \in Configurations
  /\ position \in Nat \ {0}
  /\ sessions \in [DOMAIN providers -> {"none", "open", "closed"}]
  /\ offered \in [DOMAIN providers -> SUBSET ModelNames]
  /\ call \in [ExternalRequests -> {NoCall} \cup CallState]
  /\ startup \notin {"serving", "closed"} => \A r \in ExternalRequests : call[r] = NoCall

\* Every name leads to the adapter of a provider that has it, and to a model that the
\* provider offers if it has been asked.
IndexOK ==
  \A n \in DOMAIN model_index :
    LET a == model_index[n].adapter IN
    /\ a \in DOMAIN providers /\ n \in AllNames(providers[a])
    /\ model_index[n].provider = providers[a].name
    /\ model_index[n].canonical = resolve_model_id(providers[a], n)
    /\ offered[a] # {} => model_index[n].canonical \in offered[a]

\* Every provider registered so far has its adapter, and none has been asked before all are.
AdaptersOK ==
  /\ startup = "registering" => \A a \in DOMAIN providers : offered[a] = {}
  /\ \A a \in DOMAIN providers :
       (startup = "registering" /\ a < position) \/ startup \in {"validating", "serving"} =>
         providers[a].name \in DOMAIN adapters /\ adapters[providers[a].name] = a

CallsOK ==
  \A r \in ExternalRequests : call[r].pc # "new" =>
    LET a == call[r].adapter IN
    /\ a \in DOMAIN providers /\ call[r].name \in AllNames(providers[a])
    /\ offered[a] # {} => call[r].model \in offered[a]

ExtInv == ExtTypeOK /\ IndexOK /\ AdaptersOK /\ CallsOK /\ SessionsClosed

LEMMA ExtInitially == ExtInit => ExtInv
<1> SUFFICES ASSUME ExtInit PROVE ExtInv
  OBVIOUS
<1>1. DOMAIN model_index = {}
  BY DEF ExtInit, Empty
<1>2. \A r \in ExternalRequests : call[r] = NoCall /\ call[r].pc = "new"
  BY DEF ExtInit, NoCall
<1>3. ExtTypeOK
  BY <1>2, SMT DEF ExtInit, ExtTypeOK
<1>4. IndexOK /\ CallsOK /\ SessionsClosed
  BY <1>1, <1>2 DEF ExtInit, IndexOK, CallsOK, SessionsClosed
<1>5. AdaptersOK
  BY ConfigurationsAssumption, SMT DEF ExtInit, AdaptersOK
<1> QED
  BY <1>3, <1>4, <1>5 DEF ExtInv

\* In an unambiguous configuration the first model that has a name is the last one.
LEMMA OneModel ==
  ASSUME providers \in Configurations, Unambiguous, NEW a \in DOMAIN providers,
         NEW n \in AllNames(providers[a])
  PROVE  /\ LastModel(providers[a], n) = resolve_model_id(providers[a], n)
         /\ resolve_model_id(providers[a], n) \in ModelNames /\ n \in ModelNames
<1> DEFINE models == providers[a].models
<1>1. models \in Seq([id : ModelNames, aliases : SUBSET ModelNames])
  BY ConfigurationsAssumption
<1>2. PICK i \in DOMAIN models : n \in Names(models[i])
  BY DEF AllNames
<1>3. {j \in DOMAIN models : n \in Names(models[j])} = {i}
  BY <1>2 DEF Unambiguous
<1>4. Max({i}) = i /\ Min({i}) = i
  BY <1>1, <1>2, SMT DEF Max, Min
<1>5. models[i] \in [id : ModelNames, aliases : SUBSET ModelNames]
  <2>1. \A S : \A q \in Seq(S) : \A j \in DOMAIN q : q[j] \in S
    BY SMT
  <2> HIDE DEF models
  <2> QED
    BY <1>1, <1>2, <2>1
<1> QED
  BY <1>2, <1>3, <1>4, <1>5 DEF LastModel, resolve_model_id, Names

LEMMA ExtRegisters ==
  ASSUME ExtInv, Unambiguous, register
  PROVE  ExtInv'
<1>1. ExtTypeOK
  BY DEF ExtInv
<1>2. /\ UNCHANGED <<providers, sessions, offered, call>> /\ startup = "registering"
      /\ position \in DOMAIN providers /\ startup' \in {"registering", "failed"}
      /\ position' \in {position, position + 1}
  BY DEF register
<1>3. ExtTypeOK'
  BY <1>1, <1>2, SMT DEF ExtTypeOK
<1>4. IndexOK' /\ AdaptersOK' /\ CallsOK' /\ SessionsClosed'
  <2>1. IndexOK /\ AdaptersOK /\ CallsOK
    BY DEF ExtInv
  <2>2. CallsOK'
    BY <1>2, <2>1 DEF CallsOK
  <2>3. SessionsClosed'
    BY <1>2 DEF SessionsClosed
  <2> DEFINE config == providers[position]
             added == AllNames(config)
  <2>4. CASE startup' = "failed"
    <3>1. UNCHANGED <<position, adapters, model_index>>
      BY <1>2, <2>4 DEF register
    <3> QED
      BY <1>2, <2>1, <2>2, <2>3, <2>4, <3>1 DEF IndexOK, AdaptersOK
  <2>5. CASE startup' # "failed"
    <3>1. /\ adapters' = [p \in DOMAIN adapters \cup {config.name} |->
                            IF p = config.name THEN position ELSE adapters[p]]
          /\ model_index' =
               [n \in DOMAIN model_index \cup added |->
                  IF n \in added
                  THEN [provider |-> config.name, adapter |-> position,
                        canonical |-> LastModel(config, n)]
                  ELSE model_index[n]]
          /\ position' = position + 1 /\ startup' = "registering"
      BY <2>5 DEF register
    <3>2. AdaptersOK'
      <4>1. \A a \in DOMAIN providers : offered[a] = {}
        BY <1>2, <2>1 DEF AdaptersOK
      <4>2. ASSUME NEW a \in DOMAIN providers, a < position + 1
            PROVE  providers[a].name \in DOMAIN adapters' /\ adapters'[providers[a].name] = a
        <5>1. CASE a = position
          BY <3>1, <5>1
        <5>2. CASE a # position
          <6>1. a < position
            BY <1>1, <1>2, <4>2, <5>2, ConfigurationsAssumption, SMT DEF ExtTypeOK
          <6>2. providers[a].name # config.name
            BY <1>2, <5>2 DEF Unambiguous
          <6> QED
            BY <1>2, <2>1, <3>1, <6>1, <6>2 DEF AdaptersOK
        <5> QED
          BY <5>1, <5>2
      <4> QED
        BY <1>2, <3>1, <4>1, <4>2 DEF AdaptersOK
    <3>3. IndexOK'
      <4> SUFFICES ASSUME NEW n \in DOMAIN model_index'
                   PROVE  LET a == model_index'[n].adapter IN
                          /\ a \in DOMAIN providers /\ n \in AllNames(providers[a])
                          /\ model_index'[n].provider = providers[a].name
                          /\ model_index'[n].canonical = resolve_model_id(providers[a], n)
                          /\ offered[a] # {} => model_index'[n].canonical \in offered[a]
        BY <1>2 DEF IndexOK
      <4>1. CASE n \in added
        <5>1. /\ model_index'[n].adapter = position /\ model_index'[n].provider = config.name
              /\ model_index'[n].canonical = LastModel(config, n)
          BY <3>1, <4>1
        <5>2. LastModel(config, n) = resolve_model_id(config, n)
          BY <1>1, <1>2, <4>1, OneModel DEF ExtTypeOK
        <5>3. offered[position] = {}
          BY <1>2, <2>1 DEF AdaptersOK
        <5> QED
          BY <1>2, <4>1, <5>1, <5>2, <5>3
      <4>2. CASE n \notin added
        BY <2>1, <3>1, <4>2 DEF IndexOK
      <4> QED
        BY <4>1, <4>2
    <3> QED
      BY <2>2, <2>3, <3>2, <3>3
  <2> QED
    BY <2>4, <2>5
<1> QED
  BY <1>3, <1>4 DEF ExtInv

LEMMA ExtStarts ==
  ASSUME ExtInv, Unambiguous, Registered \/ Validated
  PROVE  ExtInv'
<1>1. ExtTypeOK
  BY DEF ExtInv
<1>2. /\ UNCHANGED <<providers, adapters, model_index, sessions, offered, call>>
      /\ position > Len(providers) /\ position' \in Nat \ {0}
      /\ \/ startup = "registering" /\ startup' = "validating"
         \/ startup = "validating" /\ startup' = "serving"
  BY <1>1, SMT DEF Registered, Validated, ExtTypeOK
<1>3. ExtTypeOK'
  BY <1>1, <1>2 DEF ExtTypeOK
<1>4. IndexOK' /\ AdaptersOK' /\ CallsOK' /\ SessionsClosed'
  <2>1. IndexOK /\ AdaptersOK /\ CallsOK
    BY DEF ExtInv
  <2>2. \A a \in DOMAIN providers : a < position
    BY <1>1, <1>2, ConfigurationsAssumption, SMT DEF ExtTypeOK
  <2> QED
    BY <1>2, <2>1, <2>2 DEF IndexOK, AdaptersOK, CallsOK, SessionsClosed
<1> QED
  BY <1>3, <1>4 DEF ExtInv

LEMMA ExtValidates ==
  ASSUME ExtInv, Unambiguous, NEW available \in fetch_available_model_ids, validate_models(available)
  PROVE  ExtInv'
<1> DEFINE a == position
           removed == {n \in DOMAIN model_index :
                         /\ available # {} /\ model_index[n].provider = providers[a].name
                         /\ model_index[n].canonical \notin available}
           asked == adapters[providers[a].name] = a
<1>1. ExtTypeOK
  BY DEF ExtInv
<1>2. /\ UNCHANGED <<providers, startup, adapters, call>> /\ startup = "validating"
      /\ a \in DOMAIN providers /\ position' = position + 1
      /\ asked => /\ sessions' = [sessions EXCEPT ![a] = "open"]
                  /\ offered' = [offered EXCEPT ![a] = available]
                  /\ model_index' = [n \in DOMAIN model_index \ removed |-> model_index[n]]
      /\ ~asked => UNCHANGED <<sessions, offered, model_index>>
  BY DEF validate_models, Opened
<1>3. ExtTypeOK'
  <2>1. /\ sessions' \in [DOMAIN providers -> {"none", "open", "closed"}]
        /\ offered' \in [DOMAIN providers -> SUBSET ModelNames]
    BY <1>1, <1>2 DEF ExtTypeOK, fetch_available_model_ids
  <2>2. position' \in Nat \ {0}
    BY <1>1, <1>2, SMT DEF ExtTypeOK
  <2> QED
    BY <1>1, <1>2, <2>1, <2>2 DEF ExtTypeOK
<1>4. IndexOK' /\ AdaptersOK' /\ CallsOK' /\ SessionsClosed'
  <2>1. IndexOK /\ AdaptersOK
    BY DEF ExtInv
  <2>2. asked
    BY <1>2, <2>1 DEF AdaptersOK
  <2>3. AdaptersOK'
    BY <1>2, <2>1 DEF AdaptersOK
  <2>4. CallsOK' /\ SessionsClosed'
    BY <1>1, <1>2, SMTT(30) DEF ExtTypeOK, CallsOK, SessionsClosed, NoCall
  <2>5. IndexOK'
    <3> SUFFICES ASSUME NEW n \in DOMAIN model_index'
                 PROVE  LET b == model_index'[n].adapter IN
                        /\ b \in DOMAIN providers /\ n \in AllNames(providers[b])
                        /\ model_index'[n].provider = providers[b].name
                        /\ model_index'[n].canonical = resolve_model_id(providers[b], n)
                        /\ offered'[b] # {} => model_index'[n].canonical \in offered'[b]
      BY <1>2 DEF IndexOK
    <3>1. n \in DOMAIN model_index \ removed /\ model_index'[n] = model_index[n]
      BY <1>2, <2>2
    <3> DEFINE b == model_index[n].adapter
    <3>2. /\ b \in DOMAIN providers /\ n \in AllNames(providers[b])
          /\ model_index[n].provider = providers[b].name
          /\ model_index[n].canonical = resolve_model_id(providers[b], n)
          /\ offered[b] # {} => model_index[n].canonical \in offered[b]
      BY <2>1, <3>1 DEF IndexOK
    <3>3. offered'[b] # {} => model_index[n].canonical \in offered'[b]
      <4>1. CASE b = a
        <5>1. offered'[b] = available
          BY <1>1, <1>2, <2>2, <4>1 DEF ExtTypeOK
        <5>2. available # {} => model_index[n].canonical \in available
          BY <3>1, <3>2, <4>1
        <5> QED
          BY <5>1, <5>2
      <4>2. CASE b # a
        <5>1. offered'[b] = offered[b]
          BY <1>1, <1>2, <2>2, <3>2, <4>2 DEF ExtTypeOK
        <5> QED
          BY <3>2, <5>1
      <4> QED
        BY <4>1, <4>2
    <3> QED
      BY <3>1, <3>2, <3>3
  <2> QED
    BY <2>3, <2>4, <2>5
<1> QED
  BY <1>3, <1>4 DEF ExtInv

LEMMA ExtCloses ==
  ASSUME ExtInv, Unambiguous, CloseProviders
  PROVE  ExtInv'
<1>1. ExtTypeOK
  BY DEF ExtInv
<1>2. /\ UNCHANGED <<providers, position, offered, call>>
      /\ startup = "serving" /\ startup' = "closed" /\ DOMAIN model_index' = {}
      /\ sessions' = [a \in DOMAIN sessions |->
                        IF sessions[a] = "open" /\ \E p \in DOMAIN adapters : adapters[p] = a
                        THEN "closed" ELSE sessions[a]]
  BY DEF CloseProviders, Empty
<1>3. ExtTypeOK'
  BY <1>1, <1>2 DEF ExtTypeOK
<1>4. IndexOK' /\ AdaptersOK' /\ CallsOK' /\ SessionsClosed'
  <2>1. AdaptersOK /\ CallsOK
    BY DEF ExtInv
  <2>2. \A a \in DOMAIN sessions : \E p \in DOMAIN adapters : adapters[p] = a
    BY <1>1, <1>2, <2>1 DEF AdaptersOK, ExtTypeOK
  <2>3. SessionsClosed'
    BY <1>1, <1>2, <2>2 DEF SessionsClosed, ExtTypeOK
  <2> QED
    BY <1>2, <2>1, <2>3 DEF IndexOK, AdaptersOK, CallsOK
<1> QED
  BY <1>3, <1>4 DEF ExtInv

LEMMA ExtSends ==
  ASSUME ExtInv, Unambiguous, NEW r \in ExternalRequests, SendRequest(r)
  PROVE  ExtInv'
<1>1. ExtTypeOK /\ IndexOK /\ AdaptersOK /\ CallsOK
  BY DEF ExtInv
<1>2. PICK name, a, c :
        /\ name \in DOMAIN model_index
        /\ a = model_index[name].adapter
        /\ c = [pc |-> "sending", attempt |-> 0, name |-> name, adapter |-> a,
                model |-> resolve_model_id(providers[a], name)]
        /\ call' = [call EXCEPT ![r] = c] /\ sessions' = [sessions EXCEPT ![a] = "open"]
  BY DEF SendRequest, Opened
<1>3. startup = "serving" /\ UNCHANGED <<providers, startup, position, adapters, model_index, offered>>
  BY DEF SendRequest
<1>4. /\ a \in DOMAIN providers /\ name \in AllNames(providers[a])
      /\ offered[a] # {} => resolve_model_id(providers[a], name) \in offered[a]
  BY <1>1, <1>2 DEF IndexOK
<1>5. a \in Nat /\ name \in ModelNames /\ resolve_model_id(providers[a], name) \in ModelNames
  BY <1>1, <1>4, OneModel, ConfigurationsAssumption, SMT DEF ExtTypeOK
<1>6. /\ c \in CallState /\ c.name = name /\ c.adapter = a
      /\ c.model = resolve_model_id(providers[a], name)
  <2>1. \A m \in ModelNames : [pc |-> "sending", attempt |-> 0, name |-> name, adapter |-> a,
                                model |-> m] \in CallState
    BY <1>5, SMTT(30) DEF CallState
  <2>2. c.name = name /\ c.adapter = a /\ c.model = resolve_model_id(providers[a], name)
    BY <1>2
  <2> QED
    BY <1>2, <1>5, <2>1, <2>2
<1>7. /\ call' \in [ExternalRequests -> {NoCall} \cup CallState] /\ call'[r] = c
      /\ \A q \in ExternalRequests : q # r => call'[q] = call[q]
      /\ sessions' \in [DOMAIN providers -> {"none", "open", "closed"}]
  BY <1>1, <1>2, <1>4, <1>6 DEF ExtTypeOK
<1>8. ExtTypeOK'
  BY <1>1, <1>3, <1>7 DEF ExtTypeOK
<1>9. CallsOK'
  <2>1. ASSUME NEW q \in ExternalRequests, call'[q].pc # "new"
        PROVE  /\ call'[q].adapter \in DOMAIN providers
               /\ call'[q].name \in AllNames(providers[call'[q].adapter])
               /\ offered[call'[q].adapter] # {} => call'[q].model \in offered[call'[q].adapter]
    <3>1. CASE q = r
      BY <1>4, <1>6, <1>7, <3>1
    <3>2. CASE q # r
      BY <1>1, <1>7, <2>1, <3>2 DEF CallsOK
    <3> QED
      BY <3>1, <3>2
  <2> QED
    BY <1>3, <2>1 DEF CallsOK
<1>10. IndexOK' /\ AdaptersOK' /\ SessionsClosed'
  BY <1>1, <1>3 DEF IndexOK, AdaptersOK, SessionsClosed
<1> QED
  BY <1>8, <1>9, <1>10 DEF ExtInv

\* An attempt ends: the call keeps its name, adapter and model.
SameCall(c, d) == d \in CallState /\ d.name = c.name /\ d.adapter = c.adapter /\ d.model = c.model

LEMMA NextAttempt == \A c \in CallState : c.attempt \in Int /\ c.attempt + 1 \in Int
<1>1. \A c \in CallState : c.attempt \in Int
  BY DEF CallState
<1>2. \A k \in Int : k + 1 \in Int
  BY SMT
<1> QED
  BY <1>1, <1>2

LEMMA CallMoves ==
  ASSUME NEW c \in CallState, NEW n \in Int,
         NEW p \in {"sending", "hung", "answered", "streaming", "bad gateway", "raised", "broken"}
  PROVE  SameCall(c, [c EXCEPT !.pc = p]) /\ SameCall(c, [c EXCEPT !.attempt = n, !.pc = p])
<1>1. \A b \in CallState : SameCall(b, [b EXCEPT !.pc = p])
  BY DEF CallState, SameCall
<1>2. SameCall(c, [c EXCEPT !.attempt = n])
  BY DEF CallState, SameCall
<1>3. [c EXCEPT !.attempt = n, !.pc = p] = [[c EXCEPT !.attempt = n] EXCEPT !.pc = p]
  OBVIOUS
<1>4. SameCall(c, [[c EXCEPT !.attempt = n] EXCEPT !.pc = p])
  <2>1. PICK b : b = [c EXCEPT !.attempt = n]
    OBVIOUS
  <2>2. SameCall(c, b) /\ SameCall(b, [b EXCEPT !.pc = p])
    BY <1>1, <1>2, <2>1 DEF SameCall
  <2>3. SameCall(c, [b EXCEPT !.pc = p])
    BY <2>2 DEF SameCall
  <2> QED
    BY <2>1, <2>3
<1> QED
  BY <1>1, <1>3, <1>4

LEMMA ExtCalls ==
  ASSUME ExtInv, Unambiguous, NEW r \in ExternalRequests, CallStep(r) \/ StreamOver(r)
  PROVE  ExtInv'
<1>1. ExtTypeOK /\ IndexOK /\ AdaptersOK /\ CallsOK /\ SessionsClosed
  BY DEF ExtInv
<1>2. /\ UNCHANGED <<providers, startup, position, adapters, model_index, sessions, offered>>
      /\ call[r].pc \in {"sending", "streaming"}
  BY DEF CallStep, StreamOver, ProviderAnswers, ProviderFails, ProviderRaises, AttemptHangs
<1>3. call[r] \in CallState /\ startup \in {"serving", "closed"}
  <2>1. NoCall.pc = "new"
    BY DEF NoCall
  <2> QED
    BY <1>1, <1>2, <2>1 DEF ExtTypeOK
<1>4. \E d : SameCall(call[r], d) /\ call' = [call EXCEPT ![r] = d]
  <2> DEFINE PCs == {"sending", "hung", "answered", "streaming", "bad gateway", "raised", "broken"}
  <2>1. CASE ProviderAnswers(r) \/ ProviderRaises(r) \/ AttemptHangs(r) \/ StreamOver(r)
    <3>1. PICK p \in PCs : call' = [call EXCEPT ![r].pc = p]
      BY <2>1 DEF ProviderAnswers, ProviderRaises, AttemptHangs, StreamOver
    <3>2. call' = [call EXCEPT ![r] = [call[r] EXCEPT !.pc = p]]
      BY <3>1
    <3>3. SameCall(call[r], [call[r] EXCEPT !.pc = p])
      BY <1>3, NextAttempt, CallMoves
    <3> QED
      BY <3>2, <3>3
  <2>2. CASE ProviderFails(r)
    <3>1. PICK p \in PCs : call' = [call EXCEPT ![r].attempt = @ + 1, ![r].pc = p]
      BY <2>2 DEF ProviderFails
    <3>2. PICK n : n = call[r].attempt + 1
      OBVIOUS
    <3>3. call' = [call EXCEPT ![r] = [call[r] EXCEPT !.attempt = n, !.pc = p]]
      BY <3>1, <3>2
    <3>4. n \in Int
      BY <1>3, <3>2, NextAttempt
    <3>5. SameCall(call[r], [call[r] EXCEPT !.attempt = n, !.pc = p])
      BY <1>3, <3>4, CallMoves
    <3> QED
      BY <3>3, <3>5
  <2> QED
    BY <2>1, <2>2 DEF CallStep
<1>5. PICK d \in CallState : /\ call' = [call EXCEPT ![r] = d]
                             /\ d.name = call[r].name /\ d.adapter = call[r].adapter
                             /\ d.model = call[r].model
  BY <1>4 DEF SameCall
<1>6. /\ call' \in [ExternalRequests -> {NoCall} \cup CallState] /\ call'[r] = d
      /\ \A q \in ExternalRequests : q # r => call'[q] = call[q]
  BY <1>1, <1>5 DEF ExtTypeOK
<1>7. ExtTypeOK'
  BY <1>1, <1>2, <1>3, <1>6 DEF ExtTypeOK
<1>8. CallsOK'
  <2>1. call[r].pc # "new"
    BY <1>2
  <2> QED
    BY <1>1, <1>2, <1>5, <1>6, <2>1 DEF CallsOK
<1>9. IndexOK' /\ AdaptersOK' /\ SessionsClosed'
  BY <1>1, <1>2 DEF IndexOK, AdaptersOK, SessionsClosed, Unambiguous
<1> QED
  BY <1>7, <1>8, <1>9 DEF ExtInv

LEMMA ExtInvariant == ExtSpec => [](Unambiguous => ExtInv)
<1>1. (Unambiguous => ExtInv) /\ [ExtNext]_extVars => (Unambiguous => ExtInv)'
  <2> SUFFICES ASSUME Unambiguous => ExtInv, [ExtNext]_extVars, Unambiguous' PROVE ExtInv'
    OBVIOUS
  <2>1. UNCHANGED providers
    BY DEF ExtNext, StartupStep, register, Registered, Validated, validate_models, CloseProviders,
           ExtDone, SendRequest, CallStep, ProviderAnswers, ProviderFails, ProviderRaises, AttemptHangs,
           StreamOver, extVars
  <2>2. Unambiguous /\ ExtInv
    BY <2>1 DEF Unambiguous
  <2>3. CASE UNCHANGED extVars
    BY <2>2, <2>3 DEF extVars, ExtInv, ExtTypeOK, IndexOK, AdaptersOK, CallsOK, SessionsClosed
  <2> QED
    BY <2>2, <2>3, ExtRegisters, ExtStarts, ExtValidates, ExtCloses, ExtSends, ExtCalls
       DEF ExtNext, StartupStep, ExtDone
<1> QED
  BY <1>1, ExtInitially, PTL DEF ExtSpec

\* With an unambiguous configuration every external request goes to a provider that has
\* the requested name, under a model it was seen to offer if it could be asked.
THEOREM RoutedOffered == ExtSpec => []RoutedToOffered
<1>1. (Unambiguous => ExtInv) => RoutedToOffered
  BY DEF ExtInv, CallsOK, RoutedToOffered
<1> QED
  BY <1>1, ExtInvariant, PTL

\* After close no session is left open of a provider with a name of its own.
THEOREM CloseClosesSessions == ExtSpec => []SessionsClosed
<1>1. (Unambiguous => ExtInv) => SessionsClosed
  BY DEF ExtInv, SessionsClosed
<1> QED
  BY <1>1, ExtInvariant, PTL

\* Retries are counted from the first attempt, and a request is given up only after
\* all of them.
RetriesCounted ==
  \A r \in ExternalRequests :
    /\ call[r].pc = "sending" => call[r].attempt \in 0 .. max_retries
    /\ call[r].pc = "bad gateway" => call[r].attempt = max_retries + 1

\* An attempt that ends answers the request, gives it up, or uses up a retry; no step
\* of another request gives a retry back.
RetryUsed ==
  \A r \in ExternalRequests : call[r].pc = "sending" =>
    \/ call'[r] = call[r]
    \/ call'[r].pc # "sending"
    \/ call'[r].attempt = call[r].attempt + 1

CallsAre(c) ==
  /\ c = [r \in ExternalRequests |-> c[r]]
  /\ \A r \in ExternalRequests : "pc" \in DOMAIN c[r] /\ "attempt" \in DOMAIN c[r]

LEMMA CallSteps ==
  ASSUME CallsAre(call), NEW r \in ExternalRequests, CallStep(r) \/ StreamOver(r)
  PROVE  /\ CallsAre(call') /\ \A q \in ExternalRequests : q # r => call'[q] = call[q]
         /\ call[r].pc \in {"sending", "streaming"}
         /\ \/ /\ ProviderFails(r) /\ call'[r].attempt = call[r].attempt + 1
               /\ call'[r].pc = IF call[r].attempt + 1 <= max_retries THEN "sending"
                                ELSE "bad gateway"
            \/ call'[r].pc \notin {"sending", "bad gateway"}
<1>1. CASE ProviderFails(r)
  <2> DEFINE n == call[r].attempt + 1
             p == IF n <= max_retries THEN "sending" ELSE "bad gateway"
  <2>1. /\ call' = [call EXCEPT ![r] = [call[r] EXCEPT !.attempt = n, !.pc = p]]
        /\ call[r].pc = "sending"
    BY <1>1 DEF ProviderFails
  <2> HIDE DEF n, p
  <2>2. call'[r] = [call[r] EXCEPT !.attempt = n, !.pc = p]
    BY <2>1 DEF CallsAre
  <2>3. call'[r].attempt = n /\ call'[r].pc = p /\ DOMAIN call'[r] = DOMAIN call[r]
    BY <2>2 DEF CallsAre
  <2>4. \A q \in ExternalRequests : q # r => call'[q] = call[q]
    BY <2>1 DEF CallsAre
  <2>5. CallsAre(call')
    BY <2>1, <2>3, <2>4 DEF CallsAre
  <2> QED
    BY <1>1, <2>1, <2>3, <2>4, <2>5 DEF n, p
<1>2. CASE ProviderAnswers(r) \/ ProviderRaises(r) \/ AttemptHangs(r) \/ StreamOver(r)
  <2>1. PICK p \in {"hung", "answered", "streaming", "raised", "broken"} :
          call' = [call EXCEPT ![r] = [call[r] EXCEPT !.pc = p]]
    BY <1>2 DEF ProviderAnswers, ProviderRaises, AttemptHangs, StreamOver
  <2>2. call'[r] = [call[r] EXCEPT !.pc = p]
    BY <2>1 DEF CallsAre
  <2>3. call'[r].pc = p /\ DOMAIN call'[r] = DOMAIN call[r]
    BY <2>2 DEF CallsAre
  <2>4. \A q \in ExternalRequests : q # r => call'[q] = call[q]
    BY <2>1 DEF CallsAre
  <2>5. CallsAre(call')
    BY <2>1, <2>3, <2>4 DEF CallsAre
  <2>6. call[r].pc \in {"sending", "streaming"}
    BY <1>2 DEF ProviderAnswers, ProviderRaises, AttemptHangs, StreamOver
  <2> QED
    BY <2>3, <2>4, <2>5, <2>6
<1> QED
  BY <1>1, <1>2 DEF CallStep

LEMMA CallSent ==
  ASSUME CallsAre(call), NEW r \in ExternalRequests, SendRequest(r)
  PROVE  /\ CallsAre(call') /\ \A q \in ExternalRequests : q # r => call'[q] = call[q]
         /\ call[r].pc = "new" /\ call'[r].pc = "sending" /\ call'[r].attempt = 0
<1>1. PICK name \in DOMAIN model_index :
        call' = [call EXCEPT ![r] =
                   [pc |-> "sending", attempt |-> 0, name |-> name,
                    adapter |-> model_index[name].adapter,
                    model |-> resolve_model_id(providers[model_index[name].adapter], name)]]
  BY DEF SendRequest
<1>2. PICK d : /\ call' = [call EXCEPT ![r] = d] /\ d.pc = "sending" /\ d.attempt = 0
               /\ "pc" \in DOMAIN d /\ "attempt" \in DOMAIN d
  <2> DEFINE e(a, m) == [pc |-> "sending", attempt |-> 0, name |-> name, adapter |-> a,
                         model |-> m]
  <2>1. \A a, m : /\ e(a, m).pc = "sending" /\ e(a, m).attempt = 0
                  /\ "pc" \in DOMAIN e(a, m) /\ "attempt" \in DOMAIN e(a, m)
    BY SMT
  <2>2. \E a, m : call' = [call EXCEPT ![r] = e(a, m)]
    BY <1>1
  <2> HIDE DEF e
  <2> QED
    BY <2>1, <2>2
<1>3. call'[r] = d /\ \A q \in ExternalRequests : q # r => call'[q] = call[q]
  BY <1>2 DEF CallsAre
<1>4. CallsAre(call')
  BY <1>2, <1>3 DEF CallsAre
<1>5. call[r].pc = "new"
  <2>1. call[r] = NoCall
    BY DEF SendRequest
  <2>2. NoCall.pc = "new"
    BY SMT DEF NoCall
  <2> QED
    BY <2>1, <2>2
<1> QED
  BY <1>2, <1>3, <1>4, <1>5

LEMMA CallsKeptOtherwise ==
  ASSUME [ExtNext]_extVars,
         ~ \E r \in ExternalRequests : SendRequest(r) \/ CallStep(r) \/ StreamOver(r)
  PROVE  UNCHANGED call
BY DEF ExtNext, StartupStep, register, Registered, Validated, validate_models, CloseProviders,
       ExtDone, extVars

LEMMA CallsCounted ==
  ASSUME CallsAre(call), RetriesCounted, [ExtNext]_extVars
  PROVE  CallsAre(call') /\ RetriesCounted'
<1>1. CASE ~ \E r \in ExternalRequests : SendRequest(r) \/ CallStep(r) \/ StreamOver(r)
  BY <1>1, CallsKeptOtherwise DEF RetriesCounted
<1>2. ASSUME NEW r \in ExternalRequests, SendRequest(r)
      PROVE  CallsAre(call') /\ RetriesCounted'
  <2>1. 0 \in 0 .. max_retries
    BY RetriesAssumption, SMT
  <2> QED
    BY <1>2, <2>1, CallSent DEF RetriesCounted
<1>3. ASSUME NEW r \in ExternalRequests, CallStep(r) \/ StreamOver(r)
      PROVE  CallsAre(call') /\ RetriesCounted'
  <2>1. CASE call'[r].pc \notin {"sending", "bad gateway"}
    BY <1>3, <2>1, CallSteps DEF RetriesCounted
  <2>2. CASE call'[r].pc \in {"sending", "bad gateway"}
    <3>1. /\ ProviderFails(r) /\ call'[r].attempt = call[r].attempt + 1
          /\ call'[r].pc = IF call[r].attempt + 1 <= max_retries THEN "sending" ELSE "bad gateway"
      BY <1>3, <2>2, CallSteps
    <3>2. call[r].attempt \in 0 .. max_retries
      BY <3>1 DEF ProviderFails, RetriesCounted
    <3>3. /\ call'[r].pc = "sending" => call'[r].attempt \in 0 .. max_retries
          /\ call'[r].pc = "bad gateway" => call'[r].attempt = max_retries + 1
      <4>1. \A n \in 0 .. max_retries : IF n + 1 <= max_retries THEN n + 1 \in 0 .. max_retries
                                       ELSE n + 1 = max_retries + 1
        BY RetriesAssumption, SMT
      <4>2. "sending" # "bad gateway"
        OBVIOUS
      <4> QED
        BY <3>1, <3>2, <4>1, <4>2
    <3> QED
      BY <1>3, <3>3, CallSteps DEF RetriesCounted
  <2> QED
    BY <2>1, <2>2
<1> QED
  BY <1>1, <1>2, <1>3

LEMMA AlwaysCounted == ExtSpec => [](CallsAre(call) /\ RetriesCounted)
<1>1. ExtInit => CallsAre(call) /\ RetriesCounted
  <2>1. "pc" \in DOMAIN NoCall /\ "attempt" \in DOMAIN NoCall /\ NoCall.pc = "new"
    BY SMT DEF NoCall
  <2> QED
    BY <2>1 DEF ExtInit, CallsAre, RetriesCounted
<1>2. CallsAre(call) /\ RetriesCounted /\ [ExtNext]_extVars
        => (CallsAre(call) /\ RetriesCounted)'
  BY CallsCounted
<1> QED
  BY <1>1, <1>2, PTL DEF ExtSpec

\* send_request gives an external request up only after max_retries + 1 attempts, and
\* never makes more, whatever the configuration.
THEOREM RetriesExact == ExtSpec => []RetriesCounted
BY AlwaysCounted, PTL

\* Every attempt of send_request that ends settles the request or uses up one of its
\* retries, unless it never ends.  With RetriesExact this is the measure under which
\* ExternalAnswered holds.
THEOREM RetriesRunOut == ExtSpec => [][RetryUsed]_extVars
<1>1. CallsAre(call) /\ [ExtNext]_extVars => [RetryUsed]_extVars
  <2> SUFFICES ASSUME CallsAre(call), [ExtNext]_extVars PROVE RetryUsed
    OBVIOUS
  <2>1. CASE ~ \E r \in ExternalRequests : SendRequest(r) \/ CallStep(r) \/ StreamOver(r)
    BY <2>1, CallsKeptOtherwise DEF RetryUsed
  <2>2. ASSUME NEW r \in ExternalRequests, SendRequest(r) PROVE RetryUsed
    BY <2>2, CallSent DEF RetryUsed
  <2>3. ASSUME NEW r \in ExternalRequests, CallStep(r) \/ StreamOver(r) PROVE RetryUsed
    BY <2>3, CallSteps DEF RetryUsed
  <2> QED
    BY <2>1, <2>2, <2>3
<1> QED
  BY <1>1, AlwaysCounted, PTL DEF ExtSpec

-----------------------------------------------------------------------------
(* Uploads *)

\* The uploads whose record should be live.
Held == InFlight \cup {s \in Uploads : ending[s] = "never iterated"}

UploadTypeOK ==
  /\ now \in Time /\ next_handle \in Nat
  /\ active_requests \in [Handles -> ActiveRequest \cup {NoRequest}]
  /\ pc \in [Uploads -> {"idle", "parsed", "routing", "posting", "body", "returned", "reading",
                         "writing", "done"}]
  /\ handle \in [Uploads -> Int]
  /\ ending \in [Uploads -> {"none", "refused", "failed", "cancelled", "complete", "undecodable",
                             "never iterated"}]

\* Every upload has a record of its own.
HeldApart ==
  /\ \A r \in Held : handle[r] < next_handle
  /\ \A r, s \in Held : handle[r] = handle[s] => r = s
  /\ \A r \in Uploads : pc[r] # "done" => ending[r] = "none"

UploadInv == UploadTypeOK /\ HeldApart /\ LeaksOnlyUniterated

LEMMA UploadInitially == UploadInit => UploadInv
<1> SUFFICES ASSUME UploadInit PROVE UploadInv
  OBVIOUS
<1>1. Held = {} /\ Active = {}
  BY DEF UploadInit, StatsInit, Held, InFlight, Active
<1>2. UploadTypeOK
  BY StatsAssumption, SMTT(30) DEF UploadInit, StatsInit, UploadTypeOK, Time, NoHandle
<1>3. HeldApart
  BY <1>1 DEF HeldApart, UploadInit
<1>4. LeaksOnlyUniterated
  BY <1>1 DEF Held, LeaksOnlyUniterated
<1> QED
  BY <1>2, <1>3, <1>4 DEF UploadInv

\* The hooks, as far as the live records are concerned.
LedgerTyped ==
  now' \in Time /\ next_handle' \in Nat /\ active_requests' \in [Handles -> ActiveRequest \cup {NoRequest}]

LEMMA HookNew ==
  ASSUME UploadTypeOK, NEW u \in Engines, on_new_request(u)
  PROVE  /\ LedgerTyped /\ next_handle' = next_handle + 1
         /\ next_handle \in Handles /\ Active' = Active \cup {next_handle}
<1> DEFINE new == [stage |-> "prefill", engine_url |-> u, start_time |-> now]
<1>1. /\ next_handle < MaxHandles /\ next_handle' = next_handle + 1 /\ UNCHANGED now
      /\ active_requests' = [active_requests EXCEPT ![next_handle] = new]
  BY DEF on_new_request
<1>2. new \in ActiveRequest
  BY DEF UploadTypeOK, ActiveRequest
<1>3. new # NoRequest
  BY <1>2, StatsAssumption
<1> HIDE DEF new
<1>4. next_handle \in Handles
  <2>1. next_handle \in Nat /\ MaxHandles \in Nat
    BY StatsAssumption DEF UploadTypeOK
  <2> QED
    BY <1>1, <2>1, SMT DEF Handles
<1>5. /\ active_requests' \in [Handles -> ActiveRequest \cup {NoRequest}]
      /\ active_requests'[next_handle] = new
      /\ \A h \in Handles : h # next_handle => active_requests'[h] = active_requests[h]
  BY <1>1, <1>2, <1>4 DEF UploadTypeOK
<1>6. Active' = Active \cup {next_handle}
  BY <1>3, <1>4, <1>5 DEF Active
<1>7. now \in Time /\ next_handle \in Nat
  BY DEF UploadTypeOK
<1>8. next_handle + 1 \in Nat
  BY <1>7, SMT
<1> QED
  BY <1>1, <1>4, <1>5, <1>6, <1>7, <1>8 DEF LedgerTyped

LEMMA HookResponse ==
  ASSUME UploadTypeOK, NEW h \in Handles, on_request_response(h)
  PROVE  LedgerTyped /\ UNCHANGED next_handle /\ Active' = Active
<1>1. UNCHANGED <<now, next_handle>>
  BY DEF on_request_response, statsVars
<1>2. CASE UNCHANGED active_requests
  BY <1>1, <1>2 DEF LedgerTyped, UploadTypeOK, Active
<1>3. CASE ~UNCHANGED active_requests
  <2>1. /\ active_requests[h] # NoRequest
        /\ active_requests' = [active_requests EXCEPT ![h].stage = "decoding"]
    BY <1>3 DEF on_request_response, statsVars
  <2>2. active_requests[h] \in ActiveRequest
    BY <2>1 DEF UploadTypeOK
  <2>3. \A x \in ActiveRequest : [x EXCEPT !.stage = "decoding"] \in ActiveRequest
    BY DEF ActiveRequest
  <2>4. PICK y : y = [active_requests[h] EXCEPT !.stage = "decoding"]
    OBVIOUS
  <2>5. y \in ActiveRequest /\ y # NoRequest
    BY <2>2, <2>3, <2>4, StatsAssumption
  <2>6. active_requests' = [active_requests EXCEPT ![h] = y]
    BY <2>1, <2>4
  <2>7. /\ active_requests' \in [Handles -> ActiveRequest \cup {NoRequest}]
        /\ active_requests'[h] = y
        /\ \A g \in Handles : g # h => active_requests'[g] = active_requests[g]
    BY <2>5, <2>6 DEF UploadTypeOK
  <2>8. Active' = Active
    BY <2>1, <2>5, <2>7 DEF Active
  <2> QED
    BY <1>1, <2>7, <2>8 DEF LedgerTyped, UploadTypeOK
<1> QED
  BY <1>2, <1>3

LEMMA HookRetire ==
  ASSUME UploadTypeOK, NEW h \in Handles, NEW o, finalize_request(h, o)
  PROVE  LedgerTyped /\ UNCHANGED next_handle /\ Active' = Active \ {h}
<1>1. UNCHANGED <<now, next_handle>>
  BY DEF finalize_request, statsVars
<1>2. CASE active_requests[h] = NoRequest
  BY <1>2 DEF finalize_request, statsVars, LedgerTyped, UploadTypeOK, Active
<1>3. CASE active_requests[h] # NoRequest
  <2>1. active_requests' = [active_requests EXCEPT ![h] = NoRequest]
    BY <1>3 DEF finalize_request
  <2>2. /\ active_requests' \in [Handles -> ActiveRequest \cup {NoRequest}]
        /\ \A g \in Handles : active_requests'[g] = IF g = h THEN NoRequest ELSE active_requests[g]
    BY <2>1 DEF UploadTypeOK
  <2> QED
    BY <1>1, <2>2 DEF LedgerTyped, UploadTypeOK, Active
<1> QED
  BY <1>2, <1>3

LEMMA HookRead ==
  ASSUME UploadTypeOK, get_request_stats \/ UNCHANGED statsVars
  PROVE  LedgerTyped /\ UNCHANGED next_handle /\ Active' = Active
  BY DEF get_request_stats, statsVars, LedgerTyped, UploadTypeOK, Active

\* A step of an upload keeps its record, begins one or retires it.
Keeps(r) ==
  /\ r \in Held' <=> r \in Held
  /\ handle'[r] = handle[r]
  /\ LedgerTyped /\ UNCHANGED next_handle /\ Active' = Active

Begins(r) ==
  /\ r \notin Held /\ r \in Held' /\ handle'[r] = next_handle
  /\ \E u \in Engines : on_new_request(u)

Retires(r) ==
  /\ r \in Held /\ r \notin Held' /\ handle'[r] = handle[r]
  /\ \E o : finalize_request(handle[r], o)

UploadMoves(r) ==
  /\ pc' \in [Uploads -> {"idle", "parsed", "routing", "posting", "body", "returned", "reading",
                          "writing", "done"}]
  /\ handle' \in [Uploads -> Int]
  /\ ending' \in [Uploads -> {"none", "refused", "failed", "cancelled", "complete", "undecodable",
                              "never iterated"}]
  /\ pc'[r] # "done" => ending'[r] = "none"
  /\ \A s \in Uploads : s # r => pc'[s] = pc[s] /\ handle'[s] = handle[s] /\ ending'[s] = ending[s]

LEMMA HeldHandles ==
  ASSUME UploadInv, NEW r \in Held
  PROVE  handle[r] \in Active /\ handle[r] \in Handles
  BY DEF UploadInv, LeaksOnlyUniterated, Held, Active

LEMMA UploadKinds ==
  ASSUME UploadInv, NEW r \in Uploads, UploadStep(r)
  PROVE  UploadMoves(r) /\ (Keeps(r) \/ Begins(r) \/ Retires(r))
<1>1. UploadTypeOK /\ HeldApart
  BY DEF UploadInv
<1>2. r \in Held <=> \/ pc[r] \in {"posting", "body", "returned", "reading", "writing"}
                     \/ ending[r] = "never iterated"
  BY DEF Held, InFlight
<1>3. r \in Held' <=> \/ pc'[r] \in {"posting", "body", "returned", "reading", "writing"}
                      \/ ending'[r] = "never iterated"
  BY DEF Held, InFlight
<1>4. pc[r] # "done" => ending[r] = "none"
  BY <1>1 DEF HeldApart
<1>5. next_handle \in Int
  <2>1. next_handle \in Nat
    BY <1>1 DEF UploadTypeOK
  <2> QED
    BY <2>1, SMT
<1>6. ASSUME NEW s, NEW how \in {"refused", "failed", "cancelled", "complete", "undecodable",
                                 "never iterated"},
             Finish(r, s, how)
      PROVE  /\ UploadMoves(r) /\ handle'[r] = handle[r]
             /\ r \in Held' <=> how = "never iterated"
  <2>1. /\ pc' = [pc EXCEPT ![r] = "done"] /\ ending' = [ending EXCEPT ![r] = how]
        /\ UNCHANGED handle
    BY <1>6 DEF Finish, Goto
  <2>2. pc'[r] = "done" /\ ending'[r] = how
    BY <1>1, <2>1 DEF UploadTypeOK
  <2> QED
    BY <1>1, <1>3, <2>1, <2>2 DEF UploadTypeOK, UploadMoves
<1>7. ASSUME NEW s \in {"parsed", "routing", "returned", "body", "reading", "writing"}, Goto(r, s),
             pc[r] # "done", UNCHANGED <<handle, ending>>
      PROVE  /\ UploadMoves(r) /\ handle'[r] = handle[r]
             /\ r \in Held' <=> s \in {"body", "returned", "reading", "writing"}
  <2>1. pc' = [pc EXCEPT ![r] = s] /\ pc'[r] = s
    BY <1>1, <1>7 DEF Goto, UploadTypeOK
  <2> QED
    BY <1>1, <1>3, <1>4, <1>7, <2>1 DEF UploadTypeOK, UploadMoves
<1>8. CASE FormRefused(r) \/ Refuse(r) \/ RouterRaises(r)
  <2>1. /\ \E s : Finish(r, s, "refused")
        /\ UNCHANGED statsVars /\ pc[r] \in {"idle", "parsed", "routing"}
    BY <1>8 DEF FormRefused, Refuse, RouterRaises
  <2> QED
    BY <1>1, <1>2, <1>4, <1>6, <2>1, HookRead DEF Keeps
<1>9. CASE NeverIterated(r)
  <2>1. Finish(r, "cancelled", "never iterated") /\ UNCHANGED statsVars /\ pc[r] = "returned"
    BY <1>9 DEF NeverIterated
  <2> QED
    BY <1>1, <1>2, <1>6, <2>1, HookRead DEF Keeps
<1>10. CASE ParseForm(r) \/ Route(r)
  <2>1. /\ Goto(r, "parsed") \/ Goto(r, "routing")
        /\ pc[r] \in {"idle", "parsed"} /\ UNCHANGED <<handle, ending>>
        /\ UNCHANGED statsVars \/ get_request_stats
    BY <1>10 DEF ParseForm, Route
  <2> QED
    BY <1>1, <1>2, <1>4, <1>7, <2>1, HookRead DEF Keeps
<1>11. CASE Post(r)
  <2>1. /\ pc' = [pc EXCEPT ![r] = "posting"] /\ handle' = [handle EXCEPT ![r] = next_handle]
        /\ UNCHANGED ending /\ pc[r] = "routing" /\ \E u \in Engines : on_new_request(u)
    BY <1>11 DEF Post, Goto
  <2>2. pc'[r] = "posting" /\ handle'[r] = next_handle /\ UploadMoves(r)
    BY <1>1, <1>4, <1>5, <2>1 DEF UploadTypeOK, UploadMoves
  <2> QED
    BY <1>2, <1>3, <1>4, <2>1, <2>2 DEF Begins
<1>12. CASE Headers(r) \/ Chunk(r)
  <2>1. /\ \E s \in {"returned", "body", "writing"} : Goto(r, s)
        /\ pc[r] \in {"posting", "reading"} /\ UNCHANGED <<handle, ending>>
        /\ UNCHANGED statsVars \/ on_request_response(handle[r])
    BY <1>12 DEF Headers, Chunk
  <2>2. handle[r] \in Handles
    BY <1>2, <2>1, HeldHandles
  <2> QED
    BY <1>1, <1>2, <1>7, <2>1, <2>2, HookRead, HookResponse DEF Keeps
<1>13. CASE Iterate(r) \/ ClientTakes(r)
  <2>1. /\ Goto(r, "reading") /\ UNCHANGED <<handle, ending>> /\ UNCHANGED statsVars
        /\ pc[r] \in {"returned", "writing"}
    BY <1>13 DEF Iterate, ClientTakes
  <2> QED
    BY <1>1, <1>2, <1>7, <2>1, HookRead DEF Keeps
<1>14. CASE \/ PostFails(r) \/ PostCancelled(r) \/ BodyRead(r) \/ BodyUndecodable(r) \/ BodyFails(r)
            \/ BodyCancelled(r) \/ StreamEnds(r) \/ StreamFails(r) \/ Disconnect(r)
  <2>1. /\ \E s : \E how \in {"failed", "cancelled", "complete", "undecodable"} : Finish(r, s, how)
        /\ pc[r] \in {"posting", "body", "reading", "writing"}
        /\ \E o : finalize_request(handle[r], o)
    BY <1>14 DEF PostFails, PostCancelled, BodyRead, BodyUndecodable, BodyFails, BodyCancelled,
                 StreamEnds, StreamFails, Disconnect, on_request_fail, on_request_abort,
                 on_request_complete
  <2> QED
    BY <1>2, <1>6, <2>1 DEF Retires
<1> QED
  BY <1>8, <1>9, <1>10, <1>11, <1>12, <1>13, <1>14 DEF UploadStep

LEMMA UploadInvariant == UploadSpec => []UploadInv
<1>1. UploadInv /\ [UploadNext]_allVars => UploadInv'
  <2> SUFFICES ASSUME UploadInv, [UploadNext]_allVars PROVE UploadInv'
    OBVIOUS
  <2>1. ASSUME NEW r \in Uploads, UploadStep(r) PROVE UploadInv'
    <3>1. UploadTypeOK /\ HeldApart /\ Active = {handle[s] : s \in Held}
      BY DEF UploadInv, LeaksOnlyUniterated, Held
    <3>2. UploadMoves(r) /\ (Keeps(r) \/ Begins(r) \/ Retires(r))
      BY <2>1, UploadKinds
    <3>3. /\ \A s \in Uploads : s # r => /\ s \in Held' <=> s \in Held
                                         /\ handle'[s] = handle[s]
          /\ \A s \in Uploads : pc'[s] # "done" => ending'[s] = "none"
          /\ Held \subseteq Uploads /\ Held' \subseteq Uploads
      BY <3>1, <3>2 DEF UploadMoves, Held, InFlight, HeldApart
    <3>4. next_handle \in Nat /\ \A s \in Held : handle[s] \in Int /\ handle[s] < next_handle
      BY <3>1, <3>3 DEF UploadTypeOK, HeldApart
    <3>5. ASSUME LedgerTyped, HeldApart', Active' = {handle'[s] : s \in Held'} PROVE UploadInv'
      BY <3>2, <3>5 DEF UploadInv, UploadTypeOK, LedgerTyped, UploadMoves, LeaksOnlyUniterated, Held
    <3>6. CASE Keeps(r)
      <4>1. Held' = Held /\ \A s \in Held : handle'[s] = handle[s]
        BY <3>3, <3>6, SMTT(30) DEF Keeps
      <4>2. HeldApart'
        BY <3>1, <3>3, <3>6, <4>1, SMTT(30) DEF HeldApart, Keeps
      <4>3. Active' = {handle'[s] : s \in Held'}
        BY <3>1, <3>6, <4>1 DEF Keeps
      <4> QED
        BY <3>5, <3>6, <4>2, <4>3 DEF Keeps
    <3>7. CASE Begins(r)
      <4>1. /\ LedgerTyped /\ next_handle' = next_handle + 1 /\ Active' = Active \cup {next_handle}
        BY <3>1, <3>7, HookNew DEF Begins
      <4>2. /\ Held' = Held \cup {r} /\ r \notin Held /\ handle'[r] = next_handle
            /\ \A s \in Held : handle'[s] = handle[s]
        BY <3>3, <3>7 DEF Begins
      <4>3. \A s \in Held' : handle'[s] < next_handle'
        BY <3>4, <4>1, <4>2, SMTT(30)
      <4>4. \A s, t \in Held' : handle'[s] = handle'[t] => s = t
        BY <3>1, <3>4, <4>2, SMTT(30) DEF HeldApart
      <4>5. Active' = {handle'[s] : s \in Held'}
        BY <3>1, <4>1, <4>2
      <4> QED
        BY <3>3, <3>5, <4>1, <4>3, <4>4, <4>5 DEF HeldApart
    <3>8. CASE Retires(r)
      <4>1. handle[r] \in Handles
        BY <3>8, HeldHandles DEF Retires
      <4>2. LedgerTyped /\ UNCHANGED next_handle /\ Active' = Active \ {handle[r]}
        BY <3>1, <3>8, <4>1, HookRetire DEF Retires
      <4>3. Held' = Held \ {r} /\ r \in Held /\ \A s \in Held' : handle'[s] = handle[s]
        BY <3>3, <3>8 DEF Retires
      <4>4. HeldApart'
        BY <3>1, <3>3, <4>2, <4>3, SMTT(30) DEF HeldApart
      <4>5. \A s \in Held : handle[s] = handle[r] => s = r
        BY <3>1, <4>3 DEF HeldApart
      <4>6. Active' = {handle'[s] : s \in Held'}
        BY <3>1, <4>2, <4>3, <4>5
      <4> QED
        BY <3>5, <4>2, <4>4, <4>6
    <3> QED
      BY <3>2, <3>6, <3>7, <3>8
  <2>2. CASE UNCHANGED allVars
    <3>1. UNCHANGED <<now, next_handle, active_requests, pc, handle, ending>>
      BY <2>2 DEF allVars, statsVars, uploadVars
    <3>2. Held' = Held /\ Active' = Active
      BY <3>1 DEF Held, InFlight, Active
    <3>3. UploadTypeOK'
      BY <3>1 DEF UploadInv, UploadTypeOK
    <3>4. HeldApart'
      BY <3>1, <3>2 DEF UploadInv, HeldApart
    <3>5. LeaksOnlyUniterated'
      BY <3>1, <3>2 DEF UploadInv, LeaksOnlyUniterated, Held
    <3> QED
      BY <3>3, <3>4, <3>5 DEF UploadInv
  <2> QED
    BY <2>1, <2>2 DEF UploadNext, AllDone
<1> QED
  BY <1>1, UploadInitially, PTL DEF UploadSpec

\* Every way out of proxy_multipart_request retires the record of its attempt, except a
\* stream that the server drops before it has iterated it.
THEOREM UploadsLeakOnlyUniterated == UploadSpec => []LeaksOnlyUniterated
<1>1. UploadInv => LeaksOnlyUniterated
  BY DEF UploadInv
<1> QED
  BY <1>1, UploadInvariant, PTL

LEMMA UploadHooks ==
  ASSUME UploadInv, NEW r \in Uploads, UploadStep(r)
  PROVE  [StatsNext]_statsVars
<1>1. CASE \/ FormRefused(r) \/ ParseForm(r) \/ Refuse(r) \/ RouterRaises(r) \/ NeverIterated(r)
           \/ Iterate(r) \/ ClientTakes(r)
  BY <1>1 DEF FormRefused, ParseForm, Refuse, RouterRaises, NeverIterated, Iterate, ClientTakes
<1>2. CASE Route(r) \/ Post(r)
  BY <1>2 DEF Route, Post, StatsNext
<1>3. ASSUME pc[r] \in {"posting", "body", "reading", "writing"}
      PROVE  handle[r] \in Handles
  <2>1. r \in Held
    BY <1>3 DEF Held, InFlight
  <2> QED
    BY <2>1, HeldHandles
<1>4. CASE Headers(r) \/ Chunk(r)
  <2>1. /\ pc[r] \in {"posting", "reading"}
        /\ UNCHANGED statsVars \/ on_request_response(handle[r])
    BY <1>4 DEF Headers, Chunk
  <2> QED
    BY <1>3, <2>1 DEF StatsNext
<1>5. CASE \/ PostFails(r) \/ PostCancelled(r) \/ BodyRead(r) \/ BodyUndecodable(r) \/ BodyFails(r)
           \/ BodyCancelled(r) \/ StreamEnds(r) \/ StreamFails(r) \/ Disconnect(r)
  <2>1. /\ pc[r] \in {"posting", "body", "reading", "writing"}
        /\ \/ on_request_complete(handle[r]) \/ on_request_fail(handle[r])
           \/ on_request_abort(handle[r])
    BY <1>5 DEF PostFails, PostCancelled, BodyRead, BodyUndecodable, BodyFails, BodyCancelled,
                StreamEnds, StreamFails, Disconnect
  <2> QED
    BY <1>3, <2>1 DEF StatsNext
<1> QED
  BY <1>1, <1>2, <1>4, <1>5 DEF UploadStep

\* Uploads call the monitor only in ways it is specified for, on handles it has given
\* out, a stream that is never iterated included: all that is proved of the monitor
\* holds under their traffic too.
THEOREM UploadsDriveMonitor == UploadSpec => StatsSpec
<1>1. UploadInv /\ [UploadNext]_allVars => [StatsNext]_statsVars
  BY UploadHooks DEF UploadNext, AllDone, allVars
<1>2. UploadInit => StatsInit
  BY DEF UploadInit
<1> QED
  BY <1>1, <1>2, UploadInvariant, PTL DEF UploadSpec, StatsSpec

=============================================================================
