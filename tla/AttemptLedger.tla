--------------------------- MODULE AttemptLedger ---------------------------
(***************************************************************************)
(* What the request statistics promise to their readers: an attempt goes   *)
(* from new to prefill, possibly to decoding, and is retired once, as      *)
(* completed or dropped; and at every moment the three figures kept for an *)
(* engine are the number of its attempts in that condition.                *)
(***************************************************************************)
EXTENDS FiniteSets, Integers

CONSTANTS Engines, Attempts

VARIABLES stage,        \* stage of each attempt
          engine,       \* the engine it was sent to
          prefill, decoding, finished

Count(s) == [e \in Engines |-> Cardinality({a \in Attempts : stage[a] = s /\ engine[a] = e})]

\* The figures are exact.
Exact ==
  /\ prefill = Count("prefill")
  /\ decoding = Count("decoding")
  /\ finished = Count("completed")

Init ==
  /\ \A a \in Attempts : stage[a] = "new"
  /\ Exact

Move(a, s) == stage' = [stage EXCEPT ![a] = s]

Begin(a) ==
  /\ stage[a] = "new"
  /\ Move(a, "prefill")
  /\ \E e \in Engines : engine' = [engine EXCEPT ![a] = e]

FirstToken(a) ==
  /\ stage[a] = "prefill"
  /\ Move(a, "decoding")
  /\ UNCHANGED engine

Retire(a) ==
  /\ stage[a] \in {"prefill", "decoding"}
  /\ Move(a, "completed") \/ Move(a, "dropped")
  /\ UNCHANGED engine

Next == \E a \in Attempts : (Begin(a) \/ FirstToken(a) \/ Retire(a)) /\ Exact'

Spec == Init /\ [][Next]_<<stage, engine, prefill, decoding, finished>>
=============================================================================
