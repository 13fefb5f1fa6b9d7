---------------------------- MODULE RoutingLogics ---------------------------
(***************************************************************************)
(* The routing logics of src/vllm_router/routers/routing_logic.py that     *)
(* decide in one step of the event loop: RoundRobinRouter, SessionRouter,  *)
(* PriorityRouter, DisaggregatedPrefillRouter, the selection of            *)
(* DisaggregatedPrefillOrchestratedRouter, and PrefixAwareRouter from      *)
(* PrefixRouter.  A process runs one of them (initialize_routing_logic).   *)
(* Urls are numbers, so that sorting them is their order.                  *)
(***************************************************************************)
EXTENDS PrefixRouter, Integers, FiniteSets

CONSTANTS
  Sessions,                     \* session ids
  NoSession,
  PrefillLabelled,              \* endpoints whose label is in prefill_model_labels
  DecodeLabelled,               \* endpoints whose label is in decode_model_labels
  priority_default,
  priority_threshold,
  MaxPriority,                  \* bound: the priorities told apart
  _MAX_CACHE_SIZE,
  MaxRouted                     \* bound: requests routed by these logics

ASSUME LogicsAssumption ==
  /\ Endpoints \subseteq Nat /\ IsFiniteSet(Endpoints)
  /\ PrefillLabelled \subseteq Endpoints /\ DecodeLabelled \subseteq Endpoints
  /\ priority_default \in Nat /\ priority_threshold \in Nat /\ MaxPriority \in Nat
  /\ _MAX_CACHE_SIZE \in Nat \ {0} /\ MaxRouted \in Nat
  /\ NoSession \notin Sessions

VARIABLES
  logic,                        \* the routing logic of the process
  routed,                       \* requests routed so far
  next_index,                   \* set of urls -> next position, a partial function
  sorted_cache,                 \* the sets whose sorted form is cached
  hash_ring,                    \* the nodes of the ring
  preference,                   \* session -> order in which the ring meets the nodes
  prefill_idx, decode_idx,      \* the counters of the orchestrated router
  decision,                     \* the last decision
  sent,                         \* history: set -> endpoint -> rotated requests
  restarts,                     \* history: set -> rotations lost to a cleared cache
  pinned,                       \* history: session -> its previous decision
  prefilled, decoded            \* history: who served since the role's set last changed

balanceVars == <<next_index, sorted_cache, sent, restarts>>
sessionVars == <<hash_ring, pinned>>
roleVars == <<prefill_idx, decode_idx, prefilled, decoded>>
logicVars == <<logic, routed, balanceVars, sessionVars, preference, roleVars, decision, vars>>

Logics == {"roundrobin", "session", "priority", "disaggregated_prefill",
           "disaggregated_prefill_orchestrated", "prefixaware"}

EndpointSets == (SUBSET Endpoints) \ {{}}

UrlsOf(endpoints) == {endpoints[i] : i \in DOMAIN endpoints}

\* sorted(urls)[k]
Nth(urls, k) == CHOOSE e \in urls : Cardinality({f \in urls : f < e}) = k

NoDecision == [urls |-> {}, chosen |-> NoEndpoint, decoder |-> NoEndpoint,
               session |-> NoSession]

\* A decision of this process, one more of at most MaxRouted.
Decide(l, d) ==
  /\ logic = l
  /\ routed < MaxRouted
  /\ routed' = routed + 1
  /\ decision' = [f \in DOMAIN NoDecision |-> IF f \in DOMAIN d THEN d[f] ELSE NoDecision[f]]
  /\ UNCHANGED <<logic, preference, vars>>

-----------------------------------------------------------------------------
(* Rotation: round robin, and the requests of PriorityRouter that are not urgent *)

\* next_index.get(urls, 0)
NextIndex(urls) == IF urls \in DOMAIN next_index THEN next_index[urls] ELSE 0

Rotate_skipped(urls, indexes) ==
  /\ next_index' = [s \in DOMAIN indexes \cup {urls} |->
                      IF s = urls THEN NextIndex(urls) + 2 ELSE indexes[s]]
  /\ sent' = [sent EXCEPT ![urls][Nth(urls, NextIndex(urls) % Cardinality(urls))] = @ + 1]

\* The entry of urls advances among the kept indexes, and its endpoint gets one
\* more request.
Rotate(urls, indexes) ==
  /\ next_index' = [s \in DOMAIN indexes \cup {urls} |->
                      IF s = urls THEN NextIndex(urls) + 1 ELSE indexes[s]]
  /\ sent' = [sent EXCEPT ![urls][Nth(urls, NextIndex(urls) % Cardinality(urls))] = @ + 1]

_endpoint_key(urls) ==
  sorted_cache' =
    IF urls \in sorted_cache THEN sorted_cache
    ELSE (IF Cardinality(sorted_cache) >= _MAX_CACHE_SIZE THEN {} ELSE sorted_cache) \cup {urls}

Forgotten == [s \in {} |-> 0]

\* The indexes that survive the arrival of this set in a full cache.
KeptIndexes(urls) ==
  IF Cardinality(DOMAIN next_index) >= _MAX_CACHE_SIZE /\ urls \notin DOMAIN next_index
  THEN Forgotten ELSE next_index

RoundRobin_route_request(urls) ==
  /\ Decide("roundrobin", [urls |-> urls,
                           chosen |-> Nth(urls, NextIndex(urls) % Cardinality(urls))])
  /\ _endpoint_key(urls)
  /\ Rotate(urls, KeptIndexes(urls))
  /\ restarts' = [s \in EndpointSets |->
                    IF s \in DOMAIN next_index \ DOMAIN KeptIndexes(urls)
                    THEN restarts[s] + 1 ELSE restarts[s]]
  /\ UNCHANGED <<sessionVars, roleVars>>

-----------------------------------------------------------------------------
(* Priority.  A header or a body field is <<n>> if it reads as the integer n, *)
(* <<>> if it is missing or malformed. *)

Readings == {<<>>} \cup {<<n>> : n \in 0 .. MaxPriority}

extract_priority(header, body) ==
  CASE header # <<>> -> header[1]
    [] header = <<>> /\ body # <<>> -> body[1]
    [] OTHER -> priority_default

\* An endpoint without statistics has no load.
_engine_load(load, e) == IF e \in DOMAIN load THEN load[e] ELSE 0

\* min() over the sorted urls: the first of the least loaded.
LeastLoaded(urls, load) ==
  LET least == {e \in urls : \A f \in urls : _engine_load(load, e) <= _engine_load(load, f)}
  IN Nth(least, 0)

Priority_route_request(urls, load, priority) ==
  LET urgent == priority < priority_threshold IN
  /\ Decide("priority",
            [urls |-> urls,
             chosen |-> IF urgent THEN LeastLoaded(urls, load)
                                  ELSE Nth(urls, NextIndex(urls) % Cardinality(urls))])
  /\ IF urgent THEN UNCHANGED <<next_index, sent>> ELSE Rotate(urls, next_index)
  /\ UNCHANGED <<sorted_cache, restarts, sessionVars, roleVars>>

-----------------------------------------------------------------------------
(* Sessions *)

\* Nodes that are gone are removed, new ones added.
_update_hash_ring(urls) ==
  (hash_ring \ (hash_ring \ urls)) \cup (urls \ hash_ring)

get_node_modulo(ring, s) ==
  Nth(ring, preference[s][1] % Cardinality(ring))

\* The first node met clockwise from the position of the session (uhashring).
get_node(ring, s) ==
  CHOOSE e \in ring : \A f \in ring : preference[s][e] <= preference[s][f]

\* e is the endpoint for session s; a request without a session goes by load,
\* in the order of the list.
Session_route_request(urls, s, e) ==
  /\ Decide("session", [urls |-> urls, chosen |-> e, session |-> s])
  /\ hash_ring' = _update_hash_ring(urls)
  /\ s # NoSession => e = get_node(hash_ring', s)
  /\ pinned' = IF s = NoSession THEN pinned
               ELSE [pinned EXCEPT ![s] = [urls |-> urls, chosen |-> e]]
  /\ UNCHANGED <<balanceVars, roleVars>>

-----------------------------------------------------------------------------
(* Prefill and decode *)

\* The first endpoint of the list with one of the labels; IndexError if none.
FirstLabelled(endpoints, labelled) ==
  LET at == {i \in DOMAIN endpoints : endpoints[i] \in labelled}
  IN IF at = {} THEN NoEndpoint ELSE endpoints[CHOOSE i \in at : \A j \in at : i <= j]

Disaggregated_route_request(endpoints, is_prefill) ==
  /\ Decide("disaggregated_prefill",
            [urls |-> UrlsOf(endpoints),
             chosen |-> FirstLabelled(endpoints,
                                      IF is_prefill THEN PrefillLabelled ELSE DecodeLabelled)])
  /\ UNCHANGED <<balanceVars, sessionVars, roleVars>>

\* Both roles are present; otherwise an HTTPException of status 503.
_find_endpoints(urls) == urls \cap PrefillLabelled # {} /\ urls \cap DecodeLabelled # {}

select_prefill_endpoint(urls) ==
  LET prefillers == urls \cap PrefillLabelled
  IN Nth(prefillers, prefill_idx % Cardinality(prefillers))

select_decode_endpoint(urls) ==
  LET decoders == urls \cap DecodeLabelled
  IN Nth(decoders, decode_idx % Cardinality(decoders))

\* History of one role: the requests of each member since the set was another one.
Served(h, members, e) ==
  LET counts == IF h.members = members THEN h.counts ELSE [f \in members |-> 0]
  IN [members |-> members, counts |-> [counts EXCEPT ![e] = @ + 1]]

Orchestrated_select_eager(urls) ==
  /\ IF _find_endpoints(urls)
     THEN /\ Decide("disaggregated_prefill_orchestrated",
                    [urls |-> urls, chosen |-> select_prefill_endpoint(urls),
                     decoder |-> select_decode_endpoint(urls)])
          /\ prefilled' = Served(prefilled, urls \cap PrefillLabelled, select_prefill_endpoint(urls))
          /\ decoded' = Served(decoded, urls \cap DecodeLabelled, select_decode_endpoint(urls))
     ELSE /\ Decide("disaggregated_prefill_orchestrated", [urls |-> urls])
          /\ UNCHANGED <<prefilled, decoded>>
  /\ prefill_idx' = prefill_idx + 1
  /\ decode_idx' = decode_idx + 1
  /\ UNCHANGED <<balanceVars, sessionVars>>

\* The counters advance together, one step per request that found both roles.
Orchestrated_select(urls) ==
  /\ IF _find_endpoints(urls)
     THEN /\ Decide("disaggregated_prefill_orchestrated",
                    [urls |-> urls, chosen |-> select_prefill_endpoint(urls),
                     decoder |-> select_decode_endpoint(urls)])
          /\ prefill_idx' = prefill_idx + 1
          /\ decode_idx' = decode_idx + 1
          /\ prefilled' = Served(prefilled, urls \cap PrefillLabelled, select_prefill_endpoint(urls))
          /\ decoded' = Served(decoded, urls \cap DecodeLabelled, select_decode_endpoint(urls))
     ELSE /\ Decide("disaggregated_prefill_orchestrated", [urls |-> urls])
          /\ UNCHANGED roleVars
  /\ UNCHANGED <<balanceVars, sessionVars>>

-----------------------------------------------------------------------------

\* Where the hash function puts the nodes seen from one position of the ring.
Orders ==
  {o \in [Endpoints -> 1 .. Cardinality(Endpoints)] :
     \A e, f \in Endpoints : o[e] = o[f] => e = f}

LogicsInit ==
  /\ logic \in Logics
  /\ preference \in IF logic = "session" THEN [Sessions -> Orders] ELSE {[s \in {} |-> 0]}
  /\ routed = 0
  /\ next_index = Forgotten /\ sorted_cache = {}
  /\ hash_ring = {}
  /\ prefill_idx = 0 /\ decode_idx = 0
  /\ decision = NoDecision
  /\ sent = [s \in EndpointSets |-> [e \in s |-> 0]]
  /\ restarts = [s \in EndpointSets |-> 0]
  /\ pinned = [s \in Sessions |-> [urls |-> {}, chosen |-> NoEndpoint]]
  /\ prefilled = [members |-> {}, counts |-> Forgotten]
  /\ decoded = [members |-> {}, counts |-> Forgotten]
  /\ PrefixInit

PrefixAware == logic = "prefixaware" /\ PrefixNext
               /\ UNCHANGED <<logic, routed, balanceVars, sessionVars, preference, roleVars, decision>>

\* Where only the set of urls matters (they are sorted first), the list is a set.
LogicsNext ==
  \/ \E urls \in EndpointSets :
       \/ RoundRobin_route_request(urls)
       \/ \E load \in UNION {[S -> 0 .. MaxQps] : S \in SUBSET urls},
             priority \in {extract_priority(header, body) : header, body \in Readings} :
            Priority_route_request(urls, load, priority)
       \/ \E s \in Sessions, e \in Endpoints : Session_route_request(urls, s, e)
       \/ Orchestrated_select(urls)
  \/ \E endpoints \in EndpointLists :
       \/ \E qps \in Rates(endpoints), e \in UrlsOf(endpoints) :
            /\ Session_route_request(UrlsOf(endpoints), NoSession, e)
            /\ _qps_routing(endpoints, qps, e)
       \/ \E is_prefill \in BOOLEAN : Disaggregated_route_request(endpoints, is_prefill)
  \/ PrefixAware

LogicsSpec == LogicsInit /\ [][LogicsNext]_logicVars

-----------------------------------------------------------------------------
(* Properties *)

\* However the fleets of successive requests interleave, the requests that saw
\* one set of endpoints are spread over it evenly: within one, plus one for each
\* time a full cache forgot the set's index.  For PriorityRouter there is no such
\* time, and urgent requests do not disturb the rotation of the others: "no
\* engine is ever reserved and left idle".
RotationBalanced ==
  \A s \in EndpointSets : \A e, f \in s : sent[s][e] <= sent[s][f] + 1 + restarts[s]

\* A session is served by an engine of the list, and moves only when it has to or
\* when something new is there: its next request goes elsewhere only if its engine
\* is not available any more, or to an engine that was not available the last
\* time, whatever other sessions did to the ring in between.
SessionSticks ==
  [][\A s \in Sessions :
       (routed' # routed /\ decision'.session = s) =>
         /\ decision'.chosen \in decision'.urls
         /\ \/ decision'.chosen = pinned[s].chosen
            \/ pinned[s].chosen \notin decision'.urls
            \/ decision'.chosen \notin pinned[s].urls]_logicVars

\* "Uses round-robin across available prefill and decode pods": as long as the
\* set of prefill pods stays the same, they are used evenly, and so are the
\* decode pods; requests refused because the other role is missing do not count
\* and do not disturb the order.
RolesBalanced ==
  \A h \in {prefilled, decoded} : \A e, f \in h.members : h.counts[e] <= h.counts[f] + 1

=============================================================================
