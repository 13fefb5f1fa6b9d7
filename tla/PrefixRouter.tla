---------------------------- MODULE PrefixRouter ----------------------------
(***************************************************************************)
(* PrefixAwareRouter (src/vllm_router/routers/routing_logic.py) and the    *)
(* HashTrie it keeps (src/vllm_router/prefix/hashtrie.py).  A prompt is    *)
(* its sequence of hashed chunks; the trie is a function from paths to the *)
(* endpoints of the node at that path, {} where there is no node.  The     *)
(* locks of the nodes are never contended (nothing is awaited under them), *)
(* so a routing decision is one step of the event loop.                    *)
(***************************************************************************)
EXTENDS Naturals, Sequences

CONSTANTS
  Endpoints,                    \* engine urls
  Chunks,                       \* chunk hashes
  MaxChunks,                    \* bound: chunks of a prompt
  MaxEndpoints,                 \* bound: endpoints in a list
  MaxQps,                       \* bound: the rates told apart
  MaxRequests,                  \* bound: requests routed
  NoEndpoint,
  min_match_chunks              \* prefix_min_match_length, in chunks

ASSUME PrefixAssumption ==
  /\ MaxChunks \in Nat /\ MaxEndpoints \in Nat /\ MaxQps \in Nat /\ MaxRequests \in Nat
  /\ min_match_chunks \in Nat
  /\ NoEndpoint \notin Endpoints

VARIABLES
  requests,                     \* requests routed so far
  trie,                         \* path -> endpoints of its node
  last,                         \* the last decision
  served                        \* history: the prompts routed to each endpoint

vars == <<requests, trie, last, served>>

Prompts == UNION {[1..n -> Chunks] : n \in 0..MaxChunks}

IsPrefix(p, q) == Len(p) <= Len(q) /\ \A i \in 1..Len(p) : p[i] = q[i]

Take(p, n) == [i \in 1..n |-> p[i]]

-----------------------------------------------------------------------------

\* Every node on the path of p, the root included, learns of e.
insert(p, e) ==
  trie' = [q \in Prompts |-> IF IsPrefix(q, p) THEN trie[q] \cup {e} ELSE trie[q]]

\* The available endpoints found on each of the first n nodes below the root.
OnPath(p, available, n) ==
  {e \in available : \A i \in 1..n : e \in trie[Take(p, i)]}

longest_prefix_match_first_only(p, available, n) ==
  /\ OnPath(p, available, n) # {}
  /\ (n = 0 /\ p # <<>>) => OnPath(p, available, 1) = {}

\* The walk down the trie ends at depth n: at a leaf of the prompt, or because
\* one chunk further no available endpoint is left.
longest_prefix_match(p, available, n) ==
  /\ OnPath(p, available, n) # {}
  /\ n < Len(p) => OnPath(p, available, n + 1) = {}

\* e is the first endpoint without statistics, else the first of the lowest rate.
_qps_routing(endpoints, qps, e) ==
  LET positions == DOMAIN endpoints
      unknown == {i \in positions : endpoints[i] \notin DOMAIN qps}
  IN \E i \in positions :
       /\ e = endpoints[i]
       /\ IF unknown # {}
          THEN i \in unknown /\ \A j \in unknown : i <= j
          ELSE \A j \in positions : /\ qps[endpoints[i]] <= qps[endpoints[j]]
                                    /\ j < i => qps[endpoints[i]] < qps[endpoints[j]]

\* A request with this prompt arrives while these endpoints are available, in
\* this order, with these request rates.
route_request(p, endpoints, qps) ==
  LET available == {endpoints[i] : i \in DOMAIN endpoints} IN
  \E n \in 0..Len(p), e \in Endpoints :
    /\ requests < MaxRequests
    /\ requests' = requests + 1
    /\ longest_prefix_match(p, available, n)
    /\ IF n < min_match_chunks
       THEN _qps_routing(endpoints, qps, e)
       ELSE e \in OnPath(p, available, n)
    /\ insert(p, e)
    /\ last' = [prompt |-> p, available |-> available, chosen |-> e,
                fallback |-> n < min_match_chunks]
    /\ served' = [served EXCEPT ![e] = @ \cup {p}]

\* The lists of endpoints discovery can return: not empty, no url twice.
EndpointLists ==
  {l \in UNION {[1..n -> Endpoints] : n \in 1..MaxEndpoints} :
     \A i, j \in DOMAIN l : l[i] = l[j] => i = j}

\* The request rates known of some of the endpoints of a list.
Rates(endpoints) ==
  UNION {[S -> 0..MaxQps] : S \in SUBSET {endpoints[i] : i \in DOMAIN endpoints}}

PrefixInit ==
  /\ requests = 0
  /\ trie = [p \in Prompts |-> {}]
  /\ last = [prompt |-> <<>>, available |-> {}, chosen |-> NoEndpoint, fallback |-> FALSE]
  /\ served = [e \in Endpoints |-> {}]

PrefixNext ==
  \E p \in Prompts, endpoints \in EndpointLists :
    \E qps \in Rates(endpoints) : route_request(p, endpoints, qps)

PrefixSpec == PrefixInit /\ [][PrefixNext]_vars

-----------------------------------------------------------------------------
(* Properties *)

\* The trie, the last decision and the history hold values of their types.
PrefixTypeOK ==
  /\ requests \in 0..MaxRequests
  /\ trie \in [Prompts -> SUBSET Endpoints]
  /\ served \in [Endpoints -> SUBSET Prompts]
  /\ last.prompt \in Prompts /\ last.available \subseteq Endpoints
  /\ last.chosen \in last.available \cup {NoEndpoint}

\* The node at a path names exactly the endpoints that were sent a prompt with
\* that prefix: the trie forgets nothing and makes nothing up.
TrieIsHistory ==
  \A p \in Prompts, e \in Endpoints :
    e \in trie[p] <=> \E q \in served[e] : IsPrefix(p, q)

\* A request goes to the endpoint with the longest cached prefix: whatever
\* leading chunks of its prompt some available endpoint has been sent before,
\* the chosen one has been sent too, unless the match is below the minimum.
LongestHolderChosen ==
  [][~last'.fallback =>
       \A f \in last'.available, q \in Prompts, n \in 0..Len(last'.prompt) :
         (q \in served[f] /\ IsPrefix(Take(last'.prompt, n), q)) =>
           (n = 0 \/ \E r \in served[last'.chosen] : IsPrefix(Take(last'.prompt, n), r))]_vars

\* Affinity starts by itself: a prompt long enough to clear the minimum, sent
\* again while the endpoint of the first time is available, is not balanced by
\* load a second time (the decision to record prompts on the fallback path too).
AffinityActivates ==
  [][(/\ Len(last'.prompt) >= min_match_chunks
      /\ \E f \in last'.available : last'.prompt \in served[f]) => ~last'.fallback]_vars

=============================================================================
