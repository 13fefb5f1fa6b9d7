---------------------------- MODULE CacheRouters ----------------------------
(***************************************************************************)
(* KvawareRouter and LoadAwareRouter (src/vllm_router/routers/             *)
(* routing_logic.py): placement by what the cache controller says engines  *)
(* hold.  The controller names engines by instance id, the router by url,  *)
(* and instance_id_to_ip bridges the two: a dict, here the sequence of its *)
(* items in insertion order.  A restarted engine registers a fresh id (the *)
(* ids grow) and what the controller knew of the dead one lingers; or it   *)
(* registers under the id it had.  The controller forgets an engine that   *)
(* does not report in time, and then answers None, which becomes a key of  *)
(* the map like any other: the id 0.                                       *)
(*                                                                         *)
(* A step of a request runs from one await to the next.  The controller    *)
(* (lmcache) runs in the process, so an answer is computed in the step     *)
(* that consumes it; one engine per host, since it is asked by ip.  All    *)
(* prompts are alike: P tokens, of which an engine holds a leading part.   *)
(***************************************************************************)
EXTENDS Integers, Sequences, FiniteSetsExt

CONSTANTS
  Urls,                         \* engine urls, numbers: sorting is their order
  Requests,                     \* slots for concurrent requests
  P,                            \* tokens of the prompt
  threshold,                    \* kv_aware_threshold
  beta,                         \* weight of the load penalty, as <<numerator, denominator>>
  MaxIds,                       \* bound: instance ids ever registered
  MaxArrivals,                  \* bound: requests
  MaxTimeouts,                  \* bound: engines that the controller forgets
  NoUrl

ASSUME CacheAssumption ==
  /\ Urls \subseteq Nat /\ IsFiniteSet(Urls)
  /\ P \in Nat \ {0} /\ threshold \in Nat /\ beta \in Int \X (Nat \ {0}) /\ MaxIds \in Nat /\ MaxArrivals \in Nat
  /\ MaxTimeouts \in Nat
  /\ NoUrl \notin Urls /\ IsFiniteSet(Requests)

VARIABLES
  cache_logic,                  \* "kvaware" or "loadaware"
  registered,                   \* url -> instance id of the engine behind it
  known, timeouts,              \* controller: urls whose engine it has an id for
  last_id,                      \* the newest id registered
  kv_pool,                      \* controller: id -> tokens of the prompt it holds
  instance_id_to_ip,            \* sequence of [id, url], in insertion order
  arrivals,                     \* requests so far
  pc,                           \* where the request is suspended
  endpoints,                    \* its candidates
  request_stats,                \* the loads it was given: url -> requests in flight
  layout_info,                  \* the answer to its lookup: id -> tokens
  todo,                         \* endpoints still to be queried by its refresh
  chosen,                       \* where it was sent
  by_cache,                     \* whether by what is cached, not by the fallback
  missed                        \* history: urls the controller had no id for when asked,
                                \* since they registered the present one

fleetVars == <<registered, known, timeouts, last_id, kv_pool>>
localVars == <<pc, endpoints, request_stats, layout_info, todo, chosen, by_cache>>
cacheVars == <<cache_logic, fleetVars, instance_id_to_ip, arrivals, localVars, missed>>

Ids == 1 .. MaxIds

Nothing == [i \in {} |-> 0]

MappedIds == {instance_id_to_ip[k].id : k \in DOMAIN instance_id_to_ip}

MappedUrls == {instance_id_to_ip[k].url : k \in DOMAIN instance_id_to_ip}

\* Requests in flight at u, as the ledger of the request statistics counts them.
Load(u) == Cardinality({r \in Requests : pc[r] = "serving" /\ chosen[r] = u})

-----------------------------------------------------------------------------
(* The fleet and the controller *)

\* The engine behind u starts, or restarts with an empty cache: a fresh id.
Register(u) ==
  /\ last_id < MaxIds
  /\ last_id' = last_id + 1
  /\ registered' = [registered EXCEPT ![u] = last_id']
  /\ known' = known \cup {u}
  /\ missed' = missed \ {u}
  /\ UNCHANGED <<cache_logic, timeouts, kv_pool, instance_id_to_ip, arrivals, localVars>>

\* The engine behind u does not report within lmcache_worker_timeout.
WorkerTimesOut(u) ==
  /\ u \in known /\ timeouts < MaxTimeouts
  /\ timeouts' = timeouts + 1
  /\ known' = known \ {u}
  /\ UNCHANGED <<cache_logic, registered, last_id, kv_pool, instance_id_to_ip, arrivals, localVars,
                 missed>>

\* It registers again under the id it had: the name of its pod, or a configured one.
Reregister(u) ==
  /\ u \notin known
  /\ known' = known \cup {u}
  /\ UNCHANGED <<cache_logic, registered, timeouts, last_id, kv_pool, instance_id_to_ip, arrivals, localVars,
                 missed>>

\* A request ends; its engine holds k tokens of the prompt from now on.
Finish(r, k) ==
  /\ pc[r] = "serving"
  /\ pc' = [pc EXCEPT ![r] = "idle"]
  /\ chosen' = [chosen EXCEPT ![r] = NoUrl]
  /\ by_cache' = [by_cache EXCEPT ![r] = FALSE]
  /\ endpoints' = [endpoints EXCEPT ![r] = {}]
  /\ kv_pool' = [i \in DOMAIN kv_pool \cup {registered[chosen[r]]} |->
                   IF i = registered[chosen[r]] THEN k ELSE kv_pool[i]]
  /\ UNCHANGED <<cache_logic, registered, known, timeouts, last_id, instance_id_to_ip, arrivals,
                 request_stats, layout_info, todo, missed>>

-----------------------------------------------------------------------------
(* The instance map *)

\* instance_id_to_ip[id] = url: a new key goes to the end, an old one keeps its place.
Written(m, id, url) ==
  IF \E k \in DOMAIN m : m[k].id = id
  THEN [k \in DOMAIN m |-> IF m[k].id = id THEN [id |-> id, url |-> url] ELSE m[k]]
  ELSE Append(m, [id |-> id, url |-> url])

\* url -> id by inverting the dict: the last key inserted for a url; 0 if none.
url_to_instance(m, url) ==
  LET at == {k \in DOMAIN m : m[k].url = url}
  IN IF at = {} THEN 0 ELSE m[CHOOSE k \in at : \A j \in at : j <= k].id

instance_map_is_stale_urls_only(urls, layout) == \E u \in urls : u \notin MappedUrls

\* An endpoint the map cannot score, or a holder it has never seen.
instance_map_is_stale(urls, layout) ==
  \/ \E u \in urls : u \notin MappedUrls
  \/ \E i \in DOMAIN layout : i \notin MappedIds

-----------------------------------------------------------------------------
(* The choice *)

\* matched_by_url.get(u, 0)
matched_tokens_by_url(m, layout, u) ==
  IF url_to_instance(m, u) \in DOMAIN layout THEN layout[url_to_instance(m, u)] ELSE 0

\* (load - mean) / max(1, mean), times max(n, total).
relative_load(load, total, n) == n * load - total

score_endpoint_inverted(matched, load, total, n) ==
  beta[2] * Min({matched, P}) * Max({total, n}) + beta[1] * P * relative_load(load, total, n)

\* benefit - beta * relative load, times its denominator beta[2] * P * max(n, total).
score_endpoint(matched, load, total, n) ==
  beta[2] * Min({matched, P}) * Max({total, n}) - beta[1] * P * relative_load(load, total, n)

\* sum(loads): one pair for each request in flight at one of the urls.
total_load(urls, loads) ==
  Cardinality({p \in urls \X (1 .. Cardinality(Requests)) : p[2] <= loads[p[1]]})

\* The best score; the first url wins a tie.
select_url(m, urls, loads, layout) ==
  LET total == total_load(urls, loads)
      score(u) == score_endpoint(matched_tokens_by_url(m, layout, u), loads[u], total,
                                 Cardinality(urls))
  IN CHOOSE u \in urls : \A v \in urls : score(v) < score(u) \/ (score(v) = score(u) /\ u <= v)

\* r is sent to u and its locals are gone.
Send(r, u, cached) ==
  /\ pc' = [pc EXCEPT ![r] = "serving"]
  /\ chosen' = [chosen EXCEPT ![r] = u]
  /\ by_cache' = [by_cache EXCEPT ![r] = cached]
  /\ layout_info' = [layout_info EXCEPT ![r] = Nothing]
  /\ request_stats' = [request_stats EXCEPT ![r] = Nothing]

\* By session hash or by the lowest rate: any of the endpoints (RoutingLogics).
fallback_url(r) == \E u \in endpoints[r] : Send(r, u, FALSE)

\* The rest of KvawareRouter.route_request after its last await, with map m.
KvawareChoice(r, m, layout) ==
  LET holders == {i \in DOMAIN layout : \E u \in endpoints[r] : i = url_to_instance(m, u)}
      best == {i \in holders : \A j \in holders : layout[j] <= layout[i]}
  IN IF \E i \in best : layout[i] + threshold >= P
     THEN \E i \in best, k \in DOMAIN m :
            m[k].id = i /\ Send(r, m[k].url, TRUE)
     ELSE fallback_url(r)

LoadAwareChoice(r, m, layout) ==
  Send(r, select_url(m, endpoints[r], request_stats[r], layout), TRUE)

Choice(r, m, layout) ==
  IF cache_logic = "kvaware" THEN KvawareChoice(r, m, layout) ELSE LoadAwareChoice(r, m, layout)

-----------------------------------------------------------------------------
(* Requests *)

\* A request comes in with these candidates and the loads of this moment; its
\* prompt is tokenized, perhaps by an engine.
Arrive(r, urls) ==
  /\ pc[r] = "idle" /\ arrivals < MaxArrivals
  /\ arrivals' = arrivals + 1
  /\ pc' = [pc EXCEPT ![r] = "lookup"]
  /\ endpoints' = [endpoints EXCEPT ![r] = urls]
  /\ request_stats' = [request_stats EXCEPT ![r] = [u \in urls |-> Load(u)]]
  /\ UNCHANGED <<cache_logic, fleetVars, instance_id_to_ip, layout_info, todo, chosen,
                 by_cache, missed>>

\* The remote tokenizer fails and the exception ends the request.
TokenizeFails(r) ==
  /\ pc[r] = "lookup"
  /\ pc' = [pc EXCEPT ![r] = "idle"]
  /\ endpoints' = [endpoints EXCEPT ![r] = {}]
  /\ request_stats' = [request_stats EXCEPT ![r] = Nothing]
  /\ UNCHANGED <<cache_logic, fleetVars, instance_id_to_ip, arrivals, layout_info, todo,
                 chosen, by_cache, missed>>

\* The controller's answer: what every id, live or dead, holds.
Lookup(r) ==
  /\ pc[r] = "lookup"
  /\ \/ /\ kv_pool = Nothing
        /\ fallback_url(r)
        /\ UNCHANGED todo
     \/ /\ kv_pool # Nothing /\ ~ instance_map_is_stale(endpoints[r], kv_pool)
        /\ Choice(r, instance_id_to_ip, kv_pool)
        /\ UNCHANGED todo
     \/ /\ kv_pool # Nothing /\ instance_map_is_stale(endpoints[r], kv_pool)
        /\ pc' = [pc EXCEPT ![r] = "refreshing"]
        /\ todo' = [todo EXCEPT ![r] = endpoints[r]]
        /\ layout_info' = [layout_info EXCEPT ![r] = kv_pool]
        /\ UNCHANGED <<request_stats, chosen, by_cache>>
  /\ UNCHANGED <<cache_logic, fleetVars, instance_id_to_ip, arrivals, endpoints, missed>>

\* One endpoint of the refresh is asked for its id and entered in the map.
\* KvawareRouter asks one after the other and goes on after the last one;
\* LoadAwareRouter asks all at once and is resumed later.
QueryInst(r, u) ==
  LET m == Written(instance_id_to_ip, IF u \in known THEN registered[u] ELSE 0, u) IN
  /\ pc[r] = "refreshing" /\ u \in todo[r]
  /\ instance_id_to_ip' = m
  /\ missed' = IF u \in known THEN missed ELSE missed \cup {u}
  /\ todo' = [todo EXCEPT ![r] = @ \ {u}]
  /\ \/ /\ todo[r] # {u}
        /\ UNCHANGED <<pc, request_stats, layout_info, chosen, by_cache>>
     \/ /\ todo[r] = {u} /\ cache_logic = "kvaware"
        /\ Choice(r, m, layout_info[r])
     \/ /\ todo[r] = {u} /\ cache_logic = "loadaware"
        /\ pc' = [pc EXCEPT ![r] = "queried"]
        /\ UNCHANGED <<request_stats, layout_info, chosen, by_cache>>
  /\ UNCHANGED <<cache_logic, fleetVars, arrivals, endpoints>>

\* LoadAwareRouter: gather() is over, the placement decision is made.
Resume(r) ==
  /\ pc[r] = "queried"
  /\ Choice(r, instance_id_to_ip, layout_info[r])
  /\ UNCHANGED <<cache_logic, fleetVars, instance_id_to_ip, arrivals, endpoints, todo, missed>>

-----------------------------------------------------------------------------

CacheInit ==
  /\ cache_logic \in {"kvaware", "loadaware"}
  /\ known = Urls /\ timeouts = 0 /\ missed = {}
  /\ last_id = Cardinality(Urls)
  /\ registered = [u \in Urls |-> Cardinality({v \in Urls : v <= u})]
  /\ kv_pool = Nothing
  /\ instance_id_to_ip = <<>>
  /\ arrivals = 0
  /\ pc = [r \in Requests |-> "idle"]
  /\ endpoints = [r \in Requests |-> {}]
  /\ request_stats = [r \in Requests |-> Nothing]
  /\ layout_info = [r \in Requests |-> Nothing]
  /\ todo = [r \in Requests |-> {}]
  /\ chosen = [r \in Requests |-> NoUrl]
  /\ by_cache = [r \in Requests |-> FALSE]

CacheNext ==
  \/ \E u \in Urls : Register(u) \/ WorkerTimesOut(u) \/ Reregister(u)
  \/ \E r \in Requests :
       \/ \E urls \in (SUBSET Urls) \ {{}} : Arrive(r, urls)
       \/ TokenizeFails(r) \/ Lookup(r) \/ Resume(r)
       \/ \E u \in Urls : QueryInst(r, u)
       \/ \E k \in 1 .. P + 1 : Finish(r, k)

CacheSpec == CacheInit /\ [][CacheNext]_cacheVars

-----------------------------------------------------------------------------
(* Properties *)

\* What the lookup of r said, at the step that places r.
LayoutOf(r) == IF pc[r] = "lookup" THEN kv_pool ELSE layout_info[r]

\* An engine that really holds a part of the prompt is credited with it: if the
\* lookup named the live id of a candidate, the map resolves that candidate to
\* this id by the time the request is placed.  Otherwise placement "silently
\* degenerates to least-loaded for the life of the router".  That is what happens
\* to an engine about which a refresh asked while the controller had forgotten it,
\* until it registers a fresh id.
WarmCredited ==
  [][\A r \in Requests :
       (pc[r] # "serving" /\ pc'[r] = "serving") =>
         \A u \in endpoints[r] \ missed' :
           registered[u] \in DOMAIN LayoutOf(r) =>
             url_to_instance(instance_id_to_ip', u) = registered[u]]_cacheVars

\* A placement by score is never beaten on both counts: no other candidate has
\* at least the credited match and at most the load the request was given, one
\* of them strictly (a match counts up to the length of the prompt).  "beta = 0
\* reproduces cache-only placement": then only the match has to be the best.
NotDominated ==
  [][\A r \in Requests :
       (/\ beta[1] >= 0 /\ cache_logic = "loadaware"
        /\ pc[r] # "serving" /\ pc'[r] = "serving" /\ by_cache'[r]) =>
         LET hit(u) == Min({P, matched_tokens_by_url(instance_id_to_ip, LayoutOf(r), u)})
             load(u) == request_stats[r][u]
             c == chosen'[r]
         IN \A v \in endpoints[r] :
              ~ (hit(v) >= hit(c) /\ load(v) <= load(c)
                    /\ (hit(v) > hit(c) \/ (beta[1] > 0 /\ load(v) < load(c))))
    ]_cacheVars

=============================================================================
