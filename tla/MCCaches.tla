---------------------------- MODULE MCCaches ----------------------------
(***************************************************************************)
(* What is remembered of prompts, for TLC: a behaviour is of the routers   *)
(* that ask the cache controller, or of the semantic cache.                *)
(***************************************************************************)
EXTENDS CacheRouters, SemanticCache, TLC

VARIABLES memory

\* A weight that the documentation suggests, 0.25.
LowerBeta == <<1, 4>>

CachesInit ==
  /\ memory \in {"kv cache", "semantic cache"}
  /\ CacheInit /\ SemInit
  /\ memory # "kv cache" => cache_logic = "kvaware"

CachesNext ==
  /\ \/ memory = "kv cache" /\ CacheNext /\ UNCHANGED semVars
     \/ memory = "semantic cache" /\ SemNext /\ UNCHANGED cacheVars
  /\ UNCHANGED memory

CachesSpec == CachesInit /\ [][CachesNext]_<<cacheVars, semVars, memory>>

\* Requests and model names are interchangeable.
Symmetry == Permutations(Requests) \cup Permutations(Chats) \cup Permutations(LLMs)

=============================================================================
