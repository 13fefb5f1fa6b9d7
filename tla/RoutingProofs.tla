--------------------------- MODULE RoutingProofs ----------------------------
(***************************************************************************)
(* Proofs about PrefixRouter and RoutingLogics: for any endpoints, chunks  *)
(* and minimum match, the trie is the history of what was routed where,    *)
(* and a request goes to an endpoint that holds the longest cached prefix; *)
(* for any fleets, rotations are even and sessions stay where they are.    *)
(***************************************************************************)
EXTENDS RoutingLogics, FiniteSetTheorems, TLAPS

\* Leaves are left to Zenon; those that need arithmetic or sequences cite SMT.
USE Zenon

\* Prompts are sequences; their leading chunks are prompts.
LEMMA PromptShape ==
  ASSUME NEW p \in Prompts
  PROVE  /\ Len(p) \in 0..MaxChunks /\ DOMAIN p = 1..Len(p)
         /\ \A i \in 1..Len(p) : p[i] \in Chunks
         /\ \A n \in 0..Len(p) :
              Take(p, n) \in Prompts /\ Len(Take(p, n)) = n /\ IsPrefix(Take(p, n), p)
  <1>1. PICK m \in 0..MaxChunks : p \in [1..m -> Chunks]
    BY DEF Prompts
  <1>2. m \in Nat /\ Len(p) = m /\ DOMAIN p = 1..m
    BY <1>1, PrefixAssumption, SMT
  <1>3. ASSUME NEW n \in 0..m
        PROVE  Take(p, n) \in [1..n -> Chunks] /\ Len(Take(p, n)) = n /\ n \in 0..MaxChunks
    BY <1>1, <1>2, PrefixAssumption, SMT DEF Take
  <1>4. ASSUME NEW n \in 0..m
        PROVE  IsPrefix(Take(p, n), p)
    BY <1>2, <1>3, SMT DEF IsPrefix, Take
  <1>5. \A n \in 0..m : Take(p, n) \in Prompts
    BY <1>3 DEF Prompts
  <1>6. \A i \in 1..m : p[i] \in Chunks
    BY <1>1
  <1> QED
    BY <1>2, <1>3, <1>4, <1>5, <1>6

\* A prefix of a prefix is a prefix.
LEMMA PrefixOrder ==
  ASSUME NEW p \in Prompts, NEW q \in Prompts, NEW r \in Prompts
  PROVE  /\ IsPrefix(p, p)
         /\ (IsPrefix(p, q) /\ IsPrefix(q, r)) => IsPrefix(p, r)
  <1>1. Len(p) \in Nat /\ Len(q) \in Nat /\ Len(r) \in Nat
    BY PromptShape, PrefixAssumption, SMT
  <1> QED
    BY <1>1, SMT DEF IsPrefix

\* Of two prefixes of one prompt the shorter is a prefix of the longer.
LEMMA TakeOrder ==
  ASSUME NEW p \in Prompts, NEW n \in 0..Len(p), NEW m \in 0..n
  PROVE  IsPrefix(Take(p, m), Take(p, n))
  <1>1. Len(p) \in Nat
    BY PromptShape, PrefixAssumption, SMT
  <1>2. Len(Take(p, n)) = n /\ Len(Take(p, m)) = m /\ n \in Nat /\ m \in Nat /\ m <= n
    BY <1>1, PromptShape, SMT
  <1> QED
    BY <1>2, SMT DEF IsPrefix, Take

-----------------------------------------------------------------------------

\* A decision picks an available endpoint and records the prompt on its path.
LEMMA RouteEffect ==
  ASSUME NEW p \in Prompts, NEW l \in EndpointLists, NEW qps,
         route_request(p, l, qps)
  PROVE  \E e \in Endpoints, n \in 0..Len(p), a \in SUBSET Endpoints :
           /\ requests < MaxRequests /\ requests' = requests + 1
           /\ longest_prefix_match(p, a, n)
           /\ n >= min_match_chunks => e \in OnPath(p, a, n)
           /\ e \in a
           /\ insert(p, e)
           /\ last' = [prompt |-> p, available |-> a, chosen |-> e,
                       fallback |-> n < min_match_chunks]
           /\ served' = [served EXCEPT ![e] = @ \cup {p}]
  <1> DEFINE a == {l[i] : i \in DOMAIN l}
  <1>1. PICK k \in 1..MaxEndpoints : l \in [1..k -> Endpoints]
    BY DEF EndpointLists
  <1>2. a \in SUBSET Endpoints
    BY <1>1
  <1>3. PICK n \in 0..Len(p), e \in Endpoints :
           /\ requests < MaxRequests /\ requests' = requests + 1
           /\ longest_prefix_match(p, a, n)
           /\ IF n < min_match_chunks THEN _qps_routing(l, qps, e) ELSE e \in OnPath(p, a, n)
           /\ insert(p, e)
           /\ last' = [prompt |-> p, available |-> a, chosen |-> e,
                       fallback |-> n < min_match_chunks]
           /\ served' = [served EXCEPT ![e] = @ \cup {p}]
    BY DEF route_request
  <1>4. n \in Nat
    BY PromptShape, PrefixAssumption, SMT
  <1>5. _qps_routing(l, qps, e) => e \in a
    BY DEF _qps_routing
  <1>6. OnPath(p, a, n) \subseteq a
    BY DEF OnPath
  <1>7. e \in a /\ (n >= min_match_chunks => e \in OnPath(p, a, n))
    BY <1>3, <1>4, <1>5, <1>6, PrefixAssumption, SMT
  <1> HIDE DEF a
  <1> QED
    BY <1>2, <1>3, <1>7

\* Recording p for e adds e to the node of every prefix of p, and nowhere else.
LEMMA InsertExact ==
  ASSUME PrefixTypeOK, TrieIsHistory,
         NEW p \in Prompts, NEW e \in Endpoints, insert(p, e),
         served' = [served EXCEPT ![e] = @ \cup {p}]
  PROVE  /\ trie' \in [Prompts -> SUBSET Endpoints]
         /\ served' \in [Endpoints -> SUBSET Prompts]
         /\ TrieIsHistory'
  <1>1. /\ trie \in [Prompts -> SUBSET Endpoints]
        /\ served \in [Endpoints -> SUBSET Prompts]
    BY DEF PrefixTypeOK
  <1>2. /\ trie' \in [Prompts -> SUBSET Endpoints]
        /\ served' \in [Endpoints -> SUBSET Prompts]
    BY <1>1 DEF insert
  <1>3. ASSUME NEW q \in Prompts, NEW f \in Endpoints
        PROVE  f \in trie'[q] <=> \E r \in served'[f] : IsPrefix(q, r)
    <2>1. f \in trie[q] <=> \E r \in served[f] : IsPrefix(q, r)
      BY DEF TrieIsHistory
    <2>2. trie'[q] = IF IsPrefix(q, p) THEN trie[q] \cup {e} ELSE trie[q]
      BY DEF insert
    <2>3. served'[f] = IF f = e THEN served[f] \cup {p} ELSE served[f]
      BY <1>1
    <2> QED
      BY <2>1, <2>2, <2>3, SMT
  <1> QED
    BY <1>2, <1>3 DEF TrieIsHistory

\* The inductive invariant: the types, and the trie as the history.
PrefixInv == PrefixTypeOK /\ TrieIsHistory

\* Every step of the router preserves the invariant.
LEMMA PrefixInvInductive ==
  ASSUME PrefixInv, [PrefixNext]_vars
  PROVE  PrefixInv'
  <1>1. CASE UNCHANGED vars
    BY <1>1 DEF PrefixInv, PrefixTypeOK, TrieIsHistory, vars
  <1>2. CASE PrefixNext
    <2>0. PICK p \in Prompts, l \in EndpointLists : \E qps \in Rates(l) : route_request(p, l, qps)
      BY <1>2 DEF PrefixNext
    <2>1. PICK qps \in Rates(l) : route_request(p, l, qps)
      BY <2>0
    <2>2. PICK e \in Endpoints, n \in 0..Len(p), a \in SUBSET Endpoints :
           /\ requests < MaxRequests /\ requests' = requests + 1
           /\ e \in a
           /\ insert(p, e)
           /\ last' = [prompt |-> p, available |-> a, chosen |-> e,
                       fallback |-> n < min_match_chunks]
           /\ served' = [served EXCEPT ![e] = @ \cup {p}]
      BY <2>1, RouteEffect
    <2>3. requests' \in 0..MaxRequests
      BY <2>2, PrefixAssumption, SMT DEF PrefixInv, PrefixTypeOK
    <2>4. last'.prompt \in Prompts /\ last'.available \subseteq Endpoints
          /\ last'.chosen \in last'.available \cup {NoEndpoint}
      BY <2>2
    <2>5. /\ trie' \in [Prompts -> SUBSET Endpoints]
          /\ served' \in [Endpoints -> SUBSET Prompts]
          /\ TrieIsHistory'
      BY <2>2, InsertExact DEF PrefixInv
    <2> QED
      BY <2>3, <2>4, <2>5 DEF PrefixInv, PrefixTypeOK
  <1> QED
    BY <1>1, <1>2

\* The empty trie is the history of nothing.
LEMMA PrefixInvInit ==
  PrefixInit => PrefixInv
  <1> SUFFICES ASSUME PrefixInit PROVE PrefixInv
    OBVIOUS
  <1>1. <<>> \in Prompts
    <2>1. <<>> \in [1..0 -> Chunks]
      BY SMT
    <2> QED
      BY <2>1, PrefixAssumption, SMT DEF Prompts
  <1> QED
    BY <1>1, PrefixAssumption, SMT DEF PrefixInit, PrefixInv, PrefixTypeOK, TrieIsHistory

\* The trie is the history of what was routed where, in every reachable state:
\* HashTrie.insert on both routing paths records every decision and no other.
THEOREM TrieExact == PrefixSpec => []TrieIsHistory
  <1>1. PrefixInv => TrieIsHistory
    BY DEF PrefixInv
  <1> QED
    BY <1>1, PrefixInvInit, PrefixInvInductive, PTL DEF PrefixSpec

-----------------------------------------------------------------------------

\* Endpoints drop out along the walk and never come back.
LEMMA OnPathShrinks ==
  ASSUME NEW p, NEW a, NEW n \in Nat, NEW m \in 0..n
  PROVE  OnPath(p, a, n) \subseteq OnPath(p, a, m)
  BY SMT DEF OnPath

\* An endpoint that was sent a prompt beginning with the first m chunks of p is
\* met on each of the first m nodes of p's path.
LEMMA HolderOnPath ==
  ASSUME PrefixInv, NEW p \in Prompts, NEW a \in SUBSET Endpoints, NEW f \in a,
         NEW m \in 0..Len(p), NEW q \in served[f], IsPrefix(Take(p, m), q)
  PROVE  f \in OnPath(p, a, m)
  <1>1. q \in Prompts
    BY DEF PrefixInv, PrefixTypeOK
  <1>2. Len(p) \in Nat /\ Take(p, m) \in Prompts
    BY PromptShape, PrefixAssumption, SMT
  <1>3. ASSUME NEW i \in 1..m
        PROVE  f \in trie[Take(p, i)]
    <2>1. i \in 0..Len(p) /\ i \in 0..m
      BY <1>2, SMT
    <2>2. Take(p, i) \in Prompts /\ IsPrefix(Take(p, i), Take(p, m))
      BY <2>1, PromptShape, TakeOrder
    <2>3. IsPrefix(Take(p, i), q)
      BY <1>1, <1>2, <2>2, PrefixOrder
    <2> QED
      BY <2>2, <2>3 DEF PrefixInv, TrieIsHistory
  <1> QED
    BY <1>3 DEF OnPath

\* The decision the code makes is the one LongestHolderChosen asks for.
LEMMA LongestHolderStep ==
  ASSUME PrefixInv, PrefixNext, ~last'.fallback,
         NEW f \in last'.available, NEW q \in Prompts, NEW m \in 0..Len(last'.prompt),
         q \in served[f], IsPrefix(Take(last'.prompt, m), q)
  PROVE  m = 0 \/ \E r \in served[last'.chosen] : IsPrefix(Take(last'.prompt, m), r)
  <1>0. PICK p \in Prompts, l \in EndpointLists : \E qps \in Rates(l) : route_request(p, l, qps)
    BY DEF PrefixNext
  <1>1. PICK qps \in Rates(l) : route_request(p, l, qps)
    BY <1>0
  <1>2. PICK e \in Endpoints, n \in 0..Len(p), a \in SUBSET Endpoints :
           /\ longest_prefix_match(p, a, n)
           /\ n >= min_match_chunks => e \in OnPath(p, a, n)
           /\ last' = [prompt |-> p, available |-> a, chosen |-> e,
                       fallback |-> n < min_match_chunks]
    BY <1>1, RouteEffect
  <1>3. /\ last'.prompt = p /\ last'.available = a /\ last'.chosen = e
        /\ ~(n < min_match_chunks)
    BY <1>2
  <1>4. Len(p) \in Nat /\ n \in Nat /\ m \in 0..Len(p)
    BY <1>3, PromptShape, PrefixAssumption, SMT
  <1>5. e \in OnPath(p, a, n)
    BY <1>2, <1>3, <1>4, PrefixAssumption, SMT
  <1>6. f \in OnPath(p, a, m)
    BY <1>3, <1>4, HolderOnPath
  <1>7. m <= n
    <2>1. SUFFICES ASSUME ~(m <= n) PROVE FALSE
      OBVIOUS
    <2>2. n < Len(p) /\ n + 1 \in 0..m /\ m \in Nat
      BY <1>4, <2>1, SMT
    <2>3. f \in OnPath(p, a, n + 1)
      BY <1>6, <2>2, OnPathShrinks
    <2> QED
      BY <1>2, <2>2, <2>3 DEF longest_prefix_match
  <1>8. CASE m # 0
    <2>1. m \in 1..n
      BY <1>4, <1>7, <1>8, SMT
    <2>2. e \in trie[Take(p, m)]
      BY <1>5, <2>1 DEF OnPath
    <2>3. Take(p, m) \in Prompts
      BY <1>4, PromptShape
    <2> QED
      BY <1>3, <2>2, <2>3 DEF PrefixInv, TrieIsHistory
  <1> QED
    BY <1>8

\* Unless its match is below the minimum, a request goes to an endpoint that
\* holds every leading part of the prompt any available endpoint holds
\* (PrefixAwareRouter.route_request over HashTrie.longest_prefix_match).
THEOREM LongestHolder == PrefixSpec => LongestHolderChosen
  <1>1. PrefixInv /\ [PrefixNext]_vars =>
          [~last'.fallback =>
             \A f \in last'.available, q \in Prompts, n \in 0..Len(last'.prompt) :
               (q \in served[f] /\ IsPrefix(Take(last'.prompt, n), q)) =>
                 (n = 0 \/ \E r \in served[last'.chosen] : IsPrefix(Take(last'.prompt, n), r))]_vars
    BY LongestHolderStep
  <1> QED
    BY <1>1, PrefixInvInit, PrefixInvInductive, PTL DEF PrefixSpec, LongestHolderChosen

\* A prompt an available endpoint was sent before is matched to its end.
LEMMA AffinityStep ==
  ASSUME PrefixInv, PrefixNext, Len(last'.prompt) >= min_match_chunks,
         NEW f \in last'.available, last'.prompt \in served[f]
  PROVE  ~last'.fallback
  <1>0. PICK p \in Prompts, l \in EndpointLists : \E qps \in Rates(l) : route_request(p, l, qps)
    BY DEF PrefixNext
  <1>1. PICK qps \in Rates(l) : route_request(p, l, qps)
    BY <1>0
  <1>2. PICK e \in Endpoints, n \in 0..Len(p), a \in SUBSET Endpoints :
           /\ longest_prefix_match(p, a, n)
           /\ last' = [prompt |-> p, available |-> a, chosen |-> e,
                       fallback |-> n < min_match_chunks]
    BY <1>1, RouteEffect
  <1>3. /\ last'.prompt = p /\ last'.available = a
        /\ last'.fallback = (n < min_match_chunks)
    BY <1>2
  <1>4. Len(p) \in Nat /\ n \in Nat
    BY PromptShape, PrefixAssumption, SMT
  <1>5. f \in OnPath(p, a, Len(p))
    <2>1. Len(p) \in 0..Len(p)
      BY <1>4, SMT
    <2>2. IsPrefix(Take(p, Len(p)), p)
      BY <2>1, PromptShape
    <2> QED
      BY <1>3, <2>1, <2>2, HolderOnPath
  <1>6. n = Len(p)
    <2>1. SUFFICES ASSUME n < Len(p) PROVE FALSE
      BY <1>4, SMT
    <2>2. n + 1 \in 0..Len(p)
      BY <1>4, <2>1, SMT
    <2>3. f \in OnPath(p, a, n + 1)
      BY <1>4, <1>5, <2>2, OnPathShrinks
    <2> QED
      BY <1>2, <2>1, <2>3 DEF longest_prefix_match
  <1>7. ~(n < min_match_chunks)
    BY <1>3, <1>4, <1>6, PrefixAssumption, SMT
  <1> QED
    BY <1>3, <1>7

\* A prompt that clears the minimum and is held by an available endpoint is
\* never balanced by load again (the recording of fallback decisions).
THEOREM Affinity == PrefixSpec => AffinityActivates
  <1>1. PrefixInv /\ [PrefixNext]_vars =>
          [(/\ Len(last'.prompt) >= min_match_chunks
            /\ \E f \in last'.available : last'.prompt \in served[f]) => ~last'.fallback]_vars
    BY AffinityStep
  <1> QED
    BY <1>1, PrefixInvInit, PrefixInvInductive, PTL DEF PrefixSpec, AffinityActivates

-----------------------------------------------------------------------------
(* Rotation *)

\* The place of e in sorted(urls).
Rank(urls, e) == Cardinality({f \in urls : f < e})

\* Sorted order numbers a finite set without gaps: every position has its url.
LEMMA RankBelow ==
  ASSUME NEW S \in SUBSET Nat, IsFiniteSet(S), NEW e \in S
  PROVE  Rank(S, e) \in 0 .. (Cardinality(S) - 1)
<1>1. {f \in S : f < e} \in SUBSET S /\ {f \in S : f < e} # S
  <2>1. e \in Nat /\ ~(e < e)
    BY SMT
  <2> QED
    BY <2>1
<1>2. /\ Rank(S, e) \in Nat /\ Cardinality(S) \in Nat
      /\ Rank(S, e) <= Cardinality(S) /\ Rank(S, e) # Cardinality(S)
  BY <1>1, FS_Subset, FS_CardinalityType DEF Rank
<1> QED
  BY <1>2, SMT

LEMMA RankOrder ==
  ASSUME NEW S \in SUBSET Nat, IsFiniteSet(S), NEW e \in S, NEW f \in S, e < f
  PROVE  Rank(S, e) < Rank(S, f)
<1> DEFINE below(x) == {y \in S : y < x}
<1>1. below(e) \cup {e} \in SUBSET below(f) /\ e \notin below(e)
  <2>1. e \in Nat /\ f \in Nat /\ \A y \in S : y \in Nat
    OBVIOUS
  <2>2. \A y \in S : y < e => y < f
    BY <2>1, SMT
  <2>3. ~(e < e) /\ e < f
    BY <2>1, SMT
  <2> QED
    BY <2>2, <2>3
<1>2. /\ IsFiniteSet(below(e)) /\ IsFiniteSet(below(f))
      /\ Cardinality(below(e)) \in Nat /\ Cardinality(below(f)) \in Nat
  <2>1. below(e) \in SUBSET S /\ below(f) \in SUBSET S
    OBVIOUS
  <2> QED
    BY <2>1, FS_Subset, FS_CardinalityType
<1>3. Cardinality(below(e) \cup {e}) = Cardinality(below(e)) + 1
  BY <1>1, <1>2, FS_AddElement
<1>4. Cardinality(below(e) \cup {e}) <= Cardinality(below(f))
  BY <1>1, <1>2, FS_Subset
<1>5. Cardinality(below(e)) < Cardinality(below(f))
  BY <1>2, <1>3, <1>4, SMT
<1> QED
  BY <1>5 DEF Rank

LEMMA NthRank ==
  ASSUME NEW S \in SUBSET Nat, IsFiniteSet(S), NEW k \in 0 .. (Cardinality(S) - 1)
  PROVE  /\ Nth(S, k) \in S
         /\ \A e \in S : Rank(S, e) = k <=> e = Nth(S, k)
<1> DEFINE T == 0 .. (Cardinality(S) - 1)
           rank == [e \in S |-> Rank(S, e)]
<1>1. Cardinality(S) \in Nat
  BY FS_CardinalityType
<1>2. IsFiniteSet(T) /\ Cardinality(T) = Cardinality(S)
  <2>1. 0 \in Int /\ Cardinality(S) - 1 \in Int
    BY <1>1, SMT
  <2>2. IsFiniteSet(T) /\ Cardinality(T) = IF 0 > Cardinality(S) - 1 THEN 0
                                           ELSE Cardinality(S) - 1 - 0 + 1
    BY <2>1, FS_Interval
  <2> QED
    BY <1>1, <2>2, SMT
<1>3. \A e, f \in S : Rank(S, e) = Rank(S, f) => e = f
  <2> SUFFICES ASSUME NEW e \in S, NEW f \in S, Rank(S, e) = Rank(S, f), e # f PROVE FALSE
    OBVIOUS
  <2>1. e < f \/ f < e
    BY SMT
  <2>2. Rank(S, e) \in Nat
    BY <1>1, RankBelow, SMT
  <2> QED
    BY <2>1, <2>2, RankOrder, SMT
<1>4. rank \in Injection(S, T)
  BY <1>3, RankBelow DEF Injection, IsInjective
<1>5. rank \in Surjection(S, T)
  BY <1>2, <1>4, FS_Injection
<1>6. \E e \in S : Rank(S, e) = k
  BY <1>5 DEF Surjection
<1>7. Nth(S, k) \in S /\ Rank(S, Nth(S, k)) = k
  BY <1>6 DEF Nth, Rank
<1> QED
  BY <1>3, <1>7

\* The next position: one more, or back to the first.
LEMMA NextPosition ==
  ASSUME NEW i \in Nat, NEW n \in Nat \ {0}
  PROVE  /\ i % n \in 0 .. (n - 1)
         /\ (i + 1) % n = IF i % n = n - 1 THEN 0 ELSE (i % n) + 1
<1> DEFINE q == i \div n
           r == i % n
           p == (i + 1) \div n
           t == (i + 1) % n
<1>1. q \in Int /\ r \in 0 .. (n - 1) /\ i = n * q + r
  BY SMT
<1>2. p \in Int /\ t \in 0 .. (n - 1) /\ i + 1 = n * p + t
  <2>1. i + 1 \in Nat
    BY SMT
  <2>2. \A j \in Nat : j \div n \in Int /\ j % n \in 0 .. (n - 1) /\ j = n * (j \div n) + (j % n)
    BY SMT
  <2> QED
    BY <2>1, <2>2
<1> HIDE DEF q, r, p, t
<1>3. p - q \in Int /\ n * (p - q) = 1 + r - t
  BY <1>1, <1>2, SMT
<1> DEFINE m == p - q
<1>4. m \in Int /\ n * m = 1 + r - t
  BY <1>3
<1> HIDE DEF m
<1>5. ~(m <= -1)
  <2>1. m <= -1 => n * m <= n * (-1)
    BY <1>4, SMT
  <2> QED
    BY <1>1, <1>2, <1>4, <2>1, SMT
<1>6. ~(m >= 2)
  <2>1. m >= 2 => n * m >= n * 2
    BY <1>4, SMT
  <2> QED
    BY <1>1, <1>2, <1>4, <2>1, SMT
<1>7. CASE m = 0
  <2>1. t = r + 1 /\ r # n - 1
    BY <1>1, <1>2, <1>4, <1>7, SMT
  <2> QED
    BY <1>1, <2>1 DEF r, t
<1>8. CASE m = 1
  <2>1. t = 0 /\ r = n - 1
    BY <1>1, <1>2, <1>4, <1>8, SMT
  <2> QED
    BY <1>1, <2>1 DEF r, t
<1> QED
  BY <1>4, <1>5, <1>6, <1>7, <1>8, SMT

\* The endpoints before position k have had one request more of this round.
Ahead(urls, e, k) == IF Rank(urls, e) < k THEN 1 ELSE 0

\* A rotation leaves what each endpoint has had in full rounds as it was, or adds
\* one to all of it.
LEMMA RotationStep ==
  ASSUME NEW S \in SUBSET Nat, IsFiniteSet(S), S # {}, NEW i \in Nat, NEW c \in [S -> Nat]
  PROVE  LET n == Cardinality(S)
             d == [c EXCEPT ![Nth(S, i % n)] = @ + 1]
         IN /\ Nth(S, i % n) \in S
            /\ \E x \in {0, 1} : \A e \in S :
                 d[e] - Ahead(S, e, (i + 1) % n) = c[e] - Ahead(S, e, i % n) + x
<1> DEFINE n == Cardinality(S)
           k == i % n
           d == [c EXCEPT ![Nth(S, k)] = @ + 1]
<1>1. n \in Nat \ {0}
  BY FS_CardinalityType, FS_EmptySet
<1>2. k \in 0 .. (n - 1) /\ (i + 1) % n = IF k = n - 1 THEN 0 ELSE k + 1
  BY <1>1, NextPosition
<1>3. Nth(S, k) \in S /\ \A e \in S : Rank(S, e) = k <=> e = Nth(S, k)
  BY <1>2, NthRank
<1>4. \A e \in S : Rank(S, e) \in 0 .. (n - 1)
  BY RankBelow
<1>5. \A e \in S : c[e] \in Nat /\ d[e] = IF Rank(S, e) = k THEN c[e] + 1 ELSE c[e]
  BY <1>3
<1> HIDE DEF n, k, d
<1>6. CASE k = n - 1
  <2>1. \A e \in S : Ahead(S, e, (i + 1) % n) = 0
    BY <1>2, <1>4, <1>6, SMT DEF Ahead
  <2>2. \A e \in S : Ahead(S, e, k) = IF Rank(S, e) = k THEN 0 ELSE 1
    BY <1>1, <1>2, <1>4, <1>6, SMT DEF Ahead
  <2>3. \A e \in S : d[e] - Ahead(S, e, (i + 1) % n) = c[e] - Ahead(S, e, k) + 1
    BY <1>5, <2>1, <2>2, SMT
  <2> QED
    BY <1>3, <2>3 DEF n, k, d
<1>7. CASE k # n - 1
  <2>1. \A e \in S : Ahead(S, e, (i + 1) % n) =
                       IF Rank(S, e) = k THEN 1 ELSE Ahead(S, e, k)
    BY <1>1, <1>2, <1>4, <1>7, SMT DEF Ahead
  <2>2. \A e \in S : /\ Ahead(S, e, k) \in Nat
                     /\ Rank(S, e) = k => Ahead(S, e, k) = 0
    BY <1>1, <1>2, <1>4, SMT DEF Ahead
  <2>3. \A e \in S : d[e] - Ahead(S, e, (i + 1) % n) = c[e] - Ahead(S, e, k) + 0
    BY <1>5, <2>1, <2>2, SMT
  <2> QED
    BY <1>3, <2>3 DEF n, k, d
<1> QED
  BY <1>6, <1>7

\* What e has had of the requests that saw urls, less the one of the round that
\* is under way.
FullRounds(urls, e) == sent[urls][e] - Ahead(urls, e, NextIndex(urls) % Cardinality(urls))

BalanceTypeOK ==
  /\ sent = [s \in EndpointSets |-> sent[s]]
  /\ \A s \in EndpointSets : sent[s] \in [s -> Nat]
  /\ restarts \in [EndpointSets -> Nat]
  /\ \A s \in DOMAIN next_index : next_index[s] \in Nat

\* Full rounds differ only by what restarts have cut short.
RoundsLevel ==
  \A s \in EndpointSets : \A e, f \in s : FullRounds(s, e) <= FullRounds(s, f) + restarts[s]

BalanceInv == BalanceTypeOK /\ RoundsLevel

\* The requests of one role since its set changed: rounds that began at position o.
RoleLevel(h, i) ==
  \/ h.members = {}
  \/ /\ h.members \in EndpointSets
     /\ h.counts \in [h.members -> Nat]
     /\ \E o \in Nat : \A e, f \in h.members :
          h.counts[e] - Ahead(h.members, e, i % Cardinality(h.members)) + Ahead(h.members, e, o)
            = h.counts[f] - Ahead(h.members, f, i % Cardinality(h.members)) + Ahead(h.members, f, o)

RoleInv ==
  /\ prefill_idx \in Nat /\ decode_idx \in Nat
  /\ RoleLevel(prefilled, prefill_idx) /\ RoleLevel(decoded, decode_idx)

\* A session is pinned to the first node of its last set, in its order of nodes.
PinnedFirst(s) ==
  pinned[s].chosen # NoEndpoint =>
    /\ pinned[s].chosen \in pinned[s].urls /\ pinned[s].urls \in EndpointSets
    /\ \A f \in pinned[s].urls : preference[s][pinned[s].chosen] <= preference[s][f]

SessionInv ==
  /\ logic = "session" => preference \in [Sessions -> Orders]
  /\ pinned = [s \in Sessions |-> pinned[s]]
  /\ \A s \in Sessions : PinnedFirst(s)

\* Each logic leaves the state of the others alone.
LEMMA LogicsParts ==
  ASSUME [LogicsNext]_logicVars
  PROVE  /\ UNCHANGED <<logic, preference>>
         /\ \/ UNCHANGED balanceVars
            \/ \E urls \in EndpointSets :
                 \/ RoundRobin_route_request(urls)
                 \/ \E load, priority : Priority_route_request(urls, load, priority)
         /\ \/ UNCHANGED roleVars
            \/ \E urls \in EndpointSets : Orchestrated_select(urls)
         /\ \/ UNCHANGED <<pinned, routed>>
            \/ UNCHANGED pinned /\ decision'.session = NoSession
            \/ \E urls \in EndpointSets, s \in Sessions, e \in Endpoints :
                 Session_route_request(urls, s, e)
<1>1. CASE UNCHANGED logicVars
  BY <1>1 DEF logicVars, balanceVars, roleVars, sessionVars
<1>2. CASE PrefixAware
  BY <1>2 DEF PrefixAware, balanceVars, roleVars, sessionVars
<1>3. ASSUME NEW urls \in EndpointSets,
             \/ RoundRobin_route_request(urls)
             \/ \E load, priority : Priority_route_request(urls, load, priority)
      PROVE  /\ UNCHANGED <<logic, preference, roleVars, pinned>> /\ decision'.session = NoSession
  BY <1>3 DEF RoundRobin_route_request, Priority_route_request, Decide, NoDecision, sessionVars
<1>4. ASSUME NEW urls, NEW s, NEW e, Session_route_request(urls, s, e)
      PROVE  /\ UNCHANGED <<logic, preference, balanceVars, roleVars>>
             /\ s = NoSession => UNCHANGED pinned /\ decision'.session = NoSession
  BY <1>4 DEF Session_route_request, Decide, NoDecision
<1>5. ASSUME NEW urls, Orchestrated_select(urls)
      PROVE  /\ UNCHANGED <<logic, preference, balanceVars, pinned>> /\ decision'.session = NoSession
  BY <1>5 DEF Orchestrated_select, Decide, NoDecision, sessionVars
<1>6. ASSUME NEW endpoints, NEW is_prefill, Disaggregated_route_request(endpoints, is_prefill)
      PROVE  /\ UNCHANGED <<logic, preference, balanceVars, roleVars, pinned>>
             /\ decision'.session = NoSession
  BY <1>6 DEF Disaggregated_route_request, Decide, NoDecision, sessionVars
<1>7. \/ \E urls \in EndpointSets :
           \/ RoundRobin_route_request(urls)
           \/ \E load, priority : Priority_route_request(urls, load, priority)
      \/ \E urls \in EndpointSets, s \in Sessions, e \in Endpoints : Session_route_request(urls, s, e)
      \/ \E urls, e : Session_route_request(urls, NoSession, e)
      \/ \E urls \in EndpointSets : Orchestrated_select(urls)
      \/ \E endpoints, is_prefill : Disaggregated_route_request(endpoints, is_prefill)
      \/ PrefixAware
      \/ UNCHANGED logicVars
  BY SMTT(30) DEF LogicsNext
<1> QED
  BY <1>1, <1>2, <1>3, <1>4, <1>5, <1>6, <1>7

LEMMA EndpointSetShape ==
  ASSUME NEW s \in EndpointSets
  PROVE  s \in SUBSET Nat /\ s \in SUBSET Endpoints /\ IsFiniteSet(s) /\ s # {}
         /\ Cardinality(s) \in Nat \ {0}
<1>1. s \in SUBSET Endpoints /\ s # {} /\ s \in SUBSET Nat
  BY LogicsAssumption DEF EndpointSets
<1>2. IsFiniteSet(s)
  BY <1>1, LogicsAssumption, FS_Subset
<1> QED
  BY <1>1, <1>2, FS_CardinalityType, FS_EmptySet

LEMMA BalanceTypes ==
  ASSUME BalanceTypeOK, NEW s \in EndpointSets
  PROVE  /\ NextIndex(s) \in Nat
         /\ restarts[s] \in Nat
         /\ \A e \in s : sent[s][e] \in Nat /\ FullRounds(s, e) \in Int
<1>1. NextIndex(s) \in Nat /\ restarts[s] \in Nat
  BY DEF BalanceTypeOK, NextIndex
<1>2. \A e \in s : sent[s][e] \in Nat
  BY DEF BalanceTypeOK
<1>3. \A e \in s : Ahead(s, e, NextIndex(s) % Cardinality(s)) \in {0, 1}
  BY DEF Ahead
<1> QED
  BY <1>1, <1>2, <1>3, SMT DEF FullRounds

\* A rotation among the indexes that are kept: those of all other sets, or none.
LEMMA RotateLevel ==
  ASSUME BalanceInv, NEW urls \in EndpointSets, NEW indexes, Rotate(urls, indexes),
         indexes \in {next_index, Forgotten},
         urls \in DOMAIN next_index => indexes = next_index,
         restarts' \in [EndpointSets -> Nat],
         \A s \in EndpointSets :
           restarts'[s] = IF s \in DOMAIN next_index \ DOMAIN indexes THEN restarts[s] + 1
                                                                      ELSE restarts[s]
  PROVE  BalanceInv'
<1> DEFINE n == Cardinality(urls)
           i == NextIndex(urls)
           e0 == Nth(urls, i % n)
<1>1. BalanceTypeOK /\ RoundsLevel
  BY DEF BalanceInv
<1>2. /\ urls \in SUBSET Nat /\ IsFiniteSet(urls) /\ urls # {} /\ i \in Nat
      /\ sent[urls] \in [urls -> Nat]
  BY <1>1, EndpointSetShape, BalanceTypes DEF BalanceTypeOK
<1>3. /\ e0 \in urls
      /\ \E x \in {0, 1} : \A e \in urls :
           [sent[urls] EXCEPT ![e0] = @ + 1][e] - Ahead(urls, e, (i + 1) % n)
             = sent[urls][e] - Ahead(urls, e, i % n) + x
  BY <1>2, RotationStep
<1>4. /\ next_index' = [s \in DOMAIN indexes \cup {urls} |->
                          IF s = urls THEN i + 1 ELSE indexes[s]]
      /\ sent' = [sent EXCEPT ![urls] = [sent[urls] EXCEPT ![e0] = @ + 1]]
  BY DEF Rotate
<1>5. /\ sent' = [s \in EndpointSets |-> sent'[s]]
      /\ sent'[urls] = [sent[urls] EXCEPT ![e0] = @ + 1]
      /\ \A s \in EndpointSets : s # urls => sent'[s] = sent[s]
  BY <1>1, <1>4 DEF BalanceTypeOK
<1>6. sent'[urls] \in [urls -> Nat]
  BY <1>2, <1>3, <1>5, SMT
<1>7. DOMAIN Forgotten = {}
  BY DEF Forgotten
<1>8. /\ NextIndex(urls)' = i + 1
      /\ \A s \in EndpointSets : s # urls =>
           NextIndex(s)' = IF s \in DOMAIN indexes THEN NextIndex(s) ELSE 0
  BY <1>4, <1>7 DEF NextIndex
<1>9. BalanceTypeOK'
  <2>1. \A s \in DOMAIN next_index' : next_index'[s] \in Nat
    BY <1>1, <1>2, <1>4, <1>7, SMT DEF BalanceTypeOK
  <2>2. \A s \in EndpointSets : sent'[s] \in [s -> Nat]
    BY <1>1, <1>5, <1>6 DEF BalanceTypeOK
  <2> QED
    BY <1>5, <2>1, <2>2 DEF BalanceTypeOK
<1>10. ASSUME NEW s \in EndpointSets, NEW e \in s, NEW f \in s
       PROVE  (FullRounds(s, e) <= FullRounds(s, f) + restarts[s])'
  <2>1. FullRounds(s, e) <= FullRounds(s, f) + restarts[s]
    BY <1>1, <1>10 DEF RoundsLevel
  <2>2. /\ FullRounds(s, e) \in Int /\ FullRounds(s, f) \in Int
        /\ sent[s][e] \in Nat /\ sent[s][f] \in Nat /\ restarts[s] \in Nat
    BY <1>1, BalanceTypes
  <2>3. CASE s = urls
    <3>1. PICK x \in {0, 1} : \A g \in urls : FullRounds(urls, g)' = FullRounds(urls, g) + x
      BY <1>3, <1>5, <1>8 DEF FullRounds
    <3>2. restarts'[s] = restarts[s]
      BY <1>7, <2>3
    <3> QED
      BY <2>1, <2>2, <2>3, <3>1, <3>2, SMT
  <2>4. CASE s # urls /\ (s \in DOMAIN indexes \/ s \notin DOMAIN next_index)
    <3>1. NextIndex(s)' = NextIndex(s) /\ restarts'[s] = restarts[s] /\ sent'[s] = sent[s]
      BY <1>5, <1>7, <1>8, <2>4 DEF NextIndex
    <3> QED
      BY <2>1, <3>1 DEF FullRounds
  <2>5. CASE s # urls /\ s \notin DOMAIN indexes /\ s \in DOMAIN next_index
    <3>1. NextIndex(s)' = 0 /\ restarts'[s] = restarts[s] + 1 /\ sent'[s] = sent[s]
      BY <1>5, <1>8, <2>5
    <3>2. Cardinality(s) \in Nat \ {0} /\ \A g \in s : Rank(s, g) \in Nat
      BY EndpointSetShape, RankBelow, SMT
    <3>3. 0 % Cardinality(s) = 0
      BY <3>2, SMT
    <3>4. \A g \in s : FullRounds(s, g)' = sent[s][g]
      <4>1. \A g \in s : Ahead(s, g, 0) = 0
        BY <3>2, SMT DEF Ahead
      <4>2. \A g \in s : FullRounds(s, g)' = sent'[s][g] - Ahead(s, g, 0)
        BY <3>1, <3>3 DEF FullRounds
      <4>3. \A g \in s : sent[s][g] \in Nat
        BY <1>1, BalanceTypes
      <4> QED
        BY <3>1, <4>1, <4>2, <4>3, SMT
    <3>5. \A g \in s : sent[s][g] - FullRounds(s, g) \in {0, 1}
      <4>1. \A g \in s : sent[s][g] \in Nat
        BY <1>1, BalanceTypes
      <4> QED
        BY <4>1, SMT DEF FullRounds, Ahead
    <3> QED
      BY <2>1, <2>2, <3>1, <3>4, <3>5, SMT
  <2> QED
    BY <2>3, <2>4, <2>5
<1>11. RoundsLevel'
  BY <1>10 DEF RoundsLevel
<1> QED
  BY <1>9, <1>11 DEF BalanceInv

LEMMA BalanceStep ==
  ASSUME BalanceInv, [LogicsNext]_logicVars
  PROVE  BalanceInv'
<1>1. CASE UNCHANGED balanceVars
  BY <1>1 DEF balanceVars, BalanceInv, BalanceTypeOK, RoundsLevel, FullRounds, NextIndex
<1>2. restarts \in [EndpointSets -> Nat]
  BY DEF BalanceInv, BalanceTypeOK
<1>3. ASSUME NEW urls \in EndpointSets, RoundRobin_route_request(urls) PROVE BalanceInv'
  <2>1. /\ Rotate(urls, KeptIndexes(urls))
        /\ restarts' = [s \in EndpointSets |->
                          IF s \in DOMAIN next_index \ DOMAIN KeptIndexes(urls)
                          THEN restarts[s] + 1 ELSE restarts[s]]
    BY <1>3 DEF RoundRobin_route_request
  <2>2. /\ KeptIndexes(urls) \in {next_index, Forgotten}
        /\ urls \in DOMAIN next_index => KeptIndexes(urls) = next_index
    BY DEF KeptIndexes
  <2> QED
    BY <1>2, <2>1, <2>2, RotateLevel, SMT
<1>4. ASSUME NEW urls \in EndpointSets, NEW load, NEW priority,
             Priority_route_request(urls, load, priority)
      PROVE  BalanceInv'
  <2>1. /\ UNCHANGED <<next_index, sent>> \/ Rotate(urls, next_index)
        /\ UNCHANGED <<sorted_cache, restarts>>
    BY <1>4 DEF Priority_route_request
  <2>2. CASE UNCHANGED <<next_index, sent>>
    BY <1>1, <2>1, <2>2 DEF balanceVars
  <2>3. CASE Rotate(urls, next_index)
    BY <1>2, <2>1, <2>3, RotateLevel
  <2> QED
    BY <2>1, <2>2, <2>3
<1> QED
  BY <1>1, <1>3, <1>4, LogicsParts

LEMMA BalanceInitially == LogicsInit => BalanceInv
<1> SUFFICES ASSUME LogicsInit PROVE BalanceInv
  OBVIOUS
<1>1. /\ DOMAIN next_index = {} /\ sent = [s \in EndpointSets |-> [e \in s |-> 0]]
      /\ restarts = [s \in EndpointSets |-> 0]
  BY DEF LogicsInit, Forgotten
<1>2. BalanceTypeOK
  BY <1>1 DEF BalanceTypeOK
<1>3. ASSUME NEW s \in EndpointSets, NEW e \in s PROVE FullRounds(s, e) = 0
  <2>1. NextIndex(s) = 0 /\ Cardinality(s) \in Nat \ {0} /\ Rank(s, e) \in Nat
    BY <1>1, EndpointSetShape, RankBelow, SMT DEF NextIndex
  <2>2. 0 % Cardinality(s) = 0
    BY <2>1, SMT
  <2> QED
    BY <1>1, <2>1, <2>2, SMT DEF FullRounds, Ahead
<1>4. RoundsLevel
  BY <1>1, <1>3, SMT DEF RoundsLevel
<1> QED
  BY <1>2, <1>4 DEF BalanceInv

\* However the fleets of successive requests interleave and whatever the bound of
\* the cache, rotation spreads the requests that saw one set of endpoints evenly,
\* within one and one more for each time a full cache forgot the set's index.
THEOREM RotationEven == LogicsSpec => []RotationBalanced
<1>1. BalanceInv => RotationBalanced
  <2> SUFFICES ASSUME BalanceInv, NEW s \in EndpointSets, NEW e \in s, NEW f \in s
               PROVE  sent[s][e] <= sent[s][f] + 1 + restarts[s]
    BY DEF RotationBalanced
  <2>1. /\ FullRounds(s, e) <= FullRounds(s, f) + restarts[s]
        /\ sent[s][e] \in Nat /\ sent[s][f] \in Nat /\ restarts[s] \in Nat
    BY BalanceTypes DEF BalanceInv, RoundsLevel
  <2> QED
    BY <2>1, SMT DEF FullRounds, Ahead
<1>2. BalanceInv /\ [LogicsNext]_logicVars => BalanceInv'
  BY BalanceStep
<1> QED
  BY <1>1, <1>2, BalanceInitially, PTL DEF LogicsSpec

-----------------------------------------------------------------------------
(* Roles *)

\* One more request of a role, whose counter advances with it.
LEMMA RoleServed ==
  ASSUME NEW h, NEW i \in Nat, RoleLevel(h, i), NEW m \in EndpointSets
  PROVE  RoleLevel(Served(h, m, Nth(m, i % Cardinality(m))), i + 1)
<1> DEFINE n == Cardinality(m)
           c == IF h.members = m THEN h.counts ELSE [f \in m |-> 0]
           e0 == Nth(m, i % n)
           d == [c EXCEPT ![e0] = @ + 1]
<1>1. m \in SUBSET Nat /\ IsFiniteSet(m) /\ m # {} /\ n \in Nat \ {0}
  BY EndpointSetShape
<1>2. c \in [m -> Nat]
  BY <1>1 DEF RoleLevel
<1>3. PICK o \in Nat : \A e, f \in m :
        c[e] - Ahead(m, e, i % n) + Ahead(m, e, o) = c[f] - Ahead(m, f, i % n) + Ahead(m, f, o)
  <2>1. CASE h.members = m
    BY <1>1, <2>1 DEF RoleLevel
  <2>2. CASE h.members # m
    <3>1. i % n \in Nat
      BY <1>1, SMT
    <3>2. \A e \in m : c[e] = 0
      BY <2>2
    <3>3. \A e \in m : Ahead(m, e, i % n) \in Nat
      BY DEF Ahead
    <3>4. \A e \in m : c[e] - Ahead(m, e, i % n) + Ahead(m, e, i % n) = 0
      BY <3>2, <3>3, SMT
    <3> QED
      BY <3>1, <3>4
  <2> QED
    BY <2>1, <2>2
<1>4. /\ e0 \in m
      /\ \E x \in {0, 1} : \A e \in m :
           d[e] - Ahead(m, e, (i + 1) % n) = c[e] - Ahead(m, e, i % n) + x
  <2> HIDE DEF c
  <2> QED
    BY <1>1, <1>2, RotationStep
<1>5. d \in [m -> Nat]
  <2> HIDE DEF c, e0
  <2> QED
    BY <1>2, <1>4, SMT
<1> HIDE DEF n, c, e0, d
<1>6. PICK x \in {0, 1} : \A e \in m :
        d[e] - Ahead(m, e, (i + 1) % n) = c[e] - Ahead(m, e, i % n) + x
  BY <1>4
<1>7. \A e \in m : c[e] - Ahead(m, e, i % n) \in Int /\ Ahead(m, e, o) \in Int
  BY <1>2, SMT DEF Ahead
<1>8. \A e, f \in m :
        d[e] - Ahead(m, e, (i + 1) % n) + Ahead(m, e, o)
          = d[f] - Ahead(m, f, (i + 1) % n) + Ahead(m, f, o)
  BY <1>3, <1>6, <1>7, SMT
<1>9. Served(h, m, Nth(m, i % Cardinality(m))) = [members |-> m, counts |-> d]
  BY DEF Served, n, c, e0, d
<1> QED
  BY <1>5, <1>8, <1>9, SMTT(30) DEF RoleLevel, n

LEMMA RoleStep ==
  ASSUME RoleInv, [LogicsNext]_logicVars
  PROVE  RoleInv'
<1>1. CASE UNCHANGED roleVars
  BY <1>1, SMTT(30) DEF roleVars, RoleInv, RoleLevel
<1>2. ASSUME NEW urls \in EndpointSets, Orchestrated_select(urls), ~UNCHANGED roleVars
      PROVE  RoleInv'
  <2> DEFINE ps == urls \cap PrefillLabelled
             ds == urls \cap DecodeLabelled
  <2>1. /\ _find_endpoints(urls)
        /\ prefill_idx' = prefill_idx + 1 /\ decode_idx' = decode_idx + 1
        /\ prefilled' = Served(prefilled, ps, select_prefill_endpoint(urls))
        /\ decoded' = Served(decoded, ds, select_decode_endpoint(urls))
    BY <1>2 DEF Orchestrated_select
  <2>2. ps \in EndpointSets /\ ds \in EndpointSets
    BY <2>1 DEF _find_endpoints, EndpointSets
  <2>3. /\ select_prefill_endpoint(urls) = Nth(ps, prefill_idx % Cardinality(ps))
        /\ select_decode_endpoint(urls) = Nth(ds, decode_idx % Cardinality(ds))
    BY DEF select_prefill_endpoint, select_decode_endpoint
  <2>4. /\ prefill_idx \in Nat /\ RoleLevel(prefilled, prefill_idx)
        /\ decode_idx \in Nat /\ RoleLevel(decoded, decode_idx)
    BY DEF RoleInv
  <2>5. RoleLevel(prefilled', prefill_idx')
    BY <2>1, <2>2, <2>3, <2>4, RoleServed
  <2>6. RoleLevel(decoded', decode_idx')
    BY <2>1, <2>2, <2>3, <2>4, RoleServed
  <2>7. RoleLevel(prefilled, prefill_idx)' /\ RoleLevel(decoded, decode_idx)'
    BY <2>5, <2>6 DEF RoleLevel
  <2>8. prefill_idx' \in Nat /\ decode_idx' \in Nat
    BY <2>1, <2>4, SMT
  <2> QED
    BY <2>7, <2>8 DEF RoleInv
<1> QED
  BY <1>1, <1>2, LogicsParts

LEMMA RoleInitially == LogicsInit => RoleInv
  BY SMT DEF LogicsInit, RoleInv, RoleLevel

\* While the set of prefill pods stays the same they are used evenly, and so are
\* the decode pods: for any fleets, any labels and any sequence of requests,
\* among them requests that are refused because a role is missing.
THEOREM RolesEven == LogicsSpec => []RolesBalanced
<1>1. ASSUME NEW h, NEW i \in Nat, RoleLevel(h, i), NEW e \in h.members, NEW f \in h.members
      PROVE  h.counts[e] <= h.counts[f] + 1
  <2> DEFINE m == h.members
             k == i % Cardinality(m)
  <2>1. PICK o \in Nat :
          h.counts[e] - Ahead(m, e, k) + Ahead(m, e, o) = h.counts[f] - Ahead(m, f, k) + Ahead(m, f, o)
    BY <1>1 DEF RoleLevel
  <2>2. /\ h.counts[e] \in Nat /\ h.counts[f] \in Nat /\ m \in EndpointSets
    BY <1>1 DEF RoleLevel
  <2>3. k \in Nat /\ Rank(m, e) \in Nat /\ Rank(m, f) \in Nat
    <3> HIDE DEF m
    <3>1. m \in SUBSET Nat /\ IsFiniteSet(m) /\ Cardinality(m) \in Nat \ {0}
      BY <2>2, EndpointSetShape
    <3>2. k \in 0 .. (Cardinality(m) - 1)
      BY <3>1, NextPosition
    <3>3. Rank(m, e) \in 0 .. (Cardinality(m) - 1) /\ Rank(m, f) \in 0 .. (Cardinality(m) - 1)
      BY <3>1, RankBelow DEF m
    <3> QED
      BY <3>1, <3>2, <3>3, SMTT(30)
  <2> HIDE DEF k, m
  <2> QED
    BY <2>1, <2>2, <2>3, SMT DEF Ahead
<1>2. RoleInv => RolesBalanced
  BY <1>1 DEF RoleInv, RolesBalanced
<1>3. RoleInv /\ [LogicsNext]_logicVars => RoleInv'
  BY RoleStep
<1> QED
  BY <1>2, <1>3, RoleInitially, PTL DEF LogicsSpec

-----------------------------------------------------------------------------
(* Sessions *)

\* A set of numbers below a bound has a least one.
LEMMA LeastMember ==
  ASSUME NEW b \in Nat, NEW V \in SUBSET (1 .. b), V # {}
  PROVE  \E v \in V : \A w \in V : v <= w
<1>1. V \in SUBSET Nat /\ IsFiniteSet(V) /\ Cardinality(V) \in Nat /\ Cardinality(V) # 0
  <2>1. IsFiniteSet(1 .. b)
    BY FS_Interval, SMT
  <2>2. IsFiniteSet(V)
    BY <2>1, FS_Subset
  <2>3. V \in SUBSET Nat
    BY SMT
  <2> QED
    BY <2>2, <2>3, FS_CardinalityType, FS_EmptySet
<1> DEFINE v == Nth(V, 0)
           below == {w \in V : w < v}
<1>2. v \in V /\ Rank(V, v) = 0
  <2>1. 0 \in 0 .. (Cardinality(V) - 1)
    BY <1>1, SMT
  <2> QED
    BY <1>1, <2>1, NthRank
<1>3. below = {}
  <2>1. below \in SUBSET V /\ Cardinality(below) = 0
    BY <1>2 DEF Rank
  <2> QED
    BY <1>1, <2>1, FS_Subset, FS_EmptySet
<1>4. \A w \in V : v <= w
  <2>1. \A w \in V : w \in Nat
    BY <1>1
  <2>2. v \in Nat
    BY <1>1, <1>2
  <2> HIDE DEF v
  <2> QED
    BY <1>3, <2>1, <2>2, SMT
<1> QED
  BY <1>2, <1>4

\* The ring meets one node of a set first.
LEMMA FirstNode ==
  ASSUME NEW ring \in EndpointSets, NEW s \in Sessions, preference \in [Sessions -> Orders]
  PROVE  /\ get_node(ring, s) \in ring
         /\ \A f \in ring : preference[s][get_node(ring, s)] <= preference[s][f]
         /\ \A e, f \in ring : /\ preference[s][e] \in Nat
                               /\ preference[s][e] = preference[s][f] => e = f
<1> DEFINE o == preference[s]
           N == Cardinality(Endpoints)
           V == {o[e] : e \in ring}
<1>1. o \in [Endpoints -> 1 .. N] /\ \A e, f \in Endpoints : o[e] = o[f] => e = f
  BY DEF Orders
<1>2. ring \in SUBSET Endpoints /\ ring # {} /\ N \in Nat
  BY EndpointSetShape, LogicsAssumption, FS_CardinalityType
<1> HIDE DEF o, N
<1>3. V \in SUBSET (1 .. N) /\ V # {}
  BY <1>1, <1>2, SMT
<1>4. \E v \in V : \A w \in V : v <= w
  <2> HIDE DEF V
  <2> QED
    BY <1>2, <1>3, LeastMember
<1>5. \E e \in ring : \A f \in ring : o[e] <= o[f]
  BY <1>4
<1>6. get_node(ring, s) \in ring /\ \A f \in ring : o[get_node(ring, s)] <= o[f]
  BY <1>5 DEF get_node, o
<1>7. \A e \in ring : o[e] \in Nat
  <2>1. \A e \in ring : o[e] \in 1 .. N
    BY <1>1, <1>2
  <2> QED
    BY <1>2, <2>1, SMT
<1> QED
  BY <1>1, <1>2, <1>6, <1>7 DEF o

\* A request of a session goes to the first node of its own set and is pinned there.
LEMMA SessionRouted ==
  ASSUME SessionInv, NEW urls \in EndpointSets, NEW s \in Sessions, NEW e \in Endpoints,
         Session_route_request(urls, s, e)
  PROVE  /\ preference \in [Sessions -> Orders] /\ e = get_node(urls, s)
         /\ decision'.urls = urls /\ decision'.chosen = e /\ decision'.session = s
         /\ pinned' = [pinned EXCEPT ![s] = [urls |-> urls, chosen |-> e]]
<1>1. s # NoSession
  BY LogicsAssumption
<1>2. hash_ring' = urls
  BY DEF Session_route_request, _update_hash_ring
<1>3. logic = "session"
  BY DEF Session_route_request, Decide
<1>4. e = get_node(hash_ring', s)
  BY <1>1 DEF Session_route_request
<1>5. decision'.urls = urls /\ decision'.chosen = e /\ decision'.session = s
  BY DEF Session_route_request, Decide, NoDecision
<1>6. pinned' = [pinned EXCEPT ![s] = [urls |-> urls, chosen |-> e]]
  BY <1>1 DEF Session_route_request
<1> QED
  BY <1>2, <1>3, <1>4, <1>5, <1>6 DEF SessionInv

LEMMA SessionStep ==
  ASSUME SessionInv, [LogicsNext]_logicVars
  PROVE  SessionInv'
<1>1. UNCHANGED <<logic, preference>>
  BY LogicsParts
<1>2. CASE UNCHANGED pinned
  BY <1>1, <1>2 DEF SessionInv, PinnedFirst
<1>3. ASSUME NEW urls \in EndpointSets, NEW s \in Sessions, NEW e \in Endpoints,
             Session_route_request(urls, s, e)
      PROVE  SessionInv'
  <2>1. /\ preference \in [Sessions -> Orders] /\ e = get_node(urls, s)
        /\ pinned' = [pinned EXCEPT ![s] = [urls |-> urls, chosen |-> e]]
    BY <1>3, SessionRouted
  <2>2. e \in urls /\ \A f \in urls : preference[s][e] <= preference[s][f]
    BY <2>1, FirstNode
  <2>3. /\ pinned' = [t \in Sessions |-> pinned'[t]]
        /\ pinned'[s] = [urls |-> urls, chosen |-> e]
        /\ \A t \in Sessions : t # s => pinned'[t] = pinned[t]
    BY <2>1 DEF SessionInv
  <2>4. ASSUME NEW t \in Sessions PROVE PinnedFirst(t)'
    <3>1. CASE t = s
      BY <1>1, <2>2, <2>3, <3>1, SMT DEF PinnedFirst
    <3>2. CASE t # s
      BY <1>1, <2>3, <3>2 DEF SessionInv, PinnedFirst
    <3> QED
      BY <3>1, <3>2
  <2> QED
    BY <1>1, <2>1, <2>3, <2>4 DEF SessionInv
<1> QED
  BY <1>2, <1>3, LogicsParts

LEMMA SessionInitially == LogicsInit => SessionInv
  BY SMTT(30) DEF LogicsInit, SessionInv, PinnedFirst

\* A session is served by an engine of its request's list, and moves only when its
\* engine is gone or to an engine that is new to it,
\* for any fleets, any positions on the ring and whatever other sessions did to
\* the ring in between.
THEOREM SessionsStick == LogicsSpec => SessionSticks
<1>1. SessionInv /\ [LogicsNext]_logicVars =>
        [\A s \in Sessions :
           (routed' # routed /\ decision'.session = s) =>
             /\ decision'.chosen \in decision'.urls
             /\ \/ decision'.chosen = pinned[s].chosen
                \/ pinned[s].chosen \notin decision'.urls
                \/ decision'.chosen \notin pinned[s].urls]_logicVars
  <2> SUFFICES ASSUME SessionInv, [LogicsNext]_logicVars, NEW s \in Sessions,
                      routed' # routed, decision'.session = s
               PROVE  /\ decision'.chosen \in decision'.urls
                      /\ pinned[s].chosen \in decision'.urls /\ decision'.chosen \in pinned[s].urls
                           => decision'.chosen = pinned[s].chosen
    OBVIOUS
  <2>1. s # NoSession
    BY LogicsAssumption
  <2>2. PICK urls \in EndpointSets, t \in Sessions, e \in Endpoints : Session_route_request(urls, t, e)
    BY <2>1, LogicsParts
  <2>3. /\ preference \in [Sessions -> Orders] /\ e = get_node(urls, t)
        /\ decision'.urls = urls /\ decision'.chosen = e /\ decision'.session = t
    BY <2>2, SessionRouted
  <2>4. e \in urls
    BY <2>3, FirstNode, SMTT(30)
  <2> DEFINE p == pinned[s].chosen
  <2>5. ASSUME p \in urls, e \in pinned[s].urls PROVE e = p
    <3>1. p # NoEndpoint
      BY <2>5, EndpointSetShape, PrefixAssumption
    <3>2. \A f \in pinned[s].urls : preference[s][p] <= preference[s][f]
      BY <3>1 DEF SessionInv, PinnedFirst
    <3>3. preference[s][p] <= preference[s][e]
      BY <2>5, <3>2
    <3>4. /\ preference[s][e] <= preference[s][p]
          /\ preference[s][e] \in Nat /\ preference[s][p] \in Nat
          /\ preference[s][e] = preference[s][p] => e = p
      BY <2>3, <2>4, <2>5, FirstNode, SMTT(30)
    <3>5. preference[s][e] = preference[s][p]
      BY <3>3, <3>4, SMTT(30)
    <3> QED
      BY <3>4, <3>5
  <2> QED
    BY <2>3, <2>4, <2>5
<1>2. SessionInv /\ [LogicsNext]_logicVars => SessionInv'
  BY SessionStep
<1> QED
  BY <1>1, <1>2, SessionInitially, PTL DEF LogicsSpec, SessionSticks

-----------------------------------------------------------------------------

\* Whichever logic a process runs, the trie takes only the steps of PrefixRouter,
\* so that what is proved of those holds of the composition.
THEOREM LogicsRunPrefixRouter == LogicsSpec => PrefixSpec
<1>1. LogicsInit => PrefixInit
  BY DEF LogicsInit
<1>2. [LogicsNext]_logicVars => [PrefixNext]_vars
  <2> SUFFICES ASSUME [LogicsNext]_logicVars PROVE PrefixNext \/ UNCHANGED vars
    OBVIOUS
  <2>1. ASSUME NEW l, NEW d, Decide(l, d) PROVE UNCHANGED vars
    BY <2>1 DEF Decide
  <2>2. ASSUME NEW urls, \/ RoundRobin_route_request(urls)
                         \/ \E load, priority : Priority_route_request(urls, load, priority)
                         \/ \E s, e : Session_route_request(urls, s, e)
                         \/ Orchestrated_select(urls)
                         \/ \E is_prefill : Disaggregated_route_request(urls, is_prefill)
        PROVE  UNCHANGED vars
    BY <2>1, <2>2 DEF RoundRobin_route_request, Priority_route_request, Session_route_request,
                      Orchestrated_select, Disaggregated_route_request
  <2>3. CASE PrefixAware
    BY <2>3 DEF PrefixAware
  <2>4. CASE UNCHANGED logicVars
    BY <2>4 DEF logicVars
  <2> QED
    BY <2>2, <2>3, <2>4, SMTT(30) DEF LogicsNext
<1> QED
  BY <1>1, <1>2, PTL DEF LogicsSpec, PrefixSpec

=============================================================================
