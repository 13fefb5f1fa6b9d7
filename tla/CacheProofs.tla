----------------------------- MODULE CacheProofs -----------------------------
(***************************************************************************)
(* Proofs about SemanticCache and CacheRouters, for any requests,          *)
(* conversations, models, fleets and registrations, and any number of      *)
(* crashes and failing writes.                                             *)
(***************************************************************************)
EXTENDS CacheRouters, SemanticCache, SequenceTheorems, FiniteSetTheorems, TLAPS

\* Leaves are left to Zenon; those that need arithmetic or sequences cite SMT.
USE Zenon

\* A list of embeddings and a list of entries that belong together.
Paired(x, y) == Len(x) = Len(y) /\ \A i \in DOMAIN x : y[i].conversation = x[i]

ListsOK ==
  /\ index \in Seq(Conversations) /\ metadata \in Seq(Entries)
  /\ index_file \subseteq Seq(Conversations) /\ metadata_file \subseteq Seq(Entries)

ChatsOK ==
  /\ DOMAIN chat = Chats
  /\ \A c \in Chats : chat[c].pc = "forwarded" =>
       chat[c].conversation \in Conversations /\ chat[c].model \in LLMs

\* The two files belong together except while a save is between them.
FilesPaired ==
  ~interrupted =>
    /\ Paired(index, metadata)
    /\ saving # "metadata" => \A x \in index_file, y \in metadata_file : Paired(x, y)

\* Where a save stands.
Progress ==
  /\ cacheProcess = "loading" => saving # "no"
  /\ cacheProcess = "down" => saving = "no"
  /\ saving = "metadata" => index_file = {index}
  /\ cacheProcess = "up" /\ saving = "no" /\ writeErrors = 0 =>
       index_file = {index} /\ metadata_file = {metadata}
  /\ writeErrors \in Nat

SemInv == ListsOK /\ ChatsOK /\ FilesPaired /\ Progress /\ HitsBelong

\* A file that can be read holds its list.
LEMMA TheListIn == ASSUME NEW f, f # {} PROVE TheList(f) \in f
BY DEF TheList

\* Storing an entry for its own conversation keeps the lists together.
LEMMA AppendPaired ==
  ASSUME NEW x \in Seq(Conversations), NEW y \in Seq(Entries), NEW a \in Conversations, NEW e \in Entries,
         Paired(x, y), e.conversation = a
  PROVE  Paired(Append(x, a), Append(y, e))
BY SMT DEF Paired

\* Nothing is cached at first.
LEMMA SemInitially == SemInit => SemInv
<1> SUFFICES ASSUME SemInit PROVE SemInv
  OBVIOUS
<1>1. ListsOK /\ ChatsOK
  BY SMT DEF SemInit, ListsOK, ChatsOK, Unreadable, Quiet
<1>2. FilesPaired /\ Progress
  <2>1. Paired(<<>>, <<>>)
    BY SMT DEF Paired
  <2>2. FilesPaired
    BY <2>1 DEF SemInit, FilesPaired, Unreadable
  <2>3. Progress
    BY DEF SemInit, Progress
  <2>4. QED
    BY <2>2, <2>3
<1>3. HitsBelong
  BY DEF SemInit, HitsBelong, Quiet
<1>4. QED
  BY <1>1, <1>2, <1>3 DEF SemInv

\* Every step keeps the lists, the requests and the files as they should be.
LEMMA FilesStep ==
  ASSUME SemInv, [SemNext]_semVars
  PROVE  ListsOK' /\ ChatsOK' /\ FilesPaired' /\ Progress'
<1> USE DEF SemInv, ListsOK, ChatsOK, FilesPaired, Progress
<1>1. CASE FAISSAdapter
  <2>1. Paired(<<>>, <<>>)
    BY SMT DEF Paired
  <2>2. CASE Readable
    <3>1. TheList(index_file) \in index_file /\ TheList(metadata_file) \in metadata_file
      BY <2>2, TheListIn DEF Readable, Unreadable
    <3>2. ListsOK'
      BY <1>1, <2>2, <3>1 DEF FAISSAdapter
    <3>3. ChatsOK'
      BY <1>1, <2>2, <3>1 DEF FAISSAdapter
    <3>4. FilesPaired'
      BY <1>1, <2>2, <3>1 DEF FAISSAdapter
    <3>5. Progress'
      BY <1>1, <2>2, <3>1 DEF FAISSAdapter
    <3>6. QED
      BY <3>2, <3>3, <3>4, <3>5
  <2>3. CASE ~Readable
    <3>1. ListsOK'
      BY <1>1, <2>1, <2>3, SMT DEF FAISSAdapter
    <3>2. ChatsOK'
      BY <1>1, <2>1, <2>3 DEF FAISSAdapter
    <3>3. FilesPaired'
      BY <1>1, <2>1, <2>3 DEF FAISSAdapter
    <3>4. Progress'
      BY <1>1, <2>1, <2>3 DEF FAISSAdapter
    <3>5. QED
      BY <3>1, <3>2, <3>3, <3>4
  <2>4. QED
    BY <2>2, <2>3
<1>2. CASE WriteIndex
  <2>1. ListsOK'
    BY <1>2 DEF WriteIndex, Saved, Unreadable
  <2>2. ChatsOK'
    BY <1>2 DEF WriteIndex, Saved, Unreadable
  <2>3. FilesPaired'
    BY <1>2 DEF WriteIndex, Saved, Unreadable
  <2>4. Progress'
    BY <1>2, SMT DEF WriteIndex, Saved, Unreadable
  <2>5. QED
    BY <2>1, <2>2, <2>3, <2>4
<1>3. CASE WriteMetadata
  <2>1. ListsOK'
    BY <1>3 DEF WriteMetadata, Saved, Unreadable
  <2>2. ChatsOK'
    BY <1>3 DEF WriteMetadata, Saved, Unreadable
  <2>3. FilesPaired'
    BY <1>3 DEF WriteMetadata, Saved, Unreadable
  <2>4. Progress'
    BY <1>3, SMT DEF WriteMetadata, Saved, Unreadable
  <2>5. QED
    BY <2>1, <2>2, <2>3, <2>4
<1>4. CASE Crash
  <2>1. Paired(<<>>, <<>>)
    BY SMT DEF Paired
  <2>2. ListsOK'
    BY <1>4, <2>1, SMT DEF Crash, Unreadable, Quiet
  <2>3. ChatsOK'
    BY <1>4, <2>1 DEF Crash, Unreadable, Quiet
  <2>4. FilesPaired'
    BY <1>4, <2>1 DEF Crash, Unreadable, Quiet
  <2>5. Progress'
    BY <1>4, <2>1 DEF Crash, Unreadable, Quiet
  <2>6. QED
    BY <2>2, <2>3, <2>4, <2>5
<1>5. ASSUME NEW c \in Chats, CheckCache(c)
      PROVE  ListsOK' /\ ChatsOK' /\ FilesPaired' /\ Progress'
  BY <1>5, SMT DEF CheckCache, LookupResults
<1>6. ASSUME NEW c \in Chats, NotStored(c)
      PROVE  ListsOK' /\ ChatsOK' /\ FilesPaired' /\ Progress'
  BY <1>6 DEF NotStored
<1>7. ASSUME NEW c \in Chats, NEW ok \in BOOLEAN, store_in_semantic_cache(c, ok)
      PROVE  ListsOK' /\ ChatsOK' /\ FilesPaired' /\ Progress'
  <2> DEFINE e == [conversation |-> chat[c].conversation, model |-> chat[c].model, ok |-> ok]
  <2>1. chat[c].conversation \in Conversations /\ chat[c].model \in LLMs
    BY <1>7 DEF store_in_semantic_cache
  <2>2. e \in Entries /\ e.conversation = chat[c].conversation
    BY <2>1 DEF Entries
  <2> HIDE DEF e
  <2>3. index' = Append(index, chat[c].conversation) /\ metadata' = Append(metadata, e)
    BY <1>7 DEF store_in_semantic_cache, store, e
  <2>4. ~interrupted => Paired(index', metadata')
    BY <2>1, <2>2, <2>3, AppendPaired
  <2>5. index' \in Seq(Conversations) /\ metadata' \in Seq(Entries)
    BY <2>1, <2>2, <2>3, SMT
  <2>6. QED
    BY <1>7, <2>4, <2>5 DEF store_in_semantic_cache, store
<1>8. CASE SemDone \/ UNCHANGED semVars
  BY <1>8 DEF SemDone, semVars
<1>9. QED
  BY <1>1, <1>2, <1>3, <1>4, <1>5, <1>6, <1>7, <1>8 DEF SemNext

\* Every step keeps the hits that were served where they belong.
LEMMA HitsStep ==
  ASSUME SemInv, [SemNext]_semVars
  PROVE  HitsBelong'
<1> USE DEF SemInv
<1>1. CASE FAISSAdapter \/ WriteIndex \/ WriteMetadata \/ SemDone \/ UNCHANGED semVars
  BY <1>1 DEF FAISSAdapter, WriteIndex, WriteMetadata, SemDone, semVars, HitsBelong, Progress
<1>2. CASE Crash
  BY <1>2 DEF Crash, Quiet, HitsBelong
<1>3. ASSUME NEW c \in Chats, CheckCache(c) PROVE HitsBelong'
  <2>1. CASE interrupted
    BY <1>3, <2>1 DEF CheckCache, HitsBelong
  <2>2. CASE ~interrupted
    <3>1. DOMAIN index = DOMAIN metadata /\ \A i \in DOMAIN index : metadata[i].conversation = index[i]
      BY <2>2, SMT DEF ListsOK, FilesPaired, Paired
    <3>2. \A x, t : Found(x, t) \subseteq DOMAIN index
      BY DEF Found, Nearest
    <3>3. PICK x \in Conversations, m \in LLMs, t \in Tolerances,
              mode \in {"plain", "stream", "skip"} :
            \E found \in (IF mode = "skip" \/ x = Wordless THEN {[pc |-> "miss"]}
                         ELSE LookupResults(x, m, t)) :
              chat' = [chat EXCEPT ![c] =
                         IF found.pc = "miss"
                         THEN [pc |-> "forwarded", conversation |-> x, model |-> m, stores |-> mode = "plain"]
                         ELSE found]
      BY <1>3 DEF CheckCache
    <3>4. PICK found \in (IF mode = "skip" \/ x = Wordless THEN {[pc |-> "miss"]}
                         ELSE LookupResults(x, m, t)) :
              chat' = [chat EXCEPT ![c] =
                         IF found.pc = "miss"
                         THEN [pc |-> "forwarded", conversation |-> x, model |-> m, stores |-> mode = "plain"]
                         ELSE found]
      BY <3>3
    <3>5. \/ found.pc = "miss"
          \/ \E i \in Found(x, t) : /\ metadata[i].model = m
                                    /\ found = [pc |-> "hit", conversation |-> x, model |-> m,
                                                tolerance |-> t, entry |-> metadata[i]]
      BY <3>1, <3>2, <3>4, SMT DEF LookupResults
    <3>6. \A i \in Found(x, t) : Distance(metadata[i].conversation, x) <= t
      BY <3>1, <3>2 DEF Found
    <3>7. found.pc # "miss" =>
            /\ found.pc = "hit" /\ found.entry.model = found.model
            /\ Distance(found.entry.conversation, found.conversation) <= found.tolerance
      BY <3>5, <3>6, SMT
    <3>8. \A d \in Chats : d # c => chat'[d] = chat[d]
      BY <3>4, SMT
    <3>9. chat'[c].pc = "forwarded" \/ (chat'[c] = found /\ found.pc # "miss")
      BY <3>4 DEF ChatsOK
    <3>10. QED
      BY <2>2, <3>7, <3>8, <3>9 DEF HitsBelong
  <2>3. QED
    BY <2>1, <2>2
<1>4. ASSUME NEW c \in Chats, NotStored(c) PROVE HitsBelong'
  BY <1>4 DEF NotStored, HitsBelong, ChatsOK
<1>5. ASSUME NEW c \in Chats, NEW ok \in BOOLEAN, store_in_semantic_cache(c, ok) PROVE HitsBelong'
  BY <1>5 DEF store_in_semantic_cache, HitsBelong, ChatsOK
<1>6. QED
  BY <1>1, <1>2, <1>3, <1>4, <1>5 DEF SemNext

\* The inductive invariant holds in every behaviour of the cache.
LEMMA SemInvariant == SemSpec => []SemInv
<1>1. SemInv /\ [SemNext]_semVars => SemInv'
  BY FilesStep, HitsStep DEF SemInv
<1>2. QED
  BY SemInitially, <1>1, PTL DEF SemSpec

\* Unless a save was cut between its two files, no lookup raises and a hit is the
\* response to a similar conversation with the same model (FAISSAdapter.search).
THEOREM LookupsSound == SemSpec => []HitsBelong
<1>1. SemInv => HitsBelong
  BY DEF SemInv
<1>2. QED
  BY SemInvariant, <1>1, PTL

\* Index and metadata stay position by position together, in memory and, after a
\* save, in the files (FAISSAdapter.store, save_index, load_index).
THEOREM StoresAligned == SemSpec => []Aligned
<1>1. SemInv => Aligned
  BY DEF SemInv, FilesPaired, Progress, Paired, Aligned
<1>2. QED
  BY SemInvariant, <1>1, PTL

-----------------------------------------------------------------------------
(* Routing by what the engines hold *)

\* What the lookup can answer: tokens of ids that have been registered.
LayoutOK(l, newest) == \A i \in DOMAIN l : i \in Nat /\ i <= newest /\ l[i] \in Nat

FleetOK ==
  /\ last_id \in Nat
  /\ registered \in [Urls -> Nat \ {0}]
  /\ \A u \in Urls : registered[u] <= last_id
  /\ \A u, v \in Urls : registered[u] = registered[v] => u = v
  /\ LayoutOK(kv_pool, last_id)

\* A live id was entered for its own url, and nothing was entered for that url after
\* it unless the controller had forgotten the engine.
MapOK ==
  /\ instance_id_to_ip \in Seq([id : Nat, url : Urls])
  /\ \A k \in DOMAIN instance_id_to_ip :
       /\ instance_id_to_ip[k].id <= last_id
       /\ \A u \in Urls : instance_id_to_ip[k].id = registered[u] => instance_id_to_ip[k].url = u
       /\ \A u \in Urls \ missed : instance_id_to_ip[k].id = registered[u] =>
            \A j \in DOMAIN instance_id_to_ip : instance_id_to_ip[j].url = u => j <= k

\* A request under way has candidates and their loads; an answer it holds is one
\* that the controller gave; a candidate it has asked is mapped, unless it was
\* forgotten then or has been registered anew since.
RequestOK(r) ==
  /\ pc[r] \in {"lookup", "refreshing", "queried"} =>
       /\ endpoints[r] \in SUBSET Urls /\ endpoints[r] # {}
       /\ request_stats[r] \in [endpoints[r] -> Nat]
  /\ pc[r] \in {"refreshing", "queried"} =>
       /\ LayoutOK(layout_info[r], last_id)
       /\ \A u \in endpoints[r] \ (todo[r] \cup missed) :
            registered[u] \in DOMAIN layout_info[r] => registered[u] \in MappedIds
  /\ pc[r] = "queried" => todo[r] = {}
  /\ pc[r] = "serving" => chosen[r] \in Urls

CacheShape ==
  /\ pc \in [Requests -> {"idle", "lookup", "refreshing", "queried", "serving"}]
  /\ DOMAIN endpoints = Requests /\ DOMAIN request_stats = Requests
  /\ DOMAIN layout_info = Requests /\ DOMAIN todo = Requests
  /\ DOMAIN chosen = Requests /\ DOMAIN by_cache = Requests

CacheInv == CacheShape /\ FleetOK /\ MapOK /\ \A r \in Requests : RequestOK(r)

\* A finite set that is strictly ordered has a first element.
LEMMA FirstOf ==
  ASSUME NEW S, IsFiniteSet(S), S # {}, NEW R,
         \A x \in S : <<x, x>> \notin R,
         \A x, y, z \in S : <<x, y>> \in R /\ <<y, z>> \in R => <<x, z>> \in R
  PROVE  \E x \in S : \A y \in S : <<y, x>> \notin R
<1> DEFINE before(x) == {y \in S : <<y, x>> \in R}
           T == {before(x) : x \in S}
<1>1. T \subseteq SUBSET S /\ T # {}
  <2>1. \A x \in S : before(x) \in SUBSET S
    OBVIOUS
  <2>2. PICK x : x \in S
    OBVIOUS
  <2>3. before(x) \in T
    BY <2>2
  <2>4. \A b \in T : b \in SUBSET S
    <3> HIDE DEF before
    <3> QED
      BY <2>1, SMT
  <2> HIDE DEF T, before
  <2> QED
    BY <2>3, <2>4
<1>2. IsWellFoundedOn(StrictSubsetOrdering(S), SUBSET S)
  BY FS_StrictSubsetOrderingWellFounded, FS_FiniteSubsetsOfFinite
<1>3. \E b \in T : \A c \in T : ~(<<c, b>> \in StrictSubsetOrdering(S))
  <2> HIDE DEF T
  <2> QED
    BY <1>1, <1>2, WFMin
<1>4. PICK x \in S : \A c \in T : ~(<<c, before(x)>> \in StrictSubsetOrdering(S))
  BY <1>3
<1>5. ASSUME NEW y \in S, <<y, x>> \in R PROVE FALSE
  <2>1. before(y) \subseteq before(x) /\ y \in before(x) /\ y \notin before(y)
    BY <1>5
  <2>2. <<before(y), before(x)>> \in StrictSubsetOrdering(S)
    BY <2>1 DEF StrictSubsetOrdering
  <2>3. before(y) \in T
    OBVIOUS
  <2> QED
    BY <1>4, <2>2, <2>3
<1> QED
  BY <1>5

\* The smaller and the larger of two numbers.
LEMMA MinMaxOfTwo ==
  ASSUME NEW a \in Int, NEW b \in Int
  PROVE  /\ Min({a, b}) = IF a <= b THEN a ELSE b
         /\ Max({a, b}) = IF a >= b THEN a ELSE b
<1>1. \E x \in {a, b} : \A y \in {a, b} : x <= y
  BY SMT
<1>2. Min({a, b}) \in {a, b} /\ \A y \in {a, b} : Min({a, b}) <= y
  BY <1>1 DEF Min
<1>3. \E x \in {a, b} : \A y \in {a, b} : x >= y
  BY SMT
<1>4. Max({a, b}) \in {a, b} /\ \A y \in {a, b} : Max({a, b}) >= y
  BY <1>3 DEF Max
<1> QED
  BY <1>2, <1>4, SMT

\* The score of a candidate, as select_url computes it.
Score(m, urls, loads, layout, u) ==
  score_endpoint(matched_tokens_by_url(m, layout, u), loads[u], total_load(urls, loads),
                 Cardinality(urls))

LEMMA ScoreTyped ==
  ASSUME NEW m, NEW urls \in SUBSET Urls, urls # {}, NEW loads \in [urls -> Nat],
         NEW layout, \A i \in DOMAIN layout : layout[i] \in Nat, NEW u \in urls
  PROVE  /\ Cardinality(urls) \in Nat \ {0} /\ total_load(urls, loads) \in Nat
         /\ matched_tokens_by_url(m, layout, u) \in Nat
         /\ Score(m, urls, loads, layout, u) \in Int
<1>1. IsFiniteSet(urls) /\ Cardinality(urls) \in Nat \ {0}
  BY CacheAssumption, FS_Subset, FS_CardinalityType, FS_EmptySet
<1>2. total_load(urls, loads) \in Nat
  <2> DEFINE n == Cardinality(Requests)
             A == urls \X (1 .. n)
             B == {p \in A : p[2] <= loads[p[1]]}
  <2>1. n \in Nat
    BY CacheAssumption, FS_CardinalityType
  <2>2. IsFiniteSet(1 .. n)
    BY <2>1, FS_Interval, SMT
  <2>3. IsFiniteSet(A)
    BY <1>1, <2>2, FS_Product
  <2>4. B \in SUBSET A
    OBVIOUS
  <2> HIDE DEF A
  <2>5. IsFiniteSet(B)
    BY <2>3, <2>4, FS_Subset
  <2>6. Cardinality(B) \in Nat
    BY <2>5, FS_CardinalityType
  <2> QED
    BY <2>6 DEF total_load, A
<1>3. matched_tokens_by_url(m, layout, u) \in Nat
  BY DEF matched_tokens_by_url
<1>4. /\ P \in Nat /\ beta[1] \in Int /\ beta[2] \in Int /\ loads[u] \in Nat
  BY CacheAssumption, SMT
<1>5. ASSUME NEW a \in Nat, NEW l \in Nat, NEW t \in Nat, NEW n \in Nat
      PROVE  score_endpoint(a, l, t, n) \in Int
  <2>1. Min({a, P}) \in Int /\ Max({t, n}) \in Int
    <3>1. a \in Int /\ P \in Int /\ t \in Int /\ n \in Int
      BY <1>4, SMT
    <3> QED
      BY <3>1, MinMaxOfTwo
  <2>2. relative_load(l, t, n) \in Int
    BY SMT DEF relative_load
  <2> QED
    BY <1>4, <2>1, <2>2, SMT DEF score_endpoint
<1> QED
  BY <1>1, <1>2, <1>3, <1>4, <1>5 DEF Score

\* select_url returns a candidate that no candidate beats.
LEMMA SelectBest ==
  ASSUME NEW m, NEW urls \in SUBSET Urls, urls # {}, NEW loads \in [urls -> Nat],
         NEW layout, \A i \in DOMAIN layout : layout[i] \in Nat
  PROVE  LET c == select_url(m, urls, loads, layout) IN
         /\ c \in urls
         /\ \A v \in urls : Score(m, urls, loads, layout, v) <= Score(m, urls, loads, layout, c)
<1> DEFINE s(u) == Score(m, urls, loads, layout, u)
           R == {p \in urls \X urls : s(p[1]) > s(p[2]) \/ (s(p[1]) = s(p[2]) /\ p[1] < p[2])}
           c == select_url(m, urls, loads, layout)
<1>1. \A u \in urls : s(u) \in Int /\ u \in Nat
  BY ScoreTyped, CacheAssumption
<1>2. IsFiniteSet(urls)
  BY CacheAssumption, FS_Subset
<1>3. c = CHOOSE u \in urls : \A v \in urls : s(v) < s(u) \/ (s(v) = s(u) /\ u <= v)
  BY DEF select_url, Score
<1> HIDE DEF s, c
<1>4. \A x, y \in urls : <<x, y>> \in R <=> s(x) > s(y) \/ (s(x) = s(y) /\ x < y)
  OBVIOUS
<1> HIDE DEF R
<1>5. \A x \in urls : <<x, x>> \notin R
  BY <1>1, <1>4, SMT
<1>6. \A x, y, z \in urls : <<x, y>> \in R /\ <<y, z>> \in R => <<x, z>> \in R
  BY <1>1, <1>4, SMT
<1>7. PICK x \in urls : \A y \in urls : <<y, x>> \notin R
  BY <1>2, <1>5, <1>6, FirstOf
<1>8. \A v \in urls : s(v) < s(x) \/ (s(v) = s(x) /\ x <= v)
  <2> SUFFICES ASSUME NEW v \in urls PROVE s(v) < s(x) \/ (s(v) = s(x) /\ x <= v)
    OBVIOUS
  <2>1. ~(s(v) > s(x)) /\ ~(s(v) = s(x) /\ v < x)
    BY <1>4, <1>7
  <2>2. s(v) \in Int /\ s(x) \in Int /\ v \in Nat /\ x \in Nat
    BY <1>1
  <2> QED
    BY <2>1, <2>2, SMT
<1>9. c \in urls /\ \A v \in urls : s(v) < s(c) \/ (s(v) = s(c) /\ c <= v)
  BY <1>3, <1>8
<1>10. \A v \in urls : s(v) <= s(c)
  BY <1>1, <1>9, SMT
<1> QED
  BY <1>9, <1>10 DEF s, c

\* An entry of the map is a record of an id and a url.
LEMMA MapEntries ==
  ASSUME MapOK, NEW k \in DOMAIN instance_id_to_ip
  PROVE  /\ instance_id_to_ip[k].id \in Nat /\ instance_id_to_ip[k].url \in Urls
         /\ k \in Nat
<1>1. instance_id_to_ip \in Seq([id : Nat, url : Urls])
  BY DEF MapOK
<1>2. \A x \in [id : Nat, url : Urls] : x.id \in Nat /\ x.url \in Urls
  OBVIOUS
<1>3. \A T : \A q \in Seq(T) : \A j \in DOMAIN q : q[j] \in T /\ j \in Nat
  BY SMT
<1> QED
  BY <1>1, <1>2, <1>3

\* A live id that is in the map is the one its url resolves to.
LEMMA Resolves ==
  ASSUME FleetOK, MapOK, NEW u \in Urls \ missed, registered[u] \in MappedIds
  PROVE  url_to_instance(instance_id_to_ip, u) = registered[u]
<1> DEFINE m == instance_id_to_ip
           at == {k \in DOMAIN m : m[k].url = u}
<1>1. PICK k \in DOMAIN m : m[k].id = registered[u]
  BY DEF MappedIds
<1>2. k \in at
  BY <1>1 DEF MapOK
<1>3. \A j \in at : j <= k
  BY <1>1 DEF MapOK
<1>4. \A x \in at : (\A j \in at : j <= x) => x = k
  BY <1>1, <1>2, <1>3, MapEntries, SMT
<1>5. (CHOOSE x \in at : \A j \in at : j <= x) = k
  BY <1>2, <1>3, <1>4
<1> QED
  BY <1>1, <1>2, <1>5 DEF url_to_instance

\* The same of the state after a step.
Resolved == \A u \in Urls \ missed : registered[u] \in MappedIds =>
                               url_to_instance(instance_id_to_ip, u) = registered[u]

LEMMA ResolvedAll == FleetOK /\ MapOK => Resolved
BY Resolves DEF Resolved

LEMMA ResolvedNext == FleetOK' /\ MapOK' => Resolved'
BY ResolvedAll, PTL

\* The id that is entered for u: its own, or the None of a forgotten engine.
Entered(u, i) ==
  \/ i = registered[u] /\ missed' = missed
  \/ i = 0 /\ missed' = missed \cup {u}

\* Asking an endpoint for its id leaves the map in order and with that id in it.
LEMMA WrittenOK ==
  ASSUME FleetOK, MapOK, NEW u \in Urls, UNCHANGED <<registered, last_id>>,
         NEW i, Entered(u, i),
         instance_id_to_ip' = Written(instance_id_to_ip, i, u)
  PROVE  MapOK' /\ MappedIds' = MappedIds \cup {i}
<1> DEFINE m == instance_id_to_ip
           x == [id |-> i, url |-> u]
           Entry == [id : Nat, url : Urls]
<1>1. m \in Seq(Entry) /\ i \in Nat /\ i <= last_id
  <2>1. registered[u] \in Nat /\ registered[u] <= last_id /\ last_id \in Nat
    BY SMT DEF FleetOK
  <2>2. i = registered[u] \/ i = 0
    BY DEF Entered
  <2>3. i \in Nat /\ i <= last_id
    BY <2>1, <2>2, SMT
  <2> QED
    BY <2>3 DEF MapOK
<1>2. \A v \in Urls : i = registered[v] => v = u /\ missed' = missed
  <2>1. \A v \in Urls : registered[v] # 0
    BY DEF FleetOK
  <2> QED
    BY <2>1 DEF Entered, FleetOK
<1>3. \A v \in Urls \ missed' : v \notin missed /\ (v = u => i = registered[u])
  BY DEF Entered
<1>4. x \in Entry /\ x.id = i /\ x.url = u
  BY <1>1
<1>5. PICK n \in Nat : n = Len(m) /\ DOMAIN m = 1 .. n
  BY <1>1, SMT
<1>6. \A k \in 1 .. n :
        /\ m[k] \in Entry /\ m[k].id \in Nat /\ m[k].url \in Urls /\ m[k].id <= last_id
        /\ \A v \in Urls : m[k].id = registered[v] => m[k].url = v
        /\ \A v \in Urls \ missed : m[k].id = registered[v] =>
             \A j \in 1 .. n : m[j].url = v => j <= k
  <2>1. \A k \in 1 .. n : m[k] \in Entry
    <3>1. \A T : \A q \in Seq(T) : \A k \in DOMAIN q : q[k] \in T
      BY SMT
    <3> QED
      BY <1>1, <1>5, <3>1
  <2> QED
    BY <1>5, <2>1, MapEntries DEF MapOK
<1>7. CASE i \in MappedIds
  <2>1. instance_id_to_ip' = [k \in 1 .. n |-> IF m[k].id = i THEN x ELSE m[k]]
    BY <1>5, <1>7 DEF Written, MappedIds
  <2>2. \A k \in 1 .. n : instance_id_to_ip'[k] = IF m[k].id = i THEN x ELSE m[k]
    BY <2>1
  <2>3. /\ DOMAIN instance_id_to_ip' = 1 .. n
        /\ \A k \in 1 .. n : /\ instance_id_to_ip'[k] \in Entry
                             /\ instance_id_to_ip'[k].id = m[k].id
                             /\ \/ instance_id_to_ip'[k].url = m[k].url
                                \/ m[k].id = i /\ instance_id_to_ip'[k].url = u
    BY <1>4, <1>6, <2>1, <2>2
  <2>4. instance_id_to_ip' \in Seq(Entry)
    <3>1. instance_id_to_ip' \in [1 .. n -> Entry]
      <4> HIDE DEF x, Entry
      <4> QED
        BY <2>1, <2>3
    <3>2. \A T : \A f \in [1 .. n -> T] : f \in Seq(T)
      BY <1>5, SeqDef
    <3> QED
      BY <3>1, <3>2
  <2>5. ASSUME NEW k \in 1 .. n
        PROVE  /\ instance_id_to_ip'[k].id <= last_id
               /\ \A v \in Urls : instance_id_to_ip'[k].id = registered[v] =>
                                    instance_id_to_ip'[k].url = v
    <3>1. instance_id_to_ip'[k].id <= last_id
      BY <1>6, <2>3
    <3>2. ASSUME NEW v \in Urls, m[k].id = registered[v]
          PROVE  instance_id_to_ip'[k].url = v
      <4>1. m[k].url = v /\ (m[k].id = i => u = v)
        BY <1>2, <1>6, <3>2
      <4> QED
        BY <2>3, <4>1
    <3> QED
      BY <2>3, <3>1, <3>2
  <2>6. ASSUME NEW k \in 1 .. n, NEW v \in Urls \ missed', instance_id_to_ip'[k].id = registered[v],
               NEW j \in 1 .. n, instance_id_to_ip'[j].url = v
        PROVE  j <= k
    <3>1. m[k].id = registered[v] /\ v \notin missed
      BY <1>3, <2>3, <2>6
    <3>2. m[j].url = v
      <4>1. CASE instance_id_to_ip'[j].url = m[j].url
        BY <2>6, <4>1
      <4>2. CASE m[j].id = i /\ instance_id_to_ip'[j].url = u
        <5>1. i = registered[v]
          BY <1>3, <2>6, <4>2
        <5> QED
          BY <1>6, <4>2, <5>1
      <4> QED
        BY <2>3, <4>1, <4>2
    <3> QED
      BY <1>6, <3>1, <3>2
  <2>7. MapOK'
    BY <2>3, <2>4, <2>5, <2>6 DEF MapOK
  <2>8. MappedIds' = MappedIds
    <3>1. \A y \in MappedIds' : y \in MappedIds
      BY <1>5, <2>3 DEF MappedIds
    <3>2. \A y \in MappedIds : y \in MappedIds'
      BY <1>5, <2>3 DEF MappedIds
    <3> QED
      BY <3>1, <3>2
  <2> QED
    BY <1>7, <2>7, <2>8
<1>8. CASE i \notin MappedIds
  <2>1. instance_id_to_ip' = Append(m, x)
    BY <1>8 DEF Written, MappedIds
  <2>2. /\ instance_id_to_ip' \in Seq(Entry)
        /\ DOMAIN instance_id_to_ip' = 1 .. (n + 1)
        /\ \A k \in 1 .. n : instance_id_to_ip'[k] = m[k]
        /\ instance_id_to_ip'[n + 1] = x
    <3>1. x \in Entry
      BY <1>4
    <3> HIDE DEF x
    <3> QED
      BY <1>1, <1>5, <2>1, <3>1, AppendProperties, SMT
  <2>3. instance_id_to_ip'[n + 1].id = i /\ instance_id_to_ip'[n + 1].url = u
    BY <1>4, <2>2
  <2>4. \A k \in 1 .. n : m[k].id # i
    BY <1>5, <1>8 DEF MappedIds
  <2>5. ASSUME NEW k \in 1 .. (n + 1) PROVE k \in 1 .. n \/ k = n + 1
    BY SMT
  <2>6. ASSUME NEW k \in 1 .. (n + 1)
        PROVE  /\ instance_id_to_ip'[k].id <= last_id
               /\ \A v \in Urls : instance_id_to_ip'[k].id = registered[v] =>
                                    instance_id_to_ip'[k].url = v
    <3>1. CASE k \in 1 .. n
      <4>1. instance_id_to_ip'[k] = m[k]
        BY <2>2, <3>1
      <4>2. m[k].id <= last_id /\ \A v \in Urls : m[k].id = registered[v] => m[k].url = v
        BY <1>6, <3>1
      <4> QED
        BY <4>1, <4>2
    <3>2. CASE k = n + 1
      BY <1>1, <1>2, <2>3, <3>2
    <3> QED
      BY <2>5, <3>1, <3>2
  <2>7. ASSUME NEW k \in 1 .. (n + 1), NEW v \in Urls \ missed',
               instance_id_to_ip'[k].id = registered[v],
               NEW j \in 1 .. (n + 1), instance_id_to_ip'[j].url = v
        PROVE  j <= k
    <3>1. CASE k = n + 1
      BY <3>1, SMT
    <3>2. CASE k \in 1 .. n /\ j \in 1 .. n
      BY <1>3, <1>6, <2>2, <2>7, <3>2
    <3>3. CASE k \in 1 .. n /\ j = n + 1
      <4>1. v = u
        BY <2>3, <2>7, <3>3
      <4>2. i = registered[v]
        BY <1>3, <4>1
      <4> QED
        BY <2>2, <2>4, <2>7, <3>3, <4>2
    <3> QED
      BY <2>5, <3>1, <3>2, <3>3
  <2>8. MapOK'
    BY <2>2, <2>6, <2>7 DEF MapOK
  <2>9. MappedIds' = MappedIds \cup {i}
    <3>1. \A y \in MappedIds' : y \in MappedIds \cup {i}
      <4> SUFFICES ASSUME NEW k \in 1 .. (n + 1)
                   PROVE  instance_id_to_ip'[k].id \in MappedIds \cup {i}
        BY <2>2 DEF MappedIds
      <4> QED
        BY <1>5, <2>2, <2>3, <2>5 DEF MappedIds
    <3>2. 1 .. n \subseteq 1 .. (n + 1) /\ n + 1 \in 1 .. (n + 1)
      BY SMT
    <3>3. \A y \in MappedIds : y \in MappedIds'
      BY <1>5, <2>2, <3>2 DEF MappedIds
    <3>4. i \in MappedIds'
      BY <2>2, <2>3, <3>2 DEF MappedIds
    <3> QED
      BY <3>1, <3>3, <3>4
  <2> QED
    BY <2>8, <2>9
<1> QED
  BY <1>7, <1>8

-----------------------------------------------------------------------------

\* The fleet and the map only grow: a url keeps its id, and stays missed, or gets a
\* fresh id.
Grows ==
  /\ last_id \in Nat /\ last_id' \in Nat /\ last_id <= last_id'
  /\ \A u \in Urls : \/ registered'[u] = registered[u] /\ (u \in missed => u \in missed')
                     \/ ~(registered'[u] <= last_id)
  /\ MappedIds \subseteq MappedIds'

SameLocals(s) ==
  /\ pc'[s] = pc[s] /\ endpoints'[s] = endpoints[s] /\ request_stats'[s] = request_stats[s]
  /\ layout_info'[s] = layout_info[s] /\ todo'[s] = todo[s] /\ chosen'[s] = chosen[s]

\* A request that does not move is not disturbed by the growth of fleet and map.
LEMMA RequestFrame ==
  ASSUME NEW s \in Requests, Grows, SameLocals(s), RequestOK(s)
  PROVE  RequestOK(s)'
<1>1. pc'[s] \in {"lookup", "refreshing", "queried"} =>
        /\ endpoints'[s] \in SUBSET Urls /\ endpoints'[s] # {}
        /\ request_stats'[s] \in [endpoints'[s] -> Nat]
  BY DEF SameLocals, RequestOK
<1>2. ASSUME pc'[s] \in {"refreshing", "queried"}
      PROVE  /\ \A i \in DOMAIN layout_info'[s] :
                  i \in Nat /\ i <= last_id' /\ layout_info'[s][i] \in Nat
             /\ \A u \in endpoints'[s] \ (todo'[s] \cup missed') :
                  registered'[u] \in DOMAIN layout_info'[s] => registered'[u] \in MappedIds'
  <2>1. /\ LayoutOK(layout_info[s], last_id)
        /\ \A u \in endpoints[s] \ (todo[s] \cup missed) :
             registered[u] \in DOMAIN layout_info[s] => registered[u] \in MappedIds
        /\ endpoints[s] \in SUBSET Urls
    BY <1>2 DEF SameLocals, RequestOK
  <2>2. \A i \in DOMAIN layout_info[s] : i \in Nat /\ i <= last_id /\ layout_info[s][i] \in Nat
    BY <2>1 DEF LayoutOK
  <2>3. \A i \in DOMAIN layout_info[s] : i <= last_id'
    BY <2>2, SMT DEF Grows
  <2>4. \A u \in endpoints[s] \ (todo[s] \cup missed') :
          registered'[u] \in DOMAIN layout_info[s] => registered'[u] \in MappedIds'
    BY <2>1, <2>2 DEF Grows
  <2> QED
    BY <2>2, <2>3, <2>4 DEF SameLocals
<1>3. /\ pc'[s] = "queried" => todo'[s] = {}
      /\ pc'[s] = "serving" => chosen'[s] \in Urls
  BY DEF SameLocals, RequestOK
<1> QED
  BY <1>1, <1>2, <1>3 DEF RequestOK, LayoutOK

\* The fleet and the map are left alone.
SameFleet == UNCHANGED <<fleetVars, instance_id_to_ip, missed>>

LEMMA FleetFrame ==
  ASSUME FleetOK, MapOK, SameFleet
  PROVE  FleetOK' /\ MapOK' /\ Grows
<1>1. UNCHANGED <<registered, last_id, kv_pool, instance_id_to_ip, missed>>
  BY DEF SameFleet, fleetVars
<1>2. FleetOK' /\ MapOK' /\ MappedIds' = MappedIds
  BY <1>1 DEF FleetOK, MapOK, MappedIds, LayoutOK
<1>3. last_id \in Nat
  BY DEF FleetOK
<1> QED
  BY <1>1, <1>2, <1>3, SMT DEF Grows

\* The invariant after a step of one request, from what the step did to it.
LEMMA OneMoves ==
  ASSUME CacheInv, NEW r \in Requests, CacheShape', FleetOK', MapOK', Grows,
         \A s \in Requests : s # r => SameLocals(s), RequestOK(r)'
  PROVE  CacheInv'
<1>1. ASSUME NEW s \in Requests PROVE RequestOK(s)'
  <2>1. CASE s = r
    BY <2>1
  <2>2. CASE s # r
    BY <2>2, RequestFrame DEF CacheInv
  <2> QED
    BY <2>1, <2>2
<1> QED
  BY <1>1 DEF CacheInv

\* Sending a request to a url of the fleet.
LEMMA SendMoves ==
  ASSUME CacheInv, NEW r \in Requests, NEW u \in Urls, NEW b, Send(r, u, b),
         UNCHANGED endpoints, UNCHANGED todo \/ \E x : todo' = [todo EXCEPT ![r] = x],
         FleetOK', MapOK', Grows
  PROVE  CacheInv'
<1>1. CacheShape
  BY DEF CacheInv
<1>2. CacheShape' /\ pc'[r] = "serving" /\ chosen'[r] = u
  BY <1>1 DEF CacheShape, Send
<1>3. \A s \in Requests : s # r => SameLocals(s)
  BY <1>1 DEF CacheShape, Send, SameLocals
<1>4. RequestOK(r)'
  BY <1>2 DEF RequestOK
<1> QED
  BY <1>2, <1>3, <1>4, OneMoves

\* A choice sends the request to one of its candidates.
LEMMA ChoiceSends ==
  ASSUME NEW r \in Requests, endpoints[r] \in SUBSET Urls, endpoints[r] # {},
         request_stats[r] \in [endpoints[r] -> Nat],
         NEW m, \A k \in DOMAIN m : m[k].url \in Urls,
         NEW layout, \A i \in DOMAIN layout : layout[i] \in Nat,
         Choice(r, m, layout)
  PROVE  \E b : \E u \in Urls : Send(r, u, b)
<1>1. CASE cache_logic = "kvaware"
  <2>1. KvawareChoice(r, m, layout)
    BY <1>1 DEF Choice
  <2> QED
    BY <2>1 DEF KvawareChoice, fallback_url
<1>2. CASE cache_logic # "kvaware"
  <2>1. Send(r, select_url(m, endpoints[r], request_stats[r], layout), TRUE)
    BY <1>2 DEF Choice, LoadAwareChoice
  <2>2. select_url(m, endpoints[r], request_stats[r], layout) \in endpoints[r]
    BY SelectBest
  <2> QED
    BY <2>1, <2>2
<1> QED
  BY <1>1, <1>2

LEMMA CacheInitially == CacheInit => CacheInv
<1> SUFFICES ASSUME CacheInit PROVE CacheInv
  OBVIOUS
<1> DEFINE upto(u) == {v \in Urls : v <= u}
<1>1. IsFiniteSet(Urls) /\ Urls \subseteq Nat
  BY CacheAssumption
<1>2. \A u \in Urls : /\ IsFiniteSet(upto(u)) /\ Cardinality(upto(u)) \in Nat
                      /\ Cardinality(upto(u)) <= Cardinality(Urls)
                      /\ Cardinality(upto(u)) # 0
  <2> SUFFICES ASSUME NEW u \in Urls
               PROVE  /\ IsFiniteSet(upto(u)) /\ Cardinality(upto(u)) \in Nat
                      /\ Cardinality(upto(u)) <= Cardinality(Urls)
                      /\ Cardinality(upto(u)) # 0
    OBVIOUS
  <2>1. upto(u) \in SUBSET Urls
    OBVIOUS
  <2>2. u \in upto(u)
    BY <1>1, SMT
  <2>3. upto(u) # {}
    BY <2>2
  <2> HIDE DEF upto
  <2>4. IsFiniteSet(upto(u))
    BY <1>1, <2>1, FS_Subset
  <2>5. Cardinality(upto(u)) # 0
    BY <2>3, <2>4, FS_EmptySet
  <2> QED
    BY <1>1, <2>1, <2>4, <2>5, FS_Subset, FS_CardinalityType
<1>3. ASSUME NEW u \in Urls, NEW v \in Urls, u < v
      PROVE  Cardinality(upto(u)) # Cardinality(upto(v))
  <2>1. upto(u) \in SUBSET upto(v) /\ upto(u) # upto(v)
    <3>1. u \in Nat /\ v \in Nat /\ \A w \in Urls : w \in Nat
      BY <1>1
    <3>2. v \in upto(v) /\ v \notin upto(u)
      BY <1>3, <3>1, SMT
    <3>3. \A w \in Urls : w <= u => w <= v
      BY <1>3, <3>1, SMT
    <3>4. upto(u) \in SUBSET upto(v)
      BY <3>3
    <3> QED
      BY <3>2, <3>4
  <2> HIDE DEF upto
  <2>2. Cardinality(upto(u)) < Cardinality(upto(v))
    BY <1>2, <2>1, FS_Subset, SMT
  <2> QED
    BY <1>2, <2>2, SMT
<1>4. \A u \in Urls : registered[u] = Cardinality(upto(u))
  BY DEF CacheInit
<1>5. Cardinality(Urls) \in Nat
  BY <1>1, FS_CardinalityType
<1>6. registered = [u \in Urls |-> Cardinality(upto(u))] /\ last_id = Cardinality(Urls)
  BY DEF CacheInit
<1> HIDE DEF upto
<1>7. \A u, v \in Urls : registered[u] = registered[v] => u = v
  <2> SUFFICES ASSUME NEW u \in Urls, NEW v \in Urls, registered[u] = registered[v], u # v
               PROVE  FALSE
    OBVIOUS
  <2>1. u < v \/ v < u
    BY <1>1, SMT
  <2> QED
    BY <1>3, <1>4, <2>1
<1>8. LayoutOK(kv_pool, last_id)
  BY DEF CacheInit, LayoutOK, Nothing
<1>9. FleetOK
  BY <1>2, <1>5, <1>6, <1>7, <1>8 DEF FleetOK
<1>10. MapOK
  <2>1. instance_id_to_ip = <<>>
    BY DEF CacheInit
  <2>2. instance_id_to_ip \in Seq([id : Nat, url : Urls]) /\ DOMAIN instance_id_to_ip = {}
    BY <2>1, SMT
  <2> QED
    BY <2>2 DEF MapOK
<1>11. CacheShape /\ \A r \in Requests : pc[r] = "idle"
  BY DEF CacheInit, CacheShape
<1>12. \A r \in Requests : RequestOK(r)
  BY <1>11 DEF RequestOK
<1> QED
  BY <1>9, <1>10, <1>11, <1>12 DEF CacheInv

\* An engine starts: its id is fresh, and no entry of the map bears it.
LEMMA RegisterKeeps ==
  ASSUME CacheInv, NEW u \in Urls, Register(u) PROVE CacheInv'
<1>1. /\ last_id' = last_id + 1 /\ registered' = [registered EXCEPT ![u] = last_id + 1]
      /\ UNCHANGED <<kv_pool, instance_id_to_ip>> /\ missed' = missed \ {u}
      /\ UNCHANGED <<pc, endpoints, request_stats, layout_info, todo, chosen, by_cache>>
  BY DEF Register, localVars
<1>2. /\ last_id \in Nat /\ registered \in [Urls -> Nat \ {0}]
      /\ \A v \in Urls : registered[v] <= last_id
      /\ \A v, w \in Urls : registered[v] = registered[w] => v = w
      /\ LayoutOK(kv_pool, last_id)
  BY DEF CacheInv, FleetOK
<1>3. /\ registered' \in [Urls -> Nat \ {0}] /\ last_id' \in Nat /\ registered'[u] = last_id + 1
      /\ \A v \in Urls : v # u => registered'[v] = registered[v]
  BY <1>1, <1>2, SMT
<1>4. FleetOK'
  <2>1. \A v \in Urls : registered'[v] <= last_id'
    BY <1>1, <1>2, <1>3, SMT
  <2>2. \A v, w \in Urls : registered'[v] = registered'[w] => v = w
    BY <1>1, <1>2, <1>3, SMT
  <2>3. \A i \in DOMAIN kv_pool : i \in Nat /\ i <= last_id' /\ kv_pool[i] \in Nat
    BY <1>1, <1>2, SMT DEF LayoutOK
  <2>4. LayoutOK(kv_pool, last_id)'
    BY <1>1, <2>3 DEF LayoutOK
  <2> QED
    BY <1>3, <2>1, <2>2, <2>4 DEF FleetOK
<1>5. MapOK'
  <2>1. MapOK
    BY DEF CacheInv
  <2>2. ASSUME NEW k \in DOMAIN instance_id_to_ip
        PROVE  /\ instance_id_to_ip[k].id <= last_id + 1
               /\ \A v \in Urls : instance_id_to_ip[k].id = registered'[v] =>
                                    v # u /\ instance_id_to_ip[k].id = registered[v]
    <3>1. instance_id_to_ip[k].id \in Nat /\ instance_id_to_ip[k].id <= last_id
      BY <2>1, MapEntries DEF MapOK
    <3>2. instance_id_to_ip[k].id # last_id + 1 /\ instance_id_to_ip[k].id <= last_id + 1
      BY <1>2, <3>1, SMT
    <3> QED
      BY <1>3, <3>2
  <2>3. \A v \in Urls \ missed' : v # u => v \in Urls \ missed
    BY <1>1
  <2>4. ASSUME NEW k \in DOMAIN instance_id_to_ip, NEW v \in Urls,
               instance_id_to_ip[k].id = registered'[v]
        PROVE  /\ instance_id_to_ip[k].url = v
               /\ v \notin missed' =>
                    \A j \in DOMAIN instance_id_to_ip : instance_id_to_ip[j].url = v => j <= k
    <3>1. v # u /\ instance_id_to_ip[k].id = registered[v]
      BY <2>2, <2>4
    <3> QED
      BY <2>1, <2>3, <3>1 DEF MapOK
  <2>5. instance_id_to_ip \in Seq([id : Nat, url : Urls])
    BY <2>1 DEF MapOK
  <2> QED
    BY <1>1, <2>2, <2>4, <2>5 DEF MapOK
<1>6. Grows
  <2>1. MappedIds' = MappedIds
    BY <1>1 DEF MappedIds
  <2>2. ~(registered'[u] <= last_id)
    BY <1>2, <1>3, SMT
  <2>3. \A v \in Urls : \/ registered'[v] = registered[v] /\ (v \in missed => v \in missed')
                        \/ ~(registered'[v] <= last_id)
    BY <1>1, <1>3, <2>2
  <2>4. last_id <= last_id'
    BY <1>1, <1>2, SMT
  <2> QED
    BY <1>2, <1>3, <2>1, <2>3, <2>4 DEF Grows
<1>7. CacheShape'
  BY <1>1 DEF CacheInv, CacheShape
<1>8. \A s \in Requests : SameLocals(s)
  BY <1>1 DEF SameLocals
<1>9. \A s \in Requests : RequestOK(s)'
  BY <1>6, <1>8, RequestFrame DEF CacheInv
<1> QED
  BY <1>4, <1>5, <1>7, <1>9 DEF CacheInv

\* The controller forgets an engine, or it registers again under its id.
LEMMA TimeoutKeeps ==
  ASSUME CacheInv, NEW u \in Urls, WorkerTimesOut(u) \/ Reregister(u) PROVE CacheInv'
<1>1. /\ UNCHANGED <<registered, last_id, kv_pool, instance_id_to_ip, missed>>
      /\ UNCHANGED <<pc, endpoints, request_stats, layout_info, todo, chosen, by_cache>>
  BY DEF WorkerTimesOut, Reregister, localVars
<1>2. CacheShape /\ FleetOK /\ MapOK
  BY DEF CacheInv
<1>3. CacheShape' /\ \A s \in Requests : SameLocals(s)
  BY <1>1, <1>2 DEF CacheShape, SameLocals
<1>4. FleetOK' /\ MapOK' /\ MappedIds' = MappedIds
  BY <1>1, <1>2 DEF FleetOK, MapOK, MappedIds, LayoutOK
<1>5. last_id \in Nat /\ last_id <= last_id'
  BY <1>1, <1>2, SMT DEF FleetOK
<1>6. Grows
  BY <1>1, <1>4, <1>5 DEF Grows
<1>7. \A s \in Requests : RequestOK(s)'
  BY <1>3, <1>6, RequestFrame DEF CacheInv
<1> QED
  BY <1>3, <1>4, <1>7 DEF CacheInv

\* A request ends: the controller learns what a registered engine holds.
LEMMA FinishKeeps ==
  ASSUME CacheInv, NEW r \in Requests, NEW n \in Nat, Finish(r, n) PROVE CacheInv'
<1>1. /\ UNCHANGED <<registered, last_id, instance_id_to_ip, request_stats, layout_info, todo>>
      /\ UNCHANGED missed
      /\ pc' = [pc EXCEPT ![r] = "idle"] /\ chosen' = [chosen EXCEPT ![r] = NoUrl]
      /\ by_cache' = [by_cache EXCEPT ![r] = FALSE]
      /\ endpoints' = [endpoints EXCEPT ![r] = {}]
      /\ kv_pool' = [i \in DOMAIN kv_pool \cup {registered[chosen[r]]} |->
                       IF i = registered[chosen[r]] THEN n ELSE kv_pool[i]]
      /\ pc[r] = "serving"
  BY DEF Finish
<1>2. CacheShape /\ FleetOK /\ MapOK /\ chosen[r] \in Urls
  BY <1>1 DEF CacheInv, RequestOK
<1>3. CacheShape' /\ pc'[r] = "idle" /\ \A s \in Requests : s # r => SameLocals(s)
  BY <1>1, <1>2 DEF CacheShape, SameLocals
<1>4. FleetOK'
  <2>1. registered[chosen[r]] \in Nat /\ registered[chosen[r]] <= last_id
    BY <1>2 DEF FleetOK
  <2>2. \A i \in DOMAIN kv_pool : i \in Nat /\ i <= last_id /\ kv_pool[i] \in Nat
    BY <1>2 DEF FleetOK, LayoutOK
  <2>3. \A i \in DOMAIN kv_pool' : i \in Nat /\ i <= last_id /\ kv_pool'[i] \in Nat
    BY <1>1, <2>1, <2>2
  <2>4. LayoutOK(kv_pool, last_id)'
    BY <1>1, <2>3 DEF LayoutOK
  <2> QED
    BY <1>1, <1>2, <2>4 DEF FleetOK
<1>5. MapOK' /\ Grows
  <2>1. MapOK' /\ MappedIds' = MappedIds
    BY <1>1, <1>2 DEF MapOK, MappedIds
  <2>2. last_id \in Nat
    BY <1>2 DEF FleetOK
  <2> QED
    BY <1>1, <2>1, <2>2, SMT DEF Grows
<1>6. RequestOK(r)'
  BY <1>3 DEF RequestOK
<1> QED
  BY <1>3, <1>4, <1>5, <1>6, OneMoves

LEMMA ArriveKeeps ==
  ASSUME CacheInv, NEW r \in Requests, NEW urls \in (SUBSET Urls) \ {{}}, Arrive(r, urls)
  PROVE  CacheInv'
<1>1. /\ SameFleet /\ UNCHANGED <<layout_info, todo, chosen, by_cache>>
      /\ pc' = [pc EXCEPT ![r] = "lookup"] /\ endpoints' = [endpoints EXCEPT ![r] = urls]
      /\ request_stats' = [request_stats EXCEPT ![r] = [u \in urls |-> Load(u)]]
  BY DEF Arrive, SameFleet
<1>2. CacheShape /\ FleetOK /\ MapOK
  BY DEF CacheInv
<1>3. \A u \in urls : Load(u) \in Nat
  <2> SUFFICES ASSUME NEW u \in urls PROVE Load(u) \in Nat
    OBVIOUS
  <2> DEFINE S == {s \in Requests : pc[s] = "serving" /\ chosen[s] = u}
  <2>1. S \in SUBSET Requests /\ IsFiniteSet(Requests)
    BY CacheAssumption
  <2> HIDE DEF S
  <2>2. Cardinality(S) \in Nat
    BY <2>1, FS_Subset, FS_CardinalityType
  <2> QED
    BY <2>2 DEF Load, S
<1>4. CacheShape' /\ \A s \in Requests : s # r => SameLocals(s)
  BY <1>1, <1>2 DEF CacheShape, SameLocals
<1>5. /\ pc'[r] = "lookup" /\ endpoints'[r] = urls
      /\ request_stats'[r] = [u \in urls |-> Load(u)]
  BY <1>1, <1>2 DEF CacheShape
<1>6. request_stats'[r] \in [urls -> Nat]
  BY <1>3, <1>5
<1>7. RequestOK(r)'
  BY <1>5, <1>6 DEF RequestOK
<1> QED
  BY <1>1, <1>2, <1>4, <1>7, FleetFrame, OneMoves

LEMMA TokenizeFailsKeeps ==
  ASSUME CacheInv, NEW r \in Requests, TokenizeFails(r) PROVE CacheInv'
<1>1. /\ SameFleet /\ UNCHANGED <<layout_info, todo, chosen, by_cache>>
      /\ pc' = [pc EXCEPT ![r] = "idle"] /\ endpoints' = [endpoints EXCEPT ![r] = {}]
      /\ request_stats' = [request_stats EXCEPT ![r] = Nothing]
  BY DEF TokenizeFails, SameFleet
<1>2. CacheShape /\ FleetOK /\ MapOK
  BY DEF CacheInv
<1>3. CacheShape' /\ pc'[r] = "idle" /\ \A s \in Requests : s # r => SameLocals(s)
  BY <1>1, <1>2 DEF CacheShape, SameLocals
<1>4. RequestOK(r)'
  BY <1>3 DEF RequestOK
<1> QED
  BY <1>1, <1>2, <1>3, <1>4, FleetFrame, OneMoves

\* A request that looks up has candidates, and so has one that chooses.
LEMMA Candidates ==
  ASSUME CacheInv, NEW r \in Requests, pc[r] \in {"lookup", "refreshing", "queried"}
  PROVE  /\ endpoints[r] \in SUBSET Urls /\ endpoints[r] # {}
         /\ request_stats[r] \in [endpoints[r] -> Nat]
BY DEF CacheInv, RequestOK

LEMMA LookupKeeps ==
  ASSUME CacheInv, NEW r \in Requests, Lookup(r) PROVE CacheInv'
<1>1. /\ SameFleet /\ UNCHANGED endpoints /\ pc[r] = "lookup"
      /\ CacheShape /\ FleetOK /\ MapOK
  BY DEF Lookup, SameFleet, CacheInv
<1>2. FleetOK' /\ MapOK' /\ Grows
  BY <1>1, FleetFrame
<1>3. /\ endpoints[r] \in SUBSET Urls /\ endpoints[r] # {}
      /\ request_stats[r] \in [endpoints[r] -> Nat]
  BY <1>1, Candidates
<1>4. CASE kv_pool = Nothing /\ fallback_url(r) /\ UNCHANGED todo
  <2>1. PICK u \in Urls : Send(r, u, FALSE)
    BY <1>3, <1>4 DEF fallback_url
  <2> QED
    BY <1>1, <1>2, <1>4, <2>1, SendMoves
<1>5. CASE Choice(r, instance_id_to_ip, kv_pool) /\ UNCHANGED todo
  <2>1. \A k \in DOMAIN instance_id_to_ip : instance_id_to_ip[k].url \in Urls
    BY <1>1, MapEntries
  <2>2. \A i \in DOMAIN kv_pool : kv_pool[i] \in Nat
    BY <1>1 DEF FleetOK, LayoutOK
  <2>3. \E b : \E u \in Urls : Send(r, u, b)
    BY <1>3, <1>5, <2>1, <2>2, ChoiceSends
  <2> QED
    BY <1>1, <1>2, <1>5, <2>3, SendMoves
<1>6. CASE /\ pc' = [pc EXCEPT ![r] = "refreshing"]
           /\ todo' = [todo EXCEPT ![r] = endpoints[r]]
           /\ layout_info' = [layout_info EXCEPT ![r] = kv_pool]
           /\ UNCHANGED <<request_stats, chosen, by_cache>>
  <2>1. CacheShape' /\ \A s \in Requests : s # r => SameLocals(s)
    BY <1>1, <1>6 DEF CacheShape, SameLocals
  <2>2. /\ pc'[r] = "refreshing" /\ todo'[r] = endpoints[r] /\ layout_info'[r] = kv_pool
        /\ endpoints'[r] = endpoints[r] /\ request_stats'[r] = request_stats[r]
    BY <1>1, <1>6 DEF CacheShape
  <2>3. LayoutOK(kv_pool, last_id)'
    BY <1>2 DEF FleetOK
  <2>4. kv_pool' = kv_pool
    BY <1>1 DEF SameFleet, fleetVars
  <2>5. LayoutOK(layout_info[r], last_id)'
    BY <2>2, <2>3, <2>4 DEF LayoutOK
  <2>6. endpoints'[r] \ (todo'[r] \cup missed') = {}
    BY <2>2
  <2>7. RequestOK(r)'
    BY <1>3, <2>2, <2>5, <2>6 DEF RequestOK
  <2> QED
    BY <1>2, <2>1, <2>7, OneMoves
<1> QED
  BY <1>4, <1>5, <1>6 DEF Lookup

\* An answer of the refresh: the endpoint asked is mapped from now on, if the
\* controller knows it.
LEMMA QueryInstKeeps ==
  ASSUME CacheInv, NEW r \in Requests, NEW u \in Urls, QueryInst(r, u)
  PROVE  /\ CacheInv' /\ MappedIds \subseteq MappedIds' /\ missed \subseteq missed'
         /\ u \notin missed' => registered[u] \in MappedIds'
<1> DEFINE i == IF u \in known THEN registered[u] ELSE 0
<1>0. Entered(u, i) /\ instance_id_to_ip' = Written(instance_id_to_ip, i, u)
  BY DEF QueryInst, Entered
<1>01. missed \subseteq missed' /\ (u \notin missed' => i = registered[u])
  BY <1>0 DEF Entered
<1> HIDE DEF i
<1>1. /\ UNCHANGED <<registered, last_id, kv_pool>> /\ UNCHANGED endpoints
      /\ todo' = [todo EXCEPT ![r] = todo[r] \ {u}]
      /\ pc[r] = "refreshing" /\ u \in todo[r]
  BY DEF QueryInst, fleetVars
<1>2. CacheShape /\ FleetOK /\ MapOK /\ RequestOK(r)
  BY DEF CacheInv
<1>3. /\ MapOK' /\ MappedIds \subseteq MappedIds'
      /\ u \notin missed' => registered[u] \in MappedIds'
  <2>1. MapOK' /\ MappedIds' = MappedIds \cup {i}
    BY <1>0, <1>1, <1>2, WrittenOK
  <2> QED
    BY <1>01, <2>1
<1>4. FleetOK' /\ Grows
  <2>1. FleetOK'
    BY <1>1, <1>2 DEF FleetOK, LayoutOK
  <2>2. last_id \in Nat
    BY <1>2 DEF FleetOK
  <2>3. last_id <= last_id'
    BY <1>1, <2>2, SMT
  <2> QED
    BY <1>01, <1>1, <1>3, <2>1, <2>2, <2>3 DEF Grows
<1>5. /\ endpoints[r] \in SUBSET Urls /\ endpoints[r] # {}
      /\ request_stats[r] \in [endpoints[r] -> Nat]
  BY <1>1, Candidates
<1>6. /\ \A k \in DOMAIN layout_info[r] :
           k \in Nat /\ k <= last_id /\ layout_info[r][k] \in Nat
      /\ \A v \in endpoints[r] \ (todo[r] \cup missed) :
           registered[v] \in DOMAIN layout_info[r] => registered[v] \in MappedIds
  BY <1>1, <1>2 DEF RequestOK, LayoutOK
<1>7. ASSUME UNCHANGED <<request_stats, layout_info, chosen, by_cache>>,
             pc' = [pc EXCEPT ![r] = pc'[r]],
             pc'[r] = "refreshing" \/ (pc'[r] = "queried" /\ todo[r] = {u})
      PROVE  CacheInv'
  <2>1. CacheShape' /\ \A s \in Requests : s # r => SameLocals(s)
    BY <1>1, <1>2, <1>7 DEF CacheShape, SameLocals
  <2>2. /\ todo'[r] = todo[r] \ {u} /\ layout_info'[r] = layout_info[r]
        /\ endpoints'[r] = endpoints[r] /\ request_stats'[r] = request_stats[r]
        /\ registered' = registered /\ last_id' = last_id
    BY <1>1, <1>2, <1>7 DEF CacheShape
  <2>3. LayoutOK(layout_info[r], last_id)'
    BY <1>6, <2>2 DEF LayoutOK
  <2>4. \A v \in endpoints'[r] \ (todo'[r] \cup missed') :
          registered'[v] \in DOMAIN layout_info'[r] => registered'[v] \in MappedIds'
    BY <1>01, <1>3, <1>6, <2>2
  <2>5. pc'[r] = "queried" => todo'[r] = {}
    BY <1>7, <2>2
  <2>6. RequestOK(r)'
    BY <1>5, <1>7, <2>2, <2>3, <2>4, <2>5 DEF RequestOK
  <2> QED
    BY <1>3, <1>4, <2>1, <2>6, OneMoves
<1>8. CASE UNCHANGED <<pc, request_stats, layout_info, chosen, by_cache>>
  <2>1. pc' = [pc EXCEPT ![r] = pc'[r]] /\ pc'[r] = "refreshing"
    BY <1>1, <1>2, <1>8 DEF CacheShape
  <2> QED
    BY <1>01, <1>3, <1>7, <1>8, <2>1
<1>9. CASE /\ todo[r] = {u} /\ pc' = [pc EXCEPT ![r] = "queried"]
           /\ UNCHANGED <<request_stats, layout_info, chosen, by_cache>>
  <2>1. pc' = [pc EXCEPT ![r] = pc'[r]] /\ pc'[r] = "queried"
    BY <1>2, <1>9 DEF CacheShape
  <2> QED
    BY <1>01, <1>3, <1>7, <1>9, <2>1
<1>10. CASE Choice(r, instance_id_to_ip', layout_info[r])
  <2>1. \A k \in DOMAIN instance_id_to_ip' : instance_id_to_ip'[k].url \in Urls
    <3>1. instance_id_to_ip' \in Seq([id : Nat, url : Urls])
      BY <1>3 DEF MapOK
    <3>2. \A x \in [id : Nat, url : Urls] : x.url \in Urls
      OBVIOUS
    <3>3. \A T : \A q \in Seq(T) : \A j \in DOMAIN q : q[j] \in T
      BY SMT
    <3> QED
      BY <3>1, <3>2, <3>3
  <2>2. \E b : \E v \in Urls : Send(r, v, b)
    BY <1>5, <1>6, <1>10, <2>1, ChoiceSends
  <2>3. \E x : todo' = [todo EXCEPT ![r] = x]
    BY <1>1
  <2> QED
    BY <1>01, <1>1, <1>3, <1>4, <2>2, <2>3, SendMoves
<1>11. \/ UNCHANGED <<pc, request_stats, layout_info, chosen, by_cache>>
       \/ Choice(r, instance_id_to_ip', layout_info[r])
       \/ /\ todo[r] = {u} /\ pc' = [pc EXCEPT ![r] = "queried"]
          /\ UNCHANGED <<request_stats, layout_info, chosen, by_cache>>
  BY DEF QueryInst
<1> QED
  BY <1>01, <1>3, <1>8, <1>9, <1>10, <1>11

LEMMA ResumeKeeps ==
  ASSUME CacheInv, NEW r \in Requests, Resume(r) PROVE CacheInv'
<1>1. /\ SameFleet /\ UNCHANGED <<endpoints, todo>> /\ pc[r] = "queried"
      /\ Choice(r, instance_id_to_ip, layout_info[r])
  BY DEF Resume, SameFleet
<1>2. FleetOK /\ MapOK /\ RequestOK(r)
  BY DEF CacheInv
<1>3. \A k \in DOMAIN instance_id_to_ip : instance_id_to_ip[k].url \in Urls
  BY <1>2, MapEntries
<1>4. \A i \in DOMAIN layout_info[r] : layout_info[r][i] \in Nat
  BY <1>1, <1>2 DEF RequestOK, LayoutOK
<1>5. /\ endpoints[r] \in SUBSET Urls /\ endpoints[r] # {}
      /\ request_stats[r] \in [endpoints[r] -> Nat]
  BY <1>1, Candidates
<1>6. \E b : \E u \in Urls : Send(r, u, b)
  BY <1>1, <1>3, <1>4, <1>5, ChoiceSends
<1>7. UNCHANGED endpoints /\ UNCHANGED todo
  BY <1>1
<1> QED
  BY <1>1, <1>2, <1>6, <1>7, FleetFrame, SendMoves

LEMMA CacheStep == CacheInv /\ [CacheNext]_cacheVars => CacheInv'
<1> SUFFICES ASSUME CacheInv, [CacheNext]_cacheVars PROVE CacheInv'
  OBVIOUS
<1>1. CASE UNCHANGED cacheVars
  <2>1. SameFleet /\ CacheShape /\ FleetOK /\ MapOK
    BY <1>1 DEF cacheVars, SameFleet, CacheInv
  <2>2. UNCHANGED <<pc, endpoints, request_stats, layout_info, todo, chosen, by_cache>>
    BY <1>1 DEF cacheVars, localVars
  <2>3. CacheShape' /\ \A s \in Requests : SameLocals(s)
    BY <2>1, <2>2 DEF CacheShape, SameLocals
  <2>4. FleetOK' /\ MapOK' /\ \A s \in Requests : RequestOK(s)'
    BY <2>1, <2>3, FleetFrame, RequestFrame DEF CacheInv
  <2> QED
    BY <2>3, <2>4 DEF CacheInv
<1>2. \A n \in 1 .. (P + 1) : n \in Nat
  BY CacheAssumption, SMT
<1>3. CASE CacheNext
  BY <1>2, <1>3, RegisterKeeps, TimeoutKeeps, FinishKeeps, ArriveKeeps, TokenizeFailsKeeps, LookupKeeps,
     QueryInstKeeps, ResumeKeeps DEF CacheNext
<1> QED
  BY <1>1, <1>3

LEMMA CacheInvariant == CacheSpec => []CacheInv
BY CacheInitially, CacheStep, PTL DEF CacheSpec

\* A request is placed by its own lookup, by an answer to its refresh, or after it.
LEMMA PlacedBy ==
  ASSUME CacheInv, [CacheNext]_cacheVars, NEW r \in Requests,
         pc[r] # "serving", pc'[r] = "serving"
  PROVE  Lookup(r) \/ Resume(r) \/ \E u \in Urls : QueryInst(r, u)
<1>1. CacheShape
  BY DEF CacheInv
<1>2. pc' # pc
  OBVIOUS
<1>3. CacheNext /\ \A u \in Urls : ~ (Register(u) \/ WorkerTimesOut(u) \/ Reregister(u))
  BY <1>2 DEF cacheVars, localVars, Register, WorkerTimesOut, Reregister
<1>4. ASSUME NEW s \in Requests, NEW x, pc' = [pc EXCEPT ![s] = x]
      PROVE  s = r /\ x = "serving"
  BY <1>1, <1>4 DEF CacheShape
<1>5. ASSUME NEW s \in Requests
      PROVE  ~ TokenizeFails(s) /\ (\A urls : ~ Arrive(s, urls)) /\ \A n : ~ Finish(s, n)
  <2>1. \A x \in {"idle", "lookup"} : pc' # [pc EXCEPT ![s] = x]
    BY <1>4
  <2> QED
    BY <2>1 DEF TokenizeFails, Arrive, Finish
<1>6. ASSUME NEW s \in Requests, Lookup(s) \/ Resume(s) \/ \E u \in Urls : QueryInst(s, u)
      PROVE  s = r
  <2>1. UNCHANGED pc \/ \E x : pc' = [pc EXCEPT ![s] = x]
    BY <1>6 DEF Lookup, Resume, QueryInst, Choice, KvawareChoice, LoadAwareChoice, fallback_url, Send
  <2> QED
    BY <1>2, <1>4, <2>1
<1> QED
  BY <1>3, <1>5, <1>6 DEF CacheNext

\* An engine that holds a part of the prompt is credited with it: when a request is
\* placed, a candidate whose live id the lookup named resolves to that id, whatever
\* restarted or was asked meanwhile, unless a refresh asked for it while the
\* controller had forgotten it (KvawareRouter, LoadAwareRouter: the refresh of
\* instance_id_to_ip and its inversion).
THEOREM WarmIsCredited == CacheSpec => WarmCredited
<1> DEFINE Warm(r) == (pc[r] # "serving" /\ pc'[r] = "serving") =>
                        \A u \in endpoints[r] \ missed' :
                          registered[u] \in DOMAIN LayoutOf(r) =>
                            url_to_instance(instance_id_to_ip', u) = registered[u]
<1>1. ASSUME CacheInv, [CacheNext]_cacheVars, NEW r \in Requests,
             pc[r] # "serving", pc'[r] = "serving",
             NEW u \in endpoints[r] \ missed', registered[u] \in DOMAIN LayoutOf(r)
      PROVE  url_to_instance(instance_id_to_ip', u) = registered[u]
  <2>1. CASE Lookup(r)
    <3>1. /\ pc[r] = "lookup" /\ UNCHANGED <<instance_id_to_ip, missed>>
          /\ LayoutOf(r) = kv_pool
      BY <2>1 DEF Lookup, LayoutOf
    <3>2. FleetOK /\ MapOK /\ CacheShape /\ u \in Urls \ missed
      BY <1>1, <3>1, Candidates DEF CacheInv
    <3>3. kv_pool # Nothing
      BY <1>1, <3>1 DEF Nothing
    <3>4. pc' # [pc EXCEPT ![r] = "refreshing"]
      BY <1>1, <3>2 DEF CacheShape
    <3>5. ~ instance_map_is_stale(endpoints[r], kv_pool)
      BY <2>1, <3>3, <3>4 DEF Lookup
    <3>6. registered[u] \in MappedIds
      BY <1>1, <3>1, <3>5 DEF instance_map_is_stale
    <3> QED
      BY <3>1, <3>2, <3>6, Resolves
  <2>2. CASE Resume(r)
    <3>1. /\ pc[r] = "queried" /\ UNCHANGED <<instance_id_to_ip, missed>>
          /\ LayoutOf(r) = layout_info[r]
      BY <2>2 DEF Resume, LayoutOf
    <3>2. FleetOK /\ MapOK /\ u \in Urls \ missed /\ RequestOK(r)
      BY <1>1, <3>1, Candidates DEF CacheInv
    <3>3. todo[r] = {}
      BY <3>1, <3>2 DEF RequestOK
    <3>4. registered[u] \in MappedIds
      BY <1>1, <3>1, <3>2, <3>3 DEF RequestOK
    <3> QED
      BY <3>1, <3>2, <3>4, Resolves
  <2>3. ASSUME NEW v \in Urls, QueryInst(r, v)
        PROVE  url_to_instance(instance_id_to_ip', u) = registered[u]
    <3>1. /\ pc[r] = "refreshing" /\ registered' = registered /\ LayoutOf(r) = layout_info[r]
      BY <2>3 DEF QueryInst, LayoutOf, fleetVars
    <3>2. u \in Urls \ missed' /\ CacheShape /\ FleetOK /\ MapOK
      BY <1>1, <3>1, Candidates DEF CacheInv
    <3>3. todo[r] = {v}
      BY <1>1, <2>3, <3>2 DEF QueryInst, CacheShape
    <3>4. u = v \/ u \in missed \/ registered[u] \in MappedIds
      BY <1>1, <3>1, <3>3 DEF CacheInv, RequestOK
    <3>5. /\ CacheInv' /\ MappedIds \subseteq MappedIds' /\ missed \subseteq missed'
          /\ v \notin missed' => registered[v] \in MappedIds'
      BY <1>1, <2>3, QueryInstKeeps
    <3>6. FleetOK' /\ MapOK' /\ registered'[u] \in MappedIds'
      BY <3>1, <3>2, <3>4, <3>5 DEF CacheInv
    <3>7. url_to_instance(instance_id_to_ip', u) = registered'[u]
      BY <3>2, <3>6, ResolvedNext DEF Resolved
    <3> QED
      BY <3>1, <3>7
  <2> QED
    BY <1>1, <2>1, <2>2, <2>3, PlacedBy
<1>2. CacheInv /\ [CacheNext]_cacheVars => [\A r \in Requests : Warm(r)]_cacheVars
  BY <1>1
<1> QED
  BY <1>2, CacheInvariant, PTL DEF CacheSpec, WarmCredited

LEMMA Product ==
  ASSUME NEW k \in Int, NEW p \in Int, NEW q \in Int, k >= 0
  PROVE  (p <= q => k * p <= k * q) /\ (k > 0 /\ p < q => k * p < k * q)
BY SMT

\* With a load weight that is not negative, a candidate that is no worse on both
\* counts and better on one that counts has the better score (score_endpoint).
LEMMA BetterScore ==
  ASSUME beta[1] >= 0, NEW a \in Nat, NEW b \in Nat, NEW x \in Nat, NEW y \in Nat,
         NEW t \in Nat, NEW n \in Nat \ {0},
         Min({a, P}) >= Min({b, P}), x <= y,
         Min({a, P}) > Min({b, P}) \/ (beta[1] > 0 /\ x < y)
  PROVE  score_endpoint(a, x, t, n) > score_endpoint(b, y, t, n)
<1>1. PICK num \in Int : num = beta[1]
  BY CacheAssumption, SMT
<1>01. PICK den \in Nat \ {0} : den = beta[2]
  BY CacheAssumption, SMT
<1>02. P \in Nat \ {0}
  BY CacheAssumption
<1>2. PICK k \in Nat : k = num * P /\ (num > 0 => k > 0)
  <2>1. num \in Nat
    BY <1>1, SMT
  <2>2. num * P \in Nat /\ (num > 0 => num * P > 0)
    BY <1>02, <2>1, SMT
  <2> QED
    BY <2>2
<1>3. PICK g \in Int : g = Min({a, P})
  BY <1>02, MinMaxOfTwo, SMT
<1>4. PICK h \in Int : h = Min({b, P})
  BY <1>02, MinMaxOfTwo, SMT
<1>5. PICK d \in Int : d = Max({t, n}) /\ d > 0
  <2>1. t \in Int /\ n \in Int
    BY SMT
  <2>2. Max({t, n}) = IF t >= n THEN t ELSE n
    BY <2>1, MinMaxOfTwo
  <2> QED
    BY <2>2, SMT
<1>6. PICK i \in Int : i = n * x - t
  BY SMT
<1>7. PICK j \in Int : j = n * y - t
  BY SMT
<1>8. i <= j /\ (x < y => i < j)
  BY <1>6, <1>7, Product, SMT
<1>9. PICK dg \in Int : dg = den * g * d
  BY SMT
<1>10. PICK dh \in Int : dh = den * h * d
  BY SMT
<1>11. PICK ki \in Int : ki = k * i
  BY <1>2, SMT
<1>12. PICK kj \in Int : kj = k * j
  BY <1>2, SMT
<1>13. ki <= kj /\ (num > 0 /\ x < y => ki < kj)
  <2>1. k \in Int /\ k >= 0
    BY <1>2, SMT
  <2> QED
    BY <1>2, <1>8, <1>11, <1>12, <2>1, Product
<1>14. dh <= dg /\ (h < g => dh < dg)
  <2>1. h <= g
    BY <1>3, <1>4
  <2>2. PICK e \in Int : e = den * d /\ e > 0
    BY <1>5, SMT
  <2>3. e >= 0
    BY <2>2, SMT
  <2>4. e * h <= e * g /\ (h < g => e * h < e * g)
    BY <2>1, <2>2, <2>3, Product
  <2>5. (den * d) * h = den * h * d /\ (den * d) * g = den * g * d
    BY SMT
  <2> QED
    BY <1>9, <1>10, <2>2, <2>4, <2>5
<1>15. score_endpoint(a, x, t, n) = dg - ki /\ score_endpoint(b, y, t, n) = dh - kj
  BY <1>1, <1>01, <1>2, <1>3, <1>4, <1>5, <1>6, <1>7, <1>9, <1>10, <1>11, <1>12
     DEF score_endpoint, relative_load
<1>16. h < g \/ (num > 0 /\ x < y)
  BY <1>1, <1>3, <1>4
<1>17. dg - ki > dh - kj
  BY <1>13, <1>14, <1>16, SMT
<1> QED
  BY <1>15, <1>17

\* LoadAwareRouter never places a request where another of its candidates has at
\* least the match and at most the load, one of them strictly; with beta = 0 only
\* the match decides (select_url, score_endpoint).
THEOREM PlacementUndominated == CacheSpec => NotDominated
<1> DEFINE hits(r, u) == Min({P, matched_tokens_by_url(instance_id_to_ip, LayoutOf(r), u)})
<1>1. ASSUME CacheInv, [CacheNext]_cacheVars, NEW r \in Requests,
             beta[1] >= 0, cache_logic = "loadaware",
             pc[r] # "serving", pc'[r] = "serving", by_cache'[r],
             NEW v \in endpoints[r],
             hits(r, v) >= hits(r, chosen'[r]), request_stats[r][v] <= request_stats[r][chosen'[r]],
             \/ hits(r, v) > hits(r, chosen'[r])
             \/ beta[1] > 0 /\ request_stats[r][v] < request_stats[r][chosen'[r]]
      PROVE  FALSE
  <2> DEFINE m == instance_id_to_ip
             urls == endpoints[r]
             loads == request_stats[r]
             layout == LayoutOf(r)
             c == select_url(m, urls, loads, layout)
  <2>1. CacheShape /\ FleetOK
    BY <1>1 DEF CacheInv
  <2>2. /\ pc[r] \in {"lookup", "queried"} /\ chosen'[r] = c
        /\ \A i \in DOMAIN layout : layout[i] \in Nat
    <3>1. CASE Lookup(r)
      <4>1. pc[r] = "lookup" /\ layout = kv_pool
        BY <3>1 DEF Lookup, LayoutOf
      <4>2. ~ fallback_url(r)
        BY <1>1, <2>1 DEF fallback_url, Send, CacheShape
      <4>3. pc' # [pc EXCEPT ![r] = "refreshing"]
        BY <1>1, <2>1 DEF CacheShape
      <4>4. Send(r, c, TRUE)
        BY <1>1, <3>1, <4>1, <4>2, <4>3 DEF Lookup, Choice, LoadAwareChoice
      <4>5. \A i \in DOMAIN kv_pool : kv_pool[i] \in Nat
        BY <2>1 DEF FleetOK, LayoutOK
      <4> QED
        BY <2>1, <4>1, <4>4, <4>5 DEF Send, CacheShape
    <3>2. CASE Resume(r)
      <4>1. pc[r] = "queried" /\ layout = layout_info[r]
        BY <3>2 DEF Resume, LayoutOf
      <4>2. Send(r, c, TRUE)
        BY <1>1, <3>2, <4>1 DEF Resume, Choice, LoadAwareChoice
      <4>3. \A i \in DOMAIN layout_info[r] : layout_info[r][i] \in Nat
        BY <1>1, <4>1 DEF CacheInv, RequestOK, LayoutOK
      <4> QED
        BY <2>1, <4>1, <4>2, <4>3 DEF Send, CacheShape
    <3>3. \A u \in Urls : ~ QueryInst(r, u)
      BY <1>1, <2>1 DEF QueryInst, CacheShape
    <3> QED
      BY <1>1, <3>1, <3>2, <3>3, PlacedBy
  <2>3. /\ urls \in SUBSET Urls /\ urls # {} /\ loads \in [urls -> Nat]
    BY <1>1, <2>2, Candidates
  <2>4. c \in urls /\ Score(m, urls, loads, layout, v) <= Score(m, urls, loads, layout, c)
    BY <2>2, <2>3, SelectBest
  <2>5. PICK a \in Nat : a = matched_tokens_by_url(m, layout, v)
    BY <2>2, <2>3, ScoreTyped
  <2>6. PICK b \in Nat : b = matched_tokens_by_url(m, layout, c)
    BY <2>2, <2>3, <2>4, ScoreTyped
  <2>7. PICK t \in Nat : t = total_load(urls, loads)
    BY <2>2, <2>3, <2>4, ScoreTyped
  <2>8. PICK n \in Nat \ {0} : n = Cardinality(urls)
    BY <2>2, <2>3, <2>4, ScoreTyped
  <2>9. /\ Score(m, urls, loads, layout, v) \in Int
        /\ Score(m, urls, loads, layout, c) \in Int
    BY <2>2, <2>3, <2>4, ScoreTyped
  <2>10. loads[v] \in Nat /\ loads[c] \in Nat
    BY <2>3, <2>4
  <2>11. hits(r, v) = Min({a, P}) /\ hits(r, chosen'[r]) = Min({b, P})
    <3>1. \A x : {P, x} = {x, P}
      OBVIOUS
    <3> QED
      BY <2>2, <2>5, <2>6, <3>1
  <2>12. score_endpoint(a, loads[v], t, n) > score_endpoint(b, loads[c], t, n)
    <3>1. /\ Min({a, P}) >= Min({b, P}) /\ loads[v] <= loads[c]
          /\ Min({a, P}) > Min({b, P}) \/ (beta[1] > 0 /\ loads[v] < loads[c])
      BY <1>1, <2>2, <2>11
    <3> HIDE DEF c
    <3> QED
      BY <1>1, <2>10, <3>1, BetterScore
  <2>13. /\ Score(m, urls, loads, layout, v) = score_endpoint(a, loads[v], t, n)
         /\ Score(m, urls, loads, layout, c) = score_endpoint(b, loads[c], t, n)
    BY <2>5, <2>6, <2>7, <2>8 DEF Score
  <2> HIDE DEF c
  <2> QED
    BY <2>4, <2>9, <2>12, <2>13, SMTT(30)
<1>2. CacheInv /\ [CacheNext]_cacheVars =>
        [\A r \in Requests :
           (/\ beta[1] >= 0 /\ cache_logic = "loadaware"
            /\ pc[r] # "serving" /\ pc'[r] = "serving" /\ by_cache'[r]) =>
             LET hit(u) == Min({P, matched_tokens_by_url(instance_id_to_ip, LayoutOf(r), u)})
                 load(u) == request_stats[r][u]
                 c == chosen'[r]
             IN \A v \in endpoints[r] :
                  ~ (hit(v) >= hit(c) /\ load(v) <= load(c)
                        /\ (hit(v) > hit(c) \/ (beta[1] > 0 /\ load(v) < load(c))))
        ]_cacheVars
  BY <1>1
<1> QED
  BY <1>2, CacheInvariant, PTL DEF CacheSpec, NotDominated

=============================================================================
