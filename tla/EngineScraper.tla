---------------------------- MODULE EngineScraper ----------------------------
(***************************************************************************)
(* EngineStatsScraper (src/vllm_router/stats/engine_stats.py): a thread    *)
(* that takes the endpoints of the discovery, asks each for its metrics    *)
(* and then replaces the statistics that routing decisions read.  The      *)
(* endpoints come from whichever discovery is composed with this module.   *)
(*                                                                         *)
(* The thread is between rounds (while self.running), scraping, sleeping   *)
(* or over.                                                                *)
(***************************************************************************)
EXTENDS Integers

CONSTANTS Scraped,      \* the engines
          MaxMetric,    \* bound: the figure an engine reports, 0..MaxMetric
          MaxMoves      \* bound: changes of a figure

ASSUME ScraperAssumption == MaxMetric \in Nat /\ MaxMoves \in Nat

VARIABLES metric, moves,        \* engine |-> the figure it would report now
          scraper,
          todo, collected,      \* locals of the round
          engine_stats,         \* engine |-> figure, for the engines with statistics
          scraper_running,
          seenNow, seen         \* history: engine |-> figures it had since the start of
                                \* this round, of the last completed round, while listed

scraperVars == <<metric, moves, scraper, todo, collected, engine_stats, scraper_running, seenNow, seen>>

Nothing == [e \in {} |-> 0]

ScraperInit ==
  /\ metric = [e \in Scraped |-> 0] /\ moves = 0
  /\ scraper = "between" /\ todo = {} /\ collected = Nothing
  /\ engine_stats = Nothing
  /\ scraper_running = TRUE
  /\ seenNow = [e \in Scraped |-> {}] /\ seen = [e \in Scraped |-> {}]

\* An engine's load changes, external.
MetricMoves(e) ==
  /\ moves < MaxMoves
  /\ moves' = moves + 1
  /\ \E n \in 0..MaxMetric \ {metric[e]} :
       /\ metric' = [metric EXCEPT ![e] = n]
       /\ seenNow' = [seenNow EXCEPT ![e] = IF @ = {} THEN @ ELSE @ \cup {n}]
       /\ seen' = [seen EXCEPT ![e] = IF @ = {} THEN @ ELSE @ \cup {n}]
  /\ UNCHANGED <<scraper, todo, collected, engine_stats, scraper_running>>

\* while self.running; the endpoints are read once for the round.
ReadEndpoints(endpoints) ==
  /\ scraper = "between"
  /\ scraper' = IF scraper_running THEN "scraping" ELSE "over"
  /\ todo' = IF scraper_running THEN endpoints ELSE {}
  /\ collected' = Nothing
  /\ seenNow' = [e \in Scraped |-> IF scraper_running /\ e \in endpoints THEN {metric[e]} ELSE {}]
  /\ UNCHANGED <<metric, moves, engine_stats, scraper_running, seen>>

\* _scrape_one_endpoint: an engine that fails to answer is left out.
Scrape(e) ==
  /\ scraper = "scraping" /\ e \in todo
  /\ todo' = todo \ {e}
  /\ \/ collected' = [x \in DOMAIN collected \cup {e} |-> IF x = e THEN metric[e] ELSE collected[x]]
     \/ UNCHANGED collected
  /\ UNCHANGED <<metric, moves, scraper, engine_stats, scraper_running, seenNow, seen>>

StoreRound_keeps_old ==
  /\ scraper = "scraping" /\ todo = {}
  /\ engine_stats' = [e \in DOMAIN collected \cup DOMAIN engine_stats |->
                        IF e \in DOMAIN collected THEN collected[e] ELSE engine_stats[e]]
  /\ seen' = seenNow /\ seenNow' = [e \in Scraped |-> {}]
  /\ scraper' = "sleeping" /\ collected' = Nothing
  /\ UNCHANGED <<metric, moves, todo, scraper_running>>

\* Under the lock: engines without a new figure are dropped, the others replaced.
StoreRound ==
  /\ scraper = "scraping" /\ todo = {}
  /\ engine_stats' = collected
  /\ seen' = seenNow /\ seenNow' = [e \in Scraped |-> {}]
  /\ scraper' = "sleeping" /\ collected' = Nothing
  /\ UNCHANGED <<metric, moves, todo, scraper_running>>

\* _sleep_or_break
Rested ==
  /\ scraper = "sleeping"
  /\ scraper' = "between"
  /\ UNCHANGED <<metric, moves, todo, collected, engine_stats, scraper_running, seenNow, seen>>

StopScraper ==
  /\ scraper_running
  /\ scraper_running' = FALSE
  /\ UNCHANGED <<metric, moves, scraper, todo, collected, engine_stats, seenNow, seen>>

ScraperStep(endpoints) ==
  ReadEndpoints(endpoints) \/ (\E e \in Scraped : Scrape(e)) \/ StoreRound \/ Rested

-----------------------------------------------------------------------------
(* Properties *)

\* What a routing decision reads about an engine is a figure the engine had since
\* the start of the last completed round, and the engine was offered by the
\* discovery when that round began: nothing older survives a failing scrape or a
\* removed engine.
StatsAreRecent == \A e \in DOMAIN engine_stats : engine_stats[e] \in seen[e]

=============================================================================
