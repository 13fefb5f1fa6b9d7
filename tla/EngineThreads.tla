---------------------------- MODULE EngineThreads ----------------------------
(***************************************************************************)
(* The threads that keep the router's view of the engines, and their end:  *)
(* service-name or static discovery, the scraper of engine statistics that *)
(* reads it, and the lifespan function of src/vllm_router/app.py, which    *)
(* closes the scraper, then the discovery, then the rest.                  *)
(*                                                                         *)
(* lifespan is serving, scraper (joining the scraper thread), discovery    *)
(* (closing it), closed, or aborted by an exception of a close.            *)
(***************************************************************************)
EXTENDS ServiceNameDiscovery, StaticDiscovery, EngineScraper

VARIABLES discovery,    \* the kind of service discovery
          lifespan

threadVars == <<svcVars, staticVars, scraperVars, discovery, lifespan>>

ThreadsInit ==
  /\ discovery \in {"service-name", "static"}
  /\ ServiceInit /\ StaticInit /\ ScraperInit
  /\ discovery # "service-name" => exists = {}
  /\ discovery # "static" => healthy = {}
  /\ lifespan = "serving"

\* What the scraper is given: get_endpoint_info of the discovery.
Endpoints == IF discovery = "static" THEN get_endpoint_info ELSE engines

DiscoveryThread ==
  /\ \/ discovery = "service-name" /\ ServiceStep /\ UNCHANGED staticVars
     \/ discovery = "static" /\ StaticStep /\ UNCHANGED svcVars
  /\ UNCHANGED <<scraperVars, discovery, lifespan>>

ScraperThread ==
  /\ ScraperStep(Endpoints)
  /\ UNCHANGED <<svcVars, staticVars, discovery, lifespan>>

MetricsMove ==
  /\ \E e \in Scraped : MetricMoves(e)
  /\ UNCHANGED <<svcVars, staticVars, discovery, lifespan>>

-----------------------------------------------------------------------------

\* The server stops: engine_stats_scraper.close() up to its join.
CloseScraper ==
  /\ lifespan = "serving"
  /\ lifespan' = "scraper"
  /\ StopScraper
  /\ UNCHANGED <<svcVars, staticVars, discovery>>

\* The scraper thread has been joined; service_discovery.close() up to its wait.
CloseDiscovery ==
  /\ lifespan = "scraper" /\ scraper = "over"
  /\ lifespan' = "discovery"
  /\ \/ discovery = "service-name" /\ SvcClose /\ UNCHANGED staticVars
     \/ discovery = "static" /\ StartClose /\ UNCHANGED svcVars
  /\ UNCHANGED <<scraperVars, discovery>>

\* The watcher thread is joined without a bound, the health-check loop is down.
DiscoveryClosed ==
  /\ lifespan = "discovery"
  /\ \/ discovery = "service-name" /\ svcWatcher = "stopped"
     \/ discovery = "static" /\ shutdown = "done"
  /\ lifespan' = "closed"
  /\ UNCHANGED <<svcVars, staticVars, scraperVars, discovery>>

\* The waits of 15 and 5 seconds run out while a round of checks goes on: closing
\* a loop that still runs raises, and the rest of lifespan is skipped.
CloseGivesUp ==
  /\ lifespan = "discovery" /\ discovery = "static"
  /\ task = "checking"
  /\ lifespan' = "aborted"
  /\ UNCHANGED <<svcVars, staticVars, scraperVars, discovery>>

LifespanStep == CloseDiscovery \/ DiscoveryClosed

Ended == lifespan \in {"closed", "aborted"} /\ UNCHANGED threadVars

ThreadsNext ==
  DiscoveryThread \/ ScraperThread \/ MetricsMove \/ CloseScraper \/ LifespanStep \/ CloseGivesUp
  \/ Ended

\* Every thread is scheduled, scrapes and checks end by their timeouts, and the
\* API server ends a watch some time.  Nothing says that the server is stopped.
ThreadsSpec ==
  /\ ThreadsInit
  /\ [][ThreadsNext]_threadVars
  /\ WF_svcVars(discovery = "service-name" /\ SvcWatcherStep)
  /\ WF_svcVars(discovery = "service-name" /\ SvcTimesOut)
  /\ WF_staticVars(discovery = "static" /\ HealthThreadStep)
  /\ WF_threadVars(ScraperThread) /\ WF_threadVars(LifespanStep)

-----------------------------------------------------------------------------
(* Properties *)

\* What a step may do to the threads that were told to stop.
Winding ==
  /\ ~scraper_running =>
       /\ ~scraper_running'
       /\ \/ scraper' = scraper /\ todo' \subseteq todo
          \/ <<scraper, scraper'>> \in {<<"scraping", "sleeping">>, <<"sleeping", "between">>,
                                        <<"between", "over">>}
  /\ ~checks_running =>
       /\ ~checks_running'
       /\ \/ task' = task /\ unchecked' \subseteq unchecked
          \/ <<task, task'>> \in {<<"checking", "sleeping">>, <<"checking", "between">>,
                                  <<"sleeping", "between">>, <<"sleeping", "over">>,
                                  <<"between", "over">>}
  /\ ~watching =>
       /\ ~watching'
       /\ \/ svcWatcher' = svcWatcher
          \/ <<svcWatcher, svcWatcher'>> \in
               {<<"opening", "waiting">>, <<"waiting", "applying">>, <<"applying", "waiting">>,
                <<"waiting", "check">>, <<"applying", "check">>, <<"check", "stopped">>}

\* A thread that was told to stop is never told to go on, and ends whatever it was
\* doing then: the scraper and the health checks within the round they are in, the
\* watcher with the stream that it has open or is about to open, although opening
\* a stream clears the flag by which close() wanted it stopped.
WindsDown == [][Winding]_threadVars

\* Stopping the server ends: every thread is joined, or the close of the health
\* check gives up.
ShutdownEnds == (lifespan # "serving") ~> (lifespan \in {"closed", "aborted"})

=============================================================================
