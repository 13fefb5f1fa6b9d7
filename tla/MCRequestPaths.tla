---------------------------- MODULE MCRequestPaths ----------------------------
(***************************************************************************)
(* The request paths beside the JSON one, for TLC: a behaviour is of the   *)
(* uploads, the disaggregated requests, the sleep requests or the external *)
(* providers, which share no state.                                        *)
(***************************************************************************)
EXTENDS MultipartProxy, DisaggregatedRequests, SleepMode, ExternalProviders

VARIABLES path

\* Two providers that agree, a name of one taken by the other, two names for two
\* models, a name and an alias given to two models of a provider, and a provider
\* entered twice.
MCConfigurations ==
  LET model(id, aliases) == [id |-> id, aliases |-> aliases]
      provider(name, models) == [name |-> name, models |-> models] IN
  {<<provider("p", <<model("a", {"x"})>>), provider("q", <<model("b", {})>>)>>,
   <<provider("p", <<model("a", {"x"})>>), provider("q", <<model("b", {"x"})>>)>>,
   <<provider("p", <<model("a", {}), model("b", {"x"})>>)>>,
   <<provider("p", <<model("a", {"x"}), model("b", {"x"})>>)>>,
   <<provider("p", <<model("a", {"b"}), model("b", {})>>)>>,
   <<provider("p", <<model("a", {})>>), provider("p", <<model("b", {})>>)>>}

PathsInit ==
  /\ path \in {"uploads", "disaggregated", "sleep", "external"}
  /\ UploadInit /\ PDInit /\ SleepInit /\ ExtInit
  /\ path # "disaggregated" => kind = "orchestrated"
  /\ path # "sleep" => by = "pod-ip"
  /\ path # "external" => providers = <<[name |-> "p", models |-> <<[id |-> "a", aliases |-> {}],
                                                                   [id |-> "b", aliases |-> {"x"}]>>]>>

PathsNext ==
  /\ \/ path = "uploads" /\ UploadNext /\ UNCHANGED <<pdVars, sleepVars, extVars>>
     \/ path = "disaggregated" /\ PDNext /\ UNCHANGED <<allVars, sleepVars, extVars>>
     \/ path = "sleep" /\ SleepNext /\ UNCHANGED <<allVars, pdVars, extVars>>
     \/ path = "external" /\ ExtNext /\ UNCHANGED <<allVars, pdVars, sleepVars>>
  /\ UNCHANGED path

PathsSpec ==
  /\ PathsInit
  /\ [][PathsNext]_<<allVars, pdVars, sleepVars, extVars, path>>
  /\ ExtFairness

=============================================================================
