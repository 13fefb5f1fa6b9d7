--------------------------- MODULE ExternalProviders ---------------------------
(***************************************************************************)
(* Models served by external providers (src/vllm_router/external_providers *)
(* and process_external_provider_request of request.py): registration at   *)
(* startup, validation against what each provider offers, requests with    *)
(* their retries, and close.                                               *)
(*                                                                         *)
(* A configuration is a sequence of providers, each [name, models], models *)
(* a sequence of [id, aliases].  An adapter is named by its position.      *)
(***************************************************************************)
EXTENDS Integers, Sequences, FiniteSetsExt

CONSTANTS Configurations,       \* the configurations a behaviour may start with
          ModelNames,           \* ids and aliases
          NoModel,
          ExternalRequests,
          max_retries

ASSUME ConfigurationsAssumption ==
  \A c \in Configurations :
    /\ Len(c) \in Nat /\ DOMAIN c = 1 .. Len(c)
    /\ \A a \in DOMAIN c : c[a].models \in Seq([id : ModelNames, aliases : SUBSET ModelNames])

\* 3 unless configured.  With a negative number send_request would not ask the provider
\* at all; such a configuration is not modelled.
ASSUME RetriesAssumption == max_retries \in Nat

VARIABLES providers,            \* the configuration
          startup,              \* registering, validating, serving, failed or closed
          position,             \* the provider registered or validated next
          adapters,             \* _adapters: provider name |-> adapter
          model_index,          \* _model_index: model name |-> [provider, adapter, canonical]
          sessions,             \* adapter |-> its client session: none, open or closed
          offered,              \* history: adapter |-> the models it listed when validated
          call                  \* request |-> its state

extVars == <<providers, startup, position, adapters, model_index, sessions, offered, call>>

NoCall == [pc |-> "new", attempt |-> 0]
Empty == [x \in {} |-> NoModel]

ExtInit ==
  /\ providers \in Configurations
  /\ startup = "registering" /\ position = 1
  /\ adapters = Empty /\ model_index = Empty
  /\ sessions = [a \in DOMAIN providers |-> "none"]
  /\ offered = [a \in DOMAIN providers |-> {}]
  /\ call = [r \in ExternalRequests |-> NoCall]

-----------------------------------------------------------------------------
(* ExternalProviderManager *)

Names(model) == {model.id} \cup model.aliases

\* The names of a provider's models, and the model that each ends up with when
\* the models are registered in their order.
AllNames(config) == UNION {Names(config.models[i]) : i \in DOMAIN config.models}

LastModel(config, name) ==
  config.models[Max({i \in DOMAIN config.models : name \in Names(config.models[i])})].id

\* A name that is taken by another provider raises, and the startup fails.
register ==
  /\ startup = "registering" /\ position \in DOMAIN providers
  /\ LET config == providers[position]
         taken  == {n \in AllNames(config) \cap DOMAIN model_index :
                      model_index[n].provider # config.name} IN
     IF taken # {}
     THEN startup' = "failed" /\ UNCHANGED <<position, adapters, model_index>>
     ELSE /\ adapters' = [p \in DOMAIN adapters \cup {config.name} |->
                            IF p = config.name THEN position ELSE adapters[p]]
          /\ model_index' =
               [n \in DOMAIN model_index \cup AllNames(config) |->
                  IF n \in AllNames(config)
                  THEN [provider |-> config.name, adapter |-> position,
                        canonical |-> LastModel(config, n)]
                  ELSE model_index[n]]
          /\ position' = position + 1
          /\ UNCHANGED startup
  /\ UNCHANGED <<providers, sessions, offered, call>>

\* Everything is registered, and lifespan validates.
Registered ==
  /\ startup = "registering" /\ position > Len(providers)
  /\ startup' = "validating" /\ position' = 1
  /\ UNCHANGED <<providers, adapters, model_index, sessions, offered, call>>

\* _get_session
Opened(a) == [sessions EXCEPT ![a] = "open"]

\* What a provider may list; empty when the list cannot be fetched or parsed.
fetch_available_model_ids == SUBSET ModelNames

validate_models_ids_only(available) ==
  /\ startup = "validating" /\ position \in DOMAIN providers
  /\ LET a == position
         removed == {n \in DOMAIN model_index :
                       /\ available # {} /\ model_index[n].provider = providers[a].name
                       /\ n = model_index[n].canonical /\ n \notin available} IN
     IF adapters[providers[a].name] = a
     THEN /\ sessions' = Opened(a)
          /\ offered' = [offered EXCEPT ![a] = available]
          /\ model_index' = [n \in DOMAIN model_index \ removed |-> model_index[n]]
     ELSE UNCHANGED <<sessions, offered, model_index>>
  /\ position' = position + 1
  /\ UNCHANGED <<providers, startup, adapters, call>>

\* One provider of validate_models: its list, empty when it cannot be fetched,
\* decides which of the provider's names are kept.  Of two configurations with
\* one provider name only the later is in _adapters.
validate_models(available) ==
  /\ startup = "validating" /\ position \in DOMAIN providers
  /\ LET a == position
         removed == {n \in DOMAIN model_index :
                       /\ available # {} /\ model_index[n].provider = providers[a].name
                       /\ model_index[n].canonical \notin available} IN
     IF adapters[providers[a].name] = a
     THEN /\ sessions' = Opened(a)
          /\ offered' = [offered EXCEPT ![a] = available]
          /\ model_index' = [n \in DOMAIN model_index \ removed |-> model_index[n]]
     ELSE UNCHANGED <<sessions, offered, model_index>>
  /\ position' = position + 1
  /\ UNCHANGED <<providers, startup, adapters, call>>

Validated ==
  /\ startup = "validating" /\ position > Len(providers)
  /\ startup' = "serving"
  /\ UNCHANGED <<providers, position, adapters, model_index, sessions, offered, call>>

CloseProviders_stops_early ==
  /\ startup = "serving"
  /\ \A r \in ExternalRequests : call[r].pc \notin {"sending", "hung", "streaming"}
  /\ startup' = "closed"
  /\ sessions' = [sessions EXCEPT ![1] = IF @ = "open" THEN "closed" ELSE @]
  /\ adapters' = Empty /\ model_index' = Empty
  /\ UNCHANGED <<providers, position, offered, call>>

\* The server has drained its requests.
CloseProviders ==
  /\ startup = "serving"
  /\ \A r \in ExternalRequests : call[r].pc \notin {"sending", "hung", "streaming"}
  /\ startup' = "closed"
  /\ sessions' = [a \in DOMAIN sessions |->
                    IF sessions[a] = "open" /\ \E p \in DOMAIN adapters : adapters[p] = a
                    THEN "closed" ELSE sessions[a]]
  /\ adapters' = Empty /\ model_index' = Empty
  /\ UNCHANGED <<providers, position, offered, call>>

-----------------------------------------------------------------------------
(* Requests *)

\* resolve_model_id: the first model that has the name.
resolve_model_id(config, name) ==
  config.models[Min({i \in DOMAIN config.models : name \in Names(config.models[i])})].id

\* is_external_model, lookup_adapter, and send_request up to its first await.
SendRequest(r) ==
  /\ startup = "serving" /\ call[r] = NoCall
  /\ \E name \in DOMAIN model_index :
       LET a == model_index[name].adapter IN
       /\ call' = [call EXCEPT ![r] =
                     [pc |-> "sending", attempt |-> 0, name |-> name, adapter |-> a,
                      model |-> resolve_model_id(providers[a], name)]]
       /\ sessions' = Opened(a)
  /\ UNCHANGED <<providers, startup, position, adapters, model_index, offered>>

ProviderAnswers(r) ==
  /\ call[r].pc = "sending"
  /\ \E pc \in {"answered", "streaming"} : call' = [call EXCEPT ![r].pc = pc]
  /\ UNCHANGED <<providers, startup, position, adapters, model_index, sessions, offered>>

ProviderFails_no_count(r) ==
  /\ call[r].pc = "sending"
  /\ call' = [call EXCEPT ![r].attempt = IF @ < max_retries THEN @ + 1 ELSE 0]
  /\ UNCHANGED <<providers, startup, position, adapters, model_index, sessions, offered>>

\* aiohttp.ClientError, timeouts included: tried again, up to the bound.
ProviderFails(r) ==
  /\ call[r].pc = "sending"
  /\ call' = [call EXCEPT ![r].attempt = @ + 1,
                          ![r].pc = IF call[r].attempt + 1 <= max_retries THEN "sending"
                                    ELSE "bad gateway"]
  /\ UNCHANGED <<providers, startup, position, adapters, model_index, sessions, offered>>

\* The session has timeouts for connecting and for each read but none in all: an
\* attempt that is fed a little at a time, or whose upload is not read, never ends.
AttemptHangs(r) ==
  /\ call[r].pc = "sending"
  /\ call' = [call EXCEPT ![r].pc = "hung"]
  /\ UNCHANGED <<providers, startup, position, adapters, model_index, sessions, offered>>

\* Another exception, such as a body that is not JSON: 502 at once.
ProviderRaises(r) ==
  /\ call[r].pc = "sending"
  /\ call' = [call EXCEPT ![r].pc = "raised"]
  /\ UNCHANGED <<providers, startup, position, adapters, model_index, sessions, offered>>

StreamOver(r) ==
  /\ call[r].pc = "streaming"
  /\ \E pc \in {"answered", "broken"} : call' = [call EXCEPT ![r].pc = pc]
  /\ UNCHANGED <<providers, startup, position, adapters, model_index, sessions, offered>>

ExtDone ==
  /\ startup \in {"failed", "closed"} \/ \E r \in ExternalRequests : call[r].pc = "hung"
  /\ UNCHANGED extVars

CallStep(r) == ProviderAnswers(r) \/ ProviderFails(r) \/ ProviderRaises(r) \/ AttemptHangs(r)

StartupStep ==
  register \/ Registered \/ Validated \/ \E available \in fetch_available_model_ids : validate_models(available)

ExtNext ==
  \/ StartupStep \/ CloseProviders \/ ExtDone
  \/ \E r \in ExternalRequests : SendRequest(r) \/ CallStep(r) \/ StreamOver(r)

\* The loop runs what is ready: each attempt ends, or never does.
ExtFairness == \A r \in ExternalRequests : WF_extVars(CallStep(r))

ExtSpec == ExtInit /\ [][ExtNext]_extVars /\ ExtFairness

-----------------------------------------------------------------------------
(* Properties *)

\* No name is of two models of a provider, and no two providers share a name.
Unambiguous ==
  /\ \A a \in DOMAIN providers : \A i, j \in DOMAIN providers[a].models :
       i # j => Names(providers[a].models[i]) \cap Names(providers[a].models[j]) = {}
  /\ \A a, b \in DOMAIN providers : providers[a].name = providers[b].name => a = b

\* With an unambiguous configuration every request goes to a provider that has the
\* requested name, and under a model that validate_models saw the provider offer,
\* if it could be asked at startup.
RoutedToOffered ==
  Unambiguous =>
    \A r \in ExternalRequests :
      call[r].pc # "new" =>
        /\ call[r].name \in AllNames(providers[call[r].adapter])
        /\ offered[call[r].adapter] # {} => call[r].model \in offered[call[r].adapter]

\* After close no session of a provider is left open, if the configuration is
\* unambiguous: of two configurations with one provider name the earlier is not closed.
SessionsClosed ==
  startup = "closed" /\ Unambiguous => \A a \in DOMAIN sessions : sessions[a] # "open"

\* An external request is answered, refused, or begins to stream, unless a single
\* attempt goes on for ever: the retries alone cannot hold it.
ExternalAnswered == \A r \in ExternalRequests : (call[r].pc = "sending") ~> (call[r].pc # "sending")

=============================================================================
