----------------------------- MODULE ModelFactory -----------------------------
(***************************************************************************)
(* ModelFactory.create_model (src/app/models/factory.py) and the singleton *)
(* it calls, get_sentiment_analyzer or get_onnx_sentiment_analyzer, for    *)
(* one backend and path.  Requests resolve their model in threads, nothing *)
(* takes a lock, and loading a model takes long: each check of a request   *)
(* can be out of date when it acts on it.  A model instance has the name   *)
(* of the request that loaded it.                                          *)
(***************************************************************************)
EXTENDS Integers, FiniteSets

CONSTANTS Requests,   \* calls of create_model
          NoModel,    \* no instance
          MaxResets   \* bound: calls of reset_models

ASSUME FactoryAssumption == NoModel \notin Requests /\ MaxResets \in Nat

VARIABLES cachedModel,  \* _model_cache[cache_key]
          singleton,    \* the global of the model's module
          request,      \* where each request is in create_model
          model,        \* the instance a request holds or has returned
          loaded,       \* requests that have loaded an instance
          latecomers,   \* requests that began once an instance had been loaded
          resets        \* calls of reset_models so far

factoryVars == <<cachedModel, singleton, request, model, loaded, latecomers, resets>>

FactoryTypeOK ==
    /\ cachedModel \in Requests \cup {NoModel}
    /\ singleton \in Requests \cup {NoModel}
    /\ request \in [Requests -> {"new", "found", "creating", "loading", "returning",
                                 "storing", "answered", "failed"}]
    /\ model \in [Requests -> Requests \cup {NoModel}]
    /\ loaded \subseteq Requests /\ latecomers \subseteq Requests
    /\ resets \in 0..MaxResets

FactoryInit ==
    /\ cachedModel = NoModel /\ singleton = NoModel
    /\ request = [r \in Requests |-> "new"]
    /\ model = [r \in Requests |-> NoModel]
    /\ loaded = {} /\ latecomers = {}
    /\ resets = 0

-----------------------------------------------------------------------------

\* create_model is called and looks into its cache.
CreateModel(r) ==
    /\ request[r] = "new"
    /\ request' = [request EXCEPT ![r] = IF cachedModel # NoModel THEN "found"
                                                                  ELSE "creating"]
    /\ latecomers' = IF singleton # NoModel THEN latecomers \cup {r} ELSE latecomers
    /\ UNCHANGED <<cachedModel, singleton, model, loaded, resets>>

\* It takes the instance out of the cache: a KeyError if a reset came in between.
TakeCached(r) ==
    /\ request[r] = "found"
    /\ request' = [request EXCEPT ![r] = IF cachedModel # NoModel THEN "answered"
                                                                  ELSE "failed"]
    /\ model' = [model EXCEPT ![r] = cachedModel]
    /\ UNCHANGED <<cachedModel, singleton, loaded, latecomers, resets>>

\* Fault: the singleton's function loads without looking at its global.
GetAnalyzerAnew(r) ==
    /\ request[r] = "creating"
    /\ request' = [request EXCEPT ![r] = "loading"]
    /\ UNCHANGED <<cachedModel, singleton, model, loaded, latecomers, resets>>

\* The singleton's function looks at its global.
GetAnalyzer(r) ==
    /\ request[r] = "creating"
    /\ request' = [request EXCEPT ![r] = IF singleton = NoModel THEN "loading"
                                                                ELSE "returning"]
    /\ UNCHANGED <<cachedModel, singleton, model, loaded, latecomers, resets>>

\* The constructor has loaded r's instance, or raised.
ModelLoaded(r) ==
    /\ request[r] = "loading"
    /\ \/ /\ singleton' = r
          /\ loaded' = loaded \cup {r}
          /\ request' = [request EXCEPT ![r] = "returning"]
       \/ /\ request' = [request EXCEPT ![r] = "failed"]
          /\ UNCHANGED <<singleton, loaded>>
    /\ UNCHANGED <<cachedModel, model, latecomers, resets>>

\* The function returns what the global holds now.
ReturnSingleton(r) ==
    /\ request[r] = "returning"
    /\ model' = [model EXCEPT ![r] = singleton]
    /\ request' = [request EXCEPT ![r] = "storing"]
    /\ UNCHANGED <<cachedModel, singleton, loaded, latecomers, resets>>

\* create_model caches the instance and returns it.
StoreModel(r) ==
    /\ request[r] = "storing"
    /\ cachedModel' = model[r]
    /\ request' = [request EXCEPT ![r] = "answered"]
    /\ UNCHANGED <<singleton, model, loaded, latecomers, resets>>

\* reset_models empties the cache and leaves the global.
ResetModels ==
    /\ resets < MaxResets
    /\ resets' = resets + 1
    /\ cachedModel' = NoModel
    /\ UNCHANGED <<singleton, request, model, loaded, latecomers>>

FactoryNext ==
    \/ ResetModels
    \/ \E r \in Requests : \/ CreateModel(r) \/ TakeCached(r) \/ GetAnalyzer(r)
                           \/ ModelLoaded(r) \/ ReturnSingleton(r) \/ StoreModel(r)

FactorySpec == FactoryInit /\ [][FactoryNext]_factoryVars

-----------------------------------------------------------------------------
(* Properties.                                                               *)

\* Until reset_models is called: requests that begin together may load a model each, but
\* one that begins when any of them has loaded loads none, cannot fail, and is answered
\* with an instance another one loaded, although neither the cache nor the global is locked
\* and the loaders overwrite each other's (factory.py:59, pytorch_sentiment.py:370).
LatecomersShare ==
    resets = 0 =>
        \A r \in latecomers :
            /\ r \notin loaded
            /\ request[r] \notin {"loading", "failed"}
            /\ request[r] = "answered" => model[r] \in loaded
=============================================================================
