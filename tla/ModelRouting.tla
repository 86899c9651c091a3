------------------------------ MODULE ModelRouting ------------------------------
(***************************************************************************)
(* The model registry of AIOrchestrator, python/acms/ai/integration/       *)
(* orchestrator.py, behind the predict endpoint of api_routes.py and its   *)
(* prediction cache in Redis (redis_cache.py): models are registered,      *)
(* deployed, retired and deleted while requests are routed to them.        *)
(*                                                                         *)
(* One asyncio loop: a step is what a coroutine does between two awaits;   *)
(* those of Redis and of the inference semaphore can suspend it.  The      *)
(* requests are for one symbol and timeframe, so the cache holds one entry *)
(* for each model.                                                         *)
(***************************************************************************)
EXTENDS Integers, Sequences, FiniteSets, SequencesExt

CONSTANTS
  Models, Callers, Admins, ModelVersions,
  Requested,      \* the models that requests name
  MaxConcurrent,  \* max_concurrent_inferences
  Preloaded,      \* whether models are registered with an instance: in the
                  \* repository none is, they wait for their deployment
  MaxRecords,     \* bound: models registered
  NoPrediction, Neutral, NoRecord

ASSUME RoutingAssumption ==
  /\ {MaxConcurrent, MaxRecords} \subseteq Nat \ {0}
  /\ Requested \subseteq Models /\ Preloaded \subseteq BOOLEAN
  /\ IsFiniteSet(Callers)
  /\ NoRecord = 0

VARIABLES
  records,   \* every ModelRecord there was: [state, instance, version]
  registry,  \* _models: the record of each model
  cache,     \* PredictionCache: what Redis holds for each model
  permits,   \* _inference_semaphore
  route,     \* each request to the predict endpoint
  admin,     \* each deploy_model or retire_model under way
  deleted    \* models whose retire task, created by delete_model, is to run

routingVars == <<records, registry, cache, permits, route, admin, deleted>>

RoutingInit ==
  /\ records = <<>>
  /\ registry = [m \in Models |-> NoRecord]
  /\ cache = [m \in Models |-> NoPrediction]
  /\ permits = MaxConcurrent
  /\ route = [c \in Callers |-> [stage |-> "idle"]]
  /\ admin = [a \in Admins |-> [stage |-> "idle"]]
  /\ deleted = {}

(* What a model predicts, with its version in it; overtaken is history: an *)
(* invalidation passed it on its way to the cache, or failed on it.  The   *)
(* answers without a model, and after an error, are Neutral.               *)
Prediction(r) == [by |-> r, version |-> records[r].version, overtaken |-> FALSE]

-----------------------------------------------------------------------------
(* Registration and deployment.                                            *)

RegisterModel(m, version, hasInstance) ==
  /\ Len(records) < MaxRecords
  /\ records' = Append(records, [state |-> IF hasInstance THEN "ready" ELSE "registered",
                                 instance |-> hasInstance, version |-> version])
  /\ registry' = [registry EXCEPT ![m] = Len(records) + 1]
  /\ UNCHANGED <<cache, permits, route, admin, deleted>>

(* delete_model forgets the record before the task that is to retire it    *)
(* looks it up.                                                            *)
DeleteModel(m) ==
  /\ registry[m] # NoRecord
  /\ registry' = [registry EXCEPT ![m] = NoRecord]
  /\ deleted' = deleted \cup {m}
  /\ UNCHANGED <<records, cache, permits, route, admin>>

Serving(r) == [records EXCEPT ![r].state = "serving"]

(* Cached predictions are dropped when the version changes.  Mutant: they  *)
(* are left to expire.                                                     *)
Invalidates_Never(r, version) == FALSE
Invalidates(r, version) == records[r].version # version

Deploy(a, m, version) ==
  LET r == registry[m]
  IN /\ admin[a].stage = "idle"
     /\ r # NoRecord
     /\ LET deployed == [records EXCEPT ![r].instance = TRUE, ![r].version = version]
        IN \/ /\ Invalidates(r, version)
              /\ records' = deployed
              /\ admin' = [admin EXCEPT ![a] = [stage |-> "scanning", op |-> "deploy",
                                                model |-> m, record |-> r]]
           \/ /\ ~Invalidates(r, version)
              /\ records' = [deployed EXCEPT ![r].state = "serving"]
              /\ UNCHANGED admin
     /\ UNCHANGED <<registry, cache, permits, route, deleted>>

RetireRecord(m) ==
  LET r == registry[m]
  IN records' = [records EXCEPT ![r].state = "retired", ![r].instance = FALSE]

Retire(a, m) ==
  /\ admin[a].stage = "idle"
  /\ registry[m] # NoRecord
  /\ RetireRecord(m)
  /\ admin' = [admin EXCEPT ![a] = [stage |-> "scanning", op |-> "retire", model |-> m,
                                    record |-> registry[m]]]
  /\ UNCHANGED <<registry, cache, permits, route, deleted>>

(* The task of delete_model: it retires whoever has the name by now. *)
RetireTask(a, m) ==
  /\ m \in deleted
  /\ deleted' = deleted \ {m}
  /\ \/ /\ registry[m] = NoRecord
        /\ UNCHANGED <<records, admin>>
     \/ /\ registry[m] # NoRecord
        /\ admin[a].stage = "idle"
        /\ RetireRecord(m)
        /\ admin' = [admin EXCEPT ![a] = [stage |-> "scanning", op |-> "retire", model |-> m,
                                          record |-> registry[m]]]
  /\ UNCHANGED <<registry, cache, permits, route>>

(* invalidate_model is a scan and then a delete of the keys it found; a    *)
(* prediction made but not stored by then is overtaken.                    *)
Overtaken(p) == IF p \in {Neutral, NoPrediction} THEN p ELSE [p EXCEPT !.overtaken = TRUE]

OvertakeOnTheirWay ==
  route' = [c \in Callers |->
    IF route[c].stage = "storing" THEN [route[c] EXCEPT !.prediction = Overtaken(@)] ELSE route[c]]

Scanned(a) ==
  /\ admin[a].stage = "scanning"
  /\ admin' = [admin EXCEPT ![a].stage =
       IF cache[admin[a].model] = NoPrediction THEN "broadcasting" ELSE "deleting"]
  /\ OvertakeOnTheirWay
  /\ UNCHANGED <<records, registry, cache, permits, deleted>>

(* Redis raises in the scan or in the delete: nothing is dropped, and the  *)
(* caller is not told.                                                     *)
InvalidationFails(a) ==
  /\ admin[a].stage \in {"scanning", "deleting"}
  /\ admin' = [admin EXCEPT ![a].stage = "broadcasting"]
  /\ cache' = [cache EXCEPT ![admin[a].model] = Overtaken(@)]
  /\ OvertakeOnTheirWay
  /\ UNCHANGED <<records, registry, permits, deleted>>

KeysDeleted(a) ==
  /\ admin[a].stage = "deleting"
  /\ cache' = [cache EXCEPT ![admin[a].model] = NoPrediction]
  /\ admin' = [admin EXCEPT ![a].stage = "broadcasting"]
  /\ UNCHANGED <<records, registry, permits, route, deleted>>

BroadcastSent(a) ==
  /\ admin[a].stage = "broadcasting"
  /\ records' = IF admin[a].op = "deploy" THEN Serving(admin[a].record) ELSE records
  /\ admin' = [admin EXCEPT ![a] = [stage |-> "idle"]]
  /\ UNCHANGED <<registry, cache, permits, route, deleted>>

-----------------------------------------------------------------------------
(* The predict endpoint.                                                   *)

(* is_serving; nothing here makes a model DEGRADED. *)
IsServing(r) == r # NoRecord /\ records[r].state \in {"ready", "serving"}

(* The record of the model asked for, or else of any that serves. *)
Candidates(m) ==
  IF IsServing(registry[m]) THEN {registry[m]}
  ELSE {registry[n] : n \in {k \in Models : IsServing(registry[k])}}

(* A hit is the answer; else the orchestrator picks a record, before it    *)
(* waits for anything.  Redis may also raise, which is a miss.  What comes *)
(* before the read changes nothing, so the request begins with its result. *)
RouteRequest(c, m) ==
  /\ route[c].stage = "idle"
  /\ \/ /\ cache[m] # NoPrediction
        /\ UNCHANGED route
     \/ /\ Candidates(m) = {}
        /\ route' = [route EXCEPT ![c] = [stage |-> "storing", model |-> m,
                                         prediction |-> Neutral]]
     \/ \E r \in Candidates(m) :
          route' = [route EXCEPT ![c] = [stage |-> "waiting", model |-> m, record |-> r]]
  /\ UNCHANGED <<records, registry, cache, permits, admin, deleted>>

EnterInference(c) ==
  /\ route[c].stage = "waiting"
  /\ permits > 0
  /\ permits' = permits - 1
  /\ route' = [route EXCEPT ![c].stage = "features"]
  /\ UNCHANGED <<records, registry, cache, admin, deleted>>

(* The permit goes back on both ways out.  Mutant: not after an error. *)
Released_OnSuccess(failed) == IF failed THEN permits ELSE permits + 1
Released(failed) == permits + 1

(* The model, if the record still has one, is run on the features that     *)
(* were given or read; a success makes the record SERVING.                 *)
RunModel(c) ==
  LET r == route[c].record
      Store(p) == route' = [route EXCEPT ![c] = [stage |-> "storing", model |-> route[c].model,
                                               prediction |-> p]]
  IN /\ route[c].stage = "features"
     /\ \/ /\ Store(IF records[r].instance THEN Prediction(r) ELSE Neutral)
           /\ records' = Serving(r)
           /\ permits' = Released(FALSE)
        \/ /\ records[r].instance
           /\ Store(Neutral)
           /\ permits' = Released(TRUE)
           /\ UNCHANGED records
     /\ UNCHANGED <<registry, cache, admin, deleted>>

(* Whatever came out of it is cached, unless Redis raises. *)
CacheWritten(c) ==
  /\ route[c].stage = "storing"
  /\ \/ cache' = [cache EXCEPT ![route[c].model] = route[c].prediction]
     \/ UNCHANGED cache
  /\ route' = [route EXCEPT ![c] = [stage |-> "idle"]]
  /\ UNCHANGED <<records, registry, permits, admin, deleted>>

(* prediction_ttl runs out. *)
PredictionExpires(m) ==
  /\ cache[m] # NoPrediction
  /\ cache' = [cache EXCEPT ![m] = NoPrediction]
  /\ UNCHANGED <<records, registry, permits, route, admin, deleted>>

-----------------------------------------------------------------------------
Administration ==
  \/ \E m \in Models, version \in ModelVersions, hasInstance \in Preloaded :
       RegisterModel(m, version, hasInstance)
  \/ \E m \in Models : DeleteModel(m)
  \/ \E a \in Admins, m \in Models :
       \/ \E version \in ModelVersions : Deploy(a, m, version)
       \/ Retire(a, m)
       \/ RetireTask(a, m)
  \/ \E a \in Admins : Scanned(a) \/ KeysDeleted(a) \/ InvalidationFails(a) \/ BroadcastSent(a)

RoutingNext ==
  \/ Administration
  \/ \E c \in Callers, m \in Requested : RouteRequest(c, m)
  \/ \E c \in Callers : EnterInference(c) \/ RunModel(c) \/ CacheWritten(c)
  \/ \E m \in Models : PredictionExpires(m)

RoutingSpec == RoutingInit /\ [][RoutingNext]_routingVars

-----------------------------------------------------------------------------
(* Properties.                                                             *)

Records == {NoRecord} \cup DOMAIN records
Predictions == [by : Records, version : ModelVersions, overtaken : BOOLEAN]
               \cup {Neutral, NoPrediction}

(* Every part of the state is in range, and every permit is free or held   *)
(* by a request that runs its model.                                       *)
RoutingTypeOK ==
  /\ records \in Seq([state : {"registered", "ready", "serving", "retired"},
                      instance : BOOLEAN, version : ModelVersions])
  /\ registry \in [Models -> Records]
  /\ cache \in [Models -> Predictions]
  /\ permits = MaxConcurrent - Cardinality({c \in Callers : route[c].stage = "features"})
  /\ permits \in Nat
  /\ \A c \in Callers : route[c].stage \in {"idle", "waiting", "features", "storing"}
  /\ \A a \in Admins :
       admin[a].stage \in {"idle", "scanning", "deleting", "broadcasting"}
  /\ deleted \subseteq Models

Untouched(m) == \A a \in Admins : admin[a].stage = "idle" \/ admin[a].model # m

(* What requests for m are answered from the cache, if it is a prediction  *)
(* of the model n, is one of n as it is now, unless n is being deployed or *)
(* retired, or the prediction was on its way to the cache while the keys   *)
(* of n were being dropped, or dropping them failed.  (A prediction of a   *)
(* record that was deleted or replaced by another registration is of no    *)
(* model n any more: neither operation is meant to drop anything.)         *)
Current(m, n) ==
  LET e == cache[m]
      r == registry[n]
  IN /\ e \notin {NoPrediction, Neutral} /\ r # NoRecord /\ e.by = r
     /\ ~e.overtaken /\ Untouched(n)
     => records[r].instance /\ e.version = records[r].version

(* Once a deployment or a retirement of a model is through, none of its    *)
(* old predictions under its own key is served from the cache any more.    *)
(* (Those that it made in the place of a model that does not serve are     *)
(* under the key of that one: FallbacksAreDropped.)                        *)
InvalidatedWhenChanged == \A m \in Models : Current(m, m)

(* The same of all its cached predictions: "Invalidate all cached          *)
(* predictions for a model", says invalidate_model.                        *)
FallbacksAreDropped == \A m, n \in Models : Current(m, n)

=============================================================================
