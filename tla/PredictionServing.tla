--------------------------- MODULE PredictionServing ---------------------------
(***************************************************************************)
(* ModelServer.predict of python/acms/ai/inference/server.py: the cache in *)
(* front of it (PredictionCache, Redis with a local fallback), the bound   *)
(* of the request queue, and the model versions it executes.  ModelServer  *)
(* has the life cycle in detail; here a start makes every model ready and  *)
(* a stop drains them.                                                     *)
(*                                                                         *)
(* Everything runs on one asyncio loop, so a step is what a coroutine does *)
(* between two awaits that can suspend it: only those of Redis can.  The   *)
(* lock of the queue is never contended (nothing suspends under it) and    *)
(* _execute_inference awaits nothing.                                      *)
(***************************************************************************)
EXTENDS Integers, Sequences, FiniteSets

CONSTANTS
  Clients,      \* coroutines that call predict
  Versions,     \* versions that may be registered
  FirstVersion, \* "v1", registered by default
  Requests,     \* [version, input, enable_cache]
  Digest,       \* of each input, what its cache key has of it
  QueueSize,    \* RequestQueue.max_size
  MaxCached,    \* PredictionCache.max_size
  Latest, NoFeatures, NoEntry, Error, Empty

ASSUME ServingAssumption ==
  /\ FirstVersion \in Versions
  /\ Latest \notin Versions
  /\ QueueSize \in Nat \ {0} /\ MaxCached \in Nat \ {0}
  /\ IsFiniteSet(Clients)

VARIABLES
  registered, \* _models
  ready,      \* the versions whose _status is READY
  default,    \* _default_versions of the model
  waiting,    \* requests in the RequestQueue
  redis,      \* what Redis holds under each cache key
  connected,  \* PredictionCache._redis is not None
  local,      \* _local_fallback, oldest entry first
  call,       \* what each client's predict is doing, and its last answer
  active      \* InferenceMetrics._active_requests

serverVars == <<registered, ready, default, waiting>>
cacheVars == <<redis, connected, local>>
servingVars == <<registered, ready, default, waiting, redis, connected, local, call, active>>

-----------------------------------------------------------------------------
(* InferenceRequest.cache_key has twelve digits of a hash: of the bytes of *)
(* the features without their shape and dtype, and of the feature_dict     *)
(* sorted, though the model is given its values in the order they came in. *)
(* So inputs that a model tells apart may share a key; that no version is  *)
(* called "latest", the key of the requests for none, is assumed.          *)
(* Mutant: the version is left out.                                        *)
Key_NoVersion(q) == <<Latest, Digest[q.input]>>
Key(q) == <<q.version, Digest[q.input]>>
Keys == {<<q.version, Digest[q.input]>> : q \in Requests}
        \cup {<<Latest, Digest[q.input]>> : q \in Requests}

Answers == {Error, Empty} \cup (Versions \X {q.input : q \in Requests})

ServingInit ==
  /\ registered = {FirstVersion}
  /\ ready = {}
  /\ default = FirstVersion
  /\ waiting = 0
  /\ redis = [k \in Keys |-> NoEntry]
  /\ connected = FALSE
  /\ local = <<>>
  /\ call = [c \in Clients |-> [stage |-> "idle"]]
  /\ active = 0

-----------------------------------------------------------------------------
(* Models and the life cycle, as far as predict sees them.                 *)

(* A version registered anew is not loaded until the next start. *)
Register(v, isDefault) ==
  /\ registered' = registered \cup {v}
  /\ ready' = ready \ {v}
  /\ default' = IF isDefault THEN v ELSE default
  /\ UNCHANGED <<waiting, cacheVars, call, active>>

SetDefault(v) ==
  /\ v \in registered
  /\ default' = v
  /\ UNCHANGED <<registered, ready, waiting, cacheVars, call, active>>

(* start connects the cache, or falls back, and warms up what is registered. *)
Serve ==
  /\ ready' = registered
  /\ connected' \in BOOLEAN
  /\ UNCHANGED <<registered, default, waiting, redis, local, call, active>>

(* stop drains every model at once and disconnects the cache later. *)
Drain ==
  /\ ready' = {}
  /\ UNCHANGED <<registered, default, waiting, cacheVars, call, active>>

Disconnect ==
  /\ connected
  /\ connected' = FALSE
  /\ UNCHANGED <<serverVars, redis, local, call, active>>

(* The queue loop takes requests that predict has executed already. *)
Dequeue ==
  /\ waiting > 0
  /\ waiting' \in 0..(waiting - 1)
  /\ UNCHANGED <<registered, ready, default, cacheVars, call, active>>

-----------------------------------------------------------------------------
(* The prediction cache.                                                   *)

(* Where the local entry of a key is: at one place at most. *)
Places(key) == {i \in DOMAIN local : local[i][1] = key}

Others(key) ==
  IF Places(key) = {} THEN local
  ELSE LET i == CHOOSE i \in Places(key) : TRUE
       IN SubSeq(local, 1, i - 1) \o SubSeq(local, i + 1, Len(local))

(* An entry is put last; the oldest one goes when there are too many. *)
Remembered(key, value) ==
  LET kept == Append(Others(key), <<key, value>>)
  IN IF Len(kept) > MaxCached THEN Tail(kept) ELSE kept

Recall(key) ==
  IF Places(key) = {} THEN NoEntry ELSE local[CHOOSE i \in Places(key) : TRUE][2]

(* cache_data has no field for the error of a response. *)
CacheData(answer) == IF answer = Error THEN Empty ELSE answer

(* Time to live: the oldest local entry, or any one in Redis, runs out. *)
EntryExpires ==
  /\ \/ local # <<>> /\ local' = Tail(local) /\ UNCHANGED redis
     \/ \E k \in Keys : /\ redis[k] # NoEntry
                        /\ redis' = [redis EXCEPT ![k] = NoEntry]
                        /\ UNCHANGED local
  /\ UNCHANGED <<serverVars, connected, call, active>>

-----------------------------------------------------------------------------
(* predict.                                                                *)

Version(q) == IF q.version = Latest THEN default ELSE q.version
Runs(q) == Version(q) \in ready /\ q.input # NoFeatures

(* What _execute_inference returns now. *)
Outcomes(q) == {Error} \cup (IF Runs(q) THEN {<<Version(q), q.input>>} ELSE {})

Leave(n) == IF n = 0 THEN 0 ELSE n - 1

Respond(c, q, answer, n) ==
  /\ call' = [call EXCEPT ![c] = [stage |-> "idle", request |-> q, answer |-> answer]]
  /\ active' = Leave(n)

(* A miss: queue the request, execute it here and now all the same, and    *)
(* cache whatever came out of it, the errors too but for those raised      *)
(* before the model runs, by values that make no array.                    *)
Execute(c, q, n) ==
  \/ /\ waiting >= QueueSize
     /\ Respond(c, q, Error, n)
     /\ UNCHANGED <<waiting, local>>
  \/ /\ waiting < QueueSize
     /\ waiting' = waiting + 1
     /\ \E answer \in Outcomes(q) :
          \/ /\ q.enable_cache /\ connected
             /\ call' = [call EXCEPT ![c] = [stage |-> "storing", request |-> q,
                                             answer |-> answer]]
             /\ active' = n
             /\ UNCHANGED local
          \/ /\ q.enable_cache /\ ~connected
             /\ local' = Remembered(Key(q), CacheData(answer))
             /\ Respond(c, q, answer, n)
          \/ /\ ~q.enable_cache \/ (Runs(q) /\ answer = Error)
             /\ Respond(c, q, answer, n)
             /\ UNCHANGED local

(* PredictionCache.get has what Redis said; the local entry comes second. *)
Lookup(c, q, fromRedis, n) ==
  LET entry == IF fromRedis # NoEntry THEN fromRedis ELSE Recall(Key(q))
  IN IF entry = NoEntry
       THEN Execute(c, q, n)
       ELSE Respond(c, q, entry, n) /\ UNCHANGED <<waiting, local>>

Predict(c, q) ==
  /\ call[c].stage = "idle"
  /\ \/ /\ q.enable_cache /\ connected
        /\ call' = [call EXCEPT ![c] = [stage |-> "getting", request |-> q]]
        /\ active' = active + 1
        /\ UNCHANGED <<waiting, local>>
     \/ /\ q.enable_cache /\ ~connected
        /\ Lookup(c, q, NoEntry, active + 1)
     \/ /\ ~q.enable_cache
        /\ Execute(c, q, active + 1)
  /\ UNCHANGED <<registered, ready, default, redis, connected>>

(* Redis answers the GET, or raises. *)
GetReturns(c) ==
  /\ call[c].stage = "getting"
  /\ LET q == call[c].request
     IN \E found \in {redis[Key(q)], NoEntry} : Lookup(c, q, found, active)
  /\ UNCHANGED <<registered, ready, default, redis, connected>>

(* Redis takes the SETEX, or raises; the local copy is written anyhow. *)
SetReturns(c) ==
  /\ call[c].stage = "storing"
  /\ LET q == call[c].request
         value == CacheData(call[c].answer)
     IN /\ \/ redis' = [redis EXCEPT ![Key(q)] = value]
           \/ UNCHANGED redis
        /\ local' = Remembered(Key(q), value)
        /\ Respond(c, q, call[c].answer, active)
  /\ UNCHANGED <<serverVars, connected>>

-----------------------------------------------------------------------------
ServingNext ==
  \/ \E v \in Versions, isDefault \in BOOLEAN : Register(v, isDefault)
  \/ \E v \in Versions : SetDefault(v)
  \/ Serve
  \/ Drain
  \/ Disconnect
  \/ Dequeue
  \/ EntryExpires
  \/ \E c \in Clients, q \in Requests : Predict(c, q)
  \/ \E c \in Clients : GetReturns(c) \/ SetReturns(c)

ServingSpec == ServingInit /\ [][ServingNext]_servingVars

-----------------------------------------------------------------------------
(* Properties.                                                             *)

(* Every part of the state predict works on is in range. *)
ServingTypeOK ==
  /\ ready \subseteq registered /\ registered \subseteq Versions
  /\ default \in Versions
  /\ waiting \in 0..QueueSize
  /\ redis \in [Keys -> Answers \cup {NoEntry}]
  /\ connected \in BOOLEAN
  /\ local \in Seq(Keys \X Answers)
  /\ Len(local) <= MaxCached
  /\ \A c \in Clients : call[c].stage \in {"idle", "getting", "storing"}
  /\ active \in 0..Cardinality(Clients)

(* The gauge of active requests is the number of predicts under way, on    *)
(* every path out of predict.                                              *)
ActiveCountsCalls == active = Cardinality({c \in Clients : call[c].stage # "idle"})

(* Whatever is cached for a version, in Redis or locally, was computed by  *)
(* it, and for features of the digest in the key.                          *)
Fits(key, answer) ==
  \/ answer \in {NoEntry, Error, Empty}
  \/ Digest[answer[2]] = key[2] /\ key[1] \in {Latest, answer[1]}

CachesKeepVersions ==
  /\ \A k \in Keys : Fits(k, redis[k])
  /\ \A i \in DOMAIN local : Fits(local[i][1], local[i][2])

(* When a version was asked for, the answer comes from that version, and   *)
(* it is about the features that were sent or others of the same digest,   *)
(* whichever cache it went through and however the default moved           *)
(* meanwhile.  (That it is about the very features cannot be said: two     *)
(* inputs may share their key.)                                            *)
AnswersOwnRequest ==
  \A c \in Clients : "answer" \in DOMAIN call[c] =>
    Fits(<<call[c].request.version, Digest[call[c].request.input]>>, call[c].answer)

=============================================================================
