----------------------------- MODULE ServingProofs -----------------------------
(* That ModelServer.predict answers with the version it was asked for and on *)
(* features of the digest it was sent, whatever the caches hold and however  *)
(* versions and defaults move while it waits for Redis, for any number of    *)
(* clients, versions, requests, digests and entries; and that behind the API *)
(* the cache serves, under a model's own key, none of its predictions from   *)
(* before a deployment or a retirement that is through, for any number of    *)
(* models, callers and administrators.                                       *)
(*                                                                           *)
(* The first invariant says what each place an answer can be in holds:       *)
(* Redis, the local entries, and the calls under way.  The second says who   *)
(* is about to overtake or drop each prediction that became stale.           *)
EXTENDS PredictionServing, ModelRouting, FiniteSetTheorems, SequenceTheorems, TLAPS

(* Entries whose answer fits the key they are under. *)
GoodEntries == {e \in Keys \X Answers : Fits(e[1], e[2])}

Calls ==
  [stage : {"idle"}] \cup [stage : {"idle"}, request : Requests, answer : Answers]
    \cup [stage : {"getting"}, request : Requests]
    \cup [stage : {"storing"}, request : Requests, answer : Answers]

ModelsInv ==
  /\ ready \subseteq registered /\ registered \subseteq Versions
  /\ default \in Versions
  /\ connected \in BOOLEAN

RedisInv ==
  /\ redis \in [Keys -> Answers \cup {NoEntry}]
  /\ \A k \in Keys : Fits(k, redis[k])

LocalInv == local \in Seq(GoodEntries) /\ Len(local) <= MaxCached

CallsInv ==
  /\ waiting \in 0..QueueSize
  /\ call \in [Clients -> Calls]
  /\ AnswersOwnRequest

DataInv == ModelsInv /\ RedisInv /\ LocalInv /\ CallsInv

-----------------------------------------------------------------------------
(* The helpers keep what fits. *)
LEMMA KeyInKeys == \A q \in Requests : Key(q) \in Keys
BY DEF Key, Keys

LEMMA CacheDataFits ==
  ASSUME NEW k, NEW a \in Answers, Fits(k, a)
  PROVE  CacheData(a) \in Answers /\ Fits(k, CacheData(a))
BY DEF CacheData, Answers, Fits

LEMMA OutcomesFit ==
  ASSUME ModelsInv, NEW q \in Requests, NEW a \in Outcomes(q)
  PROVE  a \in Answers /\ Fits(Key(q), a)
BY ServingAssumption DEF ModelsInv, Outcomes, Runs, Version, Answers, Fits, Key

LEMMA EntriesFit ==
  ASSUME LocalInv, NEW i \in DOMAIN local
  PROVE  local[i] \in GoodEntries /\ i \in 1..Len(local)
BY DEF LocalInv

LEMMA RecallFits ==
  ASSUME LocalInv, NEW k \in Keys, Recall(k) # NoEntry
  PROVE  Recall(k) \in Answers /\ Fits(k, Recall(k))
<1>1. Places(k) # {}
  BY DEF Recall
<1> DEFINE i == CHOOSE i \in Places(k) : TRUE
<1>2. i \in DOMAIN local /\ local[i][1] = k
  BY <1>1 DEF Places
<1>3. Recall(k) = local[i][2]
  BY <1>1 DEF Recall
<1>4. local[i] \in GoodEntries
  BY <1>2, EntriesFit
<1> QED BY <1>2, <1>3, <1>4 DEF GoodEntries

(* A sequence without its i-th element.  *)
LEMMA WithoutElement ==
  ASSUME NEW S, NEW s \in Seq(S), NEW i \in 1..Len(s)
  PROVE  LET t == SubSeq(s, 1, i - 1) \o SubSeq(s, i + 1, Len(s))
         IN t \in Seq(S) /\ Len(t) = Len(s) - 1
<1> DEFINE before == SubSeq(s, 1, i - 1)
           after == SubSeq(s, i + 1, Len(s))
<1>0. Len(s) \in Nat /\ i \in Nat /\ 1 <= i /\ i <= Len(s)
  BY LenProperties
<1>1. before \in Seq(S) /\ Len(before) = i - 1
  <2>1. 1 \in Int /\ i - 1 \in Int /\ \A j \in 1..i - 1 : s[j] \in S
    BY <1>0
  <2>2. /\ before \in Seq(S)
        /\ Len(before) = IF 1 <= i - 1 THEN (i - 1) - 1 + 1 ELSE 0
    BY <2>1, SubSeqProperties
  <2> QED BY <2>2, <1>0
<1>2. after \in Seq(S) /\ Len(after) = Len(s) - i
  <2>1. i + 1 \in Int /\ Len(s) \in Int /\ \A j \in i + 1..Len(s) : s[j] \in S
    BY <1>0
  <2>2. /\ after \in Seq(S)
        /\ Len(after) = IF i + 1 <= Len(s) THEN Len(s) - (i + 1) + 1 ELSE 0
    BY <2>1, SubSeqProperties
  <2> QED BY <2>2, <1>0
<1> HIDE DEF before, after
<1>3. before \o after \in Seq(S) /\ Len(before \o after) = Len(before) + Len(after)
  BY <1>1, <1>2, ConcatProperties
<1>4. Len(before \o after) = Len(s) - 1
  BY <1>0, <1>1, <1>2, <1>3
<1> QED BY <1>3, <1>4 DEF before, after

LEMMA OthersFit ==
  ASSUME LocalInv, NEW k
  PROVE  Others(k) \in Seq(GoodEntries) /\ Len(Others(k)) <= Len(local)
<1>1. CASE Places(k) = {}
  BY <1>1 DEF Others, LocalInv
<1>2. CASE Places(k) # {}
  <2> DEFINE i == CHOOSE i \in Places(k) : TRUE
  <2>1. i \in 1..Len(local)
    BY <1>2, EntriesFit DEF Places
  <2>2. Others(k) = SubSeq(local, 1, i - 1) \o SubSeq(local, i + 1, Len(local))
    BY <1>2 DEF Others
  <2>3. local \in Seq(GoodEntries)
    BY DEF LocalInv
  <2> HIDE DEF i
  <2>4. Others(k) \in Seq(GoodEntries) /\ Len(Others(k)) = Len(local) - 1
    BY <2>1, <2>2, <2>3, WithoutElement
  <2> QED BY <2>1, <2>3, <2>4, LenProperties
<1> QED BY <1>1, <1>2

(* A new entry that fits keeps the local entries fit, and within the bound. *)
LEMMA RememberedFits ==
  ASSUME LocalInv, NEW k \in Keys, NEW a \in Answers, Fits(k, a)
  PROVE  Remembered(k, a) \in Seq(GoodEntries) /\ Len(Remembered(k, a)) <= MaxCached
<1> DEFINE kept == Append(Others(k), <<k, a>>)
<1>1. <<k, a>> \in GoodEntries
  BY DEF GoodEntries
<1>2. kept \in Seq(GoodEntries) /\ Len(kept) = Len(Others(k)) + 1
  BY <1>1, OthersFit, AppendProperties
<1>3. Len(kept) <= MaxCached + 1 /\ kept # <<>>
  <2>1. /\ Len(Others(k)) <= Len(local) /\ Len(local) <= MaxCached
        /\ Len(Others(k)) \in Nat /\ Len(local) \in Nat /\ MaxCached \in Nat
    BY OthersFit, LenProperties, ServingAssumption DEF LocalInv
  <2>2. Len(<<>>) = 0
    BY EmptySeq
  <2> HIDE DEF kept
  <2> QED BY <1>2, <2>1, <2>2
<1>4. Tail(kept) \in Seq(GoodEntries) /\ Len(Tail(kept)) = Len(kept) - 1
  BY <1>2, <1>3, HeadTailProperties
<1>5. Remembered(k, a) = IF Len(kept) > MaxCached THEN Tail(kept) ELSE kept
  BY DEF Remembered
<1> HIDE DEF kept
<1> QED BY <1>2, <1>3, <1>4, <1>5, ServingAssumption

-----------------------------------------------------------------------------
(* The steps of predict. *)
RequestKey(q) == <<q.version, Digest[q.input]>>

LEMMA KeyIsRequestKey == \A q \in Requests : Key(q) = RequestKey(q)
BY DEF Key, RequestKey

(* What a call that waits for Redis remembers. *)
LEMMA WaitingCalls ==
  ASSUME CallsInv, NEW c \in Clients, call[c].stage # "idle"
  PROVE  /\ call[c].request \in Requests
         /\ call[c].stage = "storing" =>
              call[c].answer \in Answers /\ Fits(Key(call[c].request), call[c].answer)
<1>1. call[c] \in Calls
  BY DEF CallsInv
<1>2. CASE call[c].stage = "storing"
  <2>1. call[c] \in [stage : {"storing"}, request : Requests, answer : Answers]
    BY <1>1, <1>2 DEF Calls
  <2>2. "answer" \in DOMAIN call[c]
    BY <2>1
  <2> QED BY <2>1, <2>2, KeyIsRequestKey DEF CallsInv, AnswersOwnRequest, RequestKey
<1>3. CASE call[c].stage # "storing"
  <2>1. call[c] \in [stage : {"getting"}, request : Requests]
    BY <1>1, <1>3 DEF Calls
  <2> QED BY <2>1, <1>3
<1> QED BY <1>2, <1>3

LEMMA AnswerKeeps ==
  ASSUME CallsInv, NEW c \in Clients, NEW q \in Requests, NEW a \in Answers, Fits(Key(q), a),
         NEW stage \in {"idle", "storing"},
         call' = [call EXCEPT ![c] = [stage |-> stage, request |-> q, answer |-> a]]
  PROVE  call' \in [Clients -> Calls] /\ AnswersOwnRequest'
<1> DEFINE r == [stage |-> stage, request |-> q, answer |-> a]
<1>1. r \in Calls
  BY DEF Calls
<1>2. call' \in [Clients -> Calls] /\ call'[c] = r /\ \A d \in Clients \ {c} : call'[d] = call[d]
  BY <1>1 DEF CallsInv
<1>3. r.request = q /\ r.answer = a
  OBVIOUS
<1>4. ASSUME NEW d \in Clients, "answer" \in DOMAIN call'[d]
      PROVE  Fits(<<call'[d].request.version, Digest[call'[d].request.input]>>, call'[d].answer)
  <2>1. CASE d = c
    BY <2>1, <1>2, <1>3 DEF Key
  <2>2. CASE d # c
    BY <2>2, <1>2, <1>4 DEF CallsInv, AnswersOwnRequest
  <2> QED BY <2>1, <2>2
<1>5. AnswersOwnRequest'
  BY <1>4 DEF AnswersOwnRequest, Fits, Answers
<1> QED BY <1>2, <1>5

LEMMA AskingKeeps ==
  ASSUME CallsInv, NEW c \in Clients, NEW q \in Requests,
         call' = [call EXCEPT ![c] = [stage |-> "getting", request |-> q]]
  PROVE  call' \in [Clients -> Calls] /\ AnswersOwnRequest'
<1> DEFINE r == [stage |-> "getting", request |-> q]
<1>1. r \in Calls /\ "answer" \notin DOMAIN r
  BY DEF Calls
<1>2. call' \in [Clients -> Calls] /\ call'[c] = r /\ \A d \in Clients \ {c} : call'[d] = call[d]
  BY <1>1 DEF CallsInv
<1>3. ASSUME NEW d \in Clients, "answer" \in DOMAIN call'[d]
      PROVE  Fits(<<call'[d].request.version, Digest[call'[d].request.input]>>, call'[d].answer)
  BY <1>1, <1>2, <1>3 DEF CallsInv, AnswersOwnRequest
<1>4. AnswersOwnRequest'
  BY <1>3 DEF AnswersOwnRequest, Fits, Answers
<1> QED BY <1>2, <1>4

(* A miss, executed and cached. *)
LEMMA ExecuteKeeps ==
  ASSUME DataInv, NEW c \in Clients, NEW q \in Requests, NEW n, Execute(c, q, n)
  PROVE  LocalInv' /\ CallsInv'
<1>0. ModelsInv /\ LocalInv /\ CallsInv
  BY DEF DataInv
<1>1. CASE waiting >= QueueSize
  <2>1. Error \in Answers /\ Fits(Key(q), Error)
    BY DEF Answers, Fits
  <2>2. waiting < QueueSize => FALSE
    BY <1>0, <1>1, ServingAssumption DEF CallsInv
  <2>3. Respond(c, q, Error, n) /\ UNCHANGED <<waiting, local>>
    BY <2>2 DEF Execute
  <2>4. call' \in [Clients -> Calls] /\ AnswersOwnRequest'
    BY <1>0, <2>1, <2>3, AnswerKeeps DEF Respond
  <2> QED BY <1>0, <2>3, <2>4 DEF LocalInv, CallsInv
<1>2. CASE ~(waiting >= QueueSize)
  <2>1. waiting' \in 0..QueueSize
    BY <1>0, <1>2, ServingAssumption DEF Execute, CallsInv
  <2>2. PICK a \in Outcomes(q) :
          \/ /\ call' = [call EXCEPT ![c] = [stage |-> "storing", request |-> q, answer |-> a]]
             /\ UNCHANGED local
          \/ /\ local' = Remembered(Key(q), CacheData(a))
             /\ Respond(c, q, a, n)
          \/ /\ Respond(c, q, a, n)
             /\ UNCHANGED local
    BY <1>2 DEF Execute
  <2>3. a \in Answers /\ Fits(Key(q), a)
    BY <1>0, OutcomesFit
  <2>4. call' \in [Clients -> Calls] /\ AnswersOwnRequest'
    BY <1>0, <2>2, <2>3, AnswerKeeps DEF Respond
  <2>5. CacheData(a) \in Answers /\ Fits(Key(q), CacheData(a)) /\ Key(q) \in Keys
    BY <2>3, CacheDataFits, KeyInKeys
  <2>6. /\ Remembered(Key(q), CacheData(a)) \in Seq(GoodEntries)
        /\ Len(Remembered(Key(q), CacheData(a))) <= MaxCached
    BY <1>0, <2>5, RememberedFits
  <2>7. LocalInv'
    <3>1. local' = local \/ local' = Remembered(Key(q), CacheData(a))
      BY <2>2
    <3> QED BY <3>1, <2>6, <1>0 DEF LocalInv, GoodEntries, Keys, Answers, Fits
  <2> QED BY <2>1, <2>4, <2>7 DEF CallsInv, Calls, Answers
<1> QED BY <1>1, <1>2

(* A lookup, whether Redis, the local entries or neither has the answer. *)
LEMMA LookupKeeps ==
  ASSUME DataInv, NEW c \in Clients, NEW q \in Requests, NEW found, NEW n,
         found # NoEntry => found \in Answers /\ Fits(Key(q), found),
         Lookup(c, q, found, n)
  PROVE  LocalInv' /\ CallsInv'
<1> DEFINE entry == IF found # NoEntry THEN found ELSE Recall(Key(q))
<1>0. LocalInv /\ CallsInv /\ Key(q) \in Keys
  BY KeyInKeys DEF DataInv
<1>1. entry # NoEntry => entry \in Answers /\ Fits(Key(q), entry)
  BY <1>0, RecallFits
<1>2. IF entry = NoEntry THEN Execute(c, q, n)
      ELSE Respond(c, q, entry, n) /\ UNCHANGED <<waiting, local>>
  BY DEF Lookup
<1> HIDE DEF entry
<1>3. CASE entry = NoEntry
  BY <1>2, <1>3, ExecuteKeeps
<1>4. CASE entry # NoEntry
  <2>1. call' \in [Clients -> Calls] /\ AnswersOwnRequest'
    BY <1>0, <1>1, <1>2, <1>4, AnswerKeeps DEF Respond
  <2> QED BY <1>0, <1>2, <1>4, <2>1 DEF LocalInv, CallsInv
<1> QED BY <1>3, <1>4

(* Every step keeps what the caches and the calls hold. *)
LEMMA DataStep == DataInv /\ [ServingNext]_servingVars => DataInv'
<1> SUFFICES ASSUME DataInv, [ServingNext]_servingVars PROVE DataInv'
    OBVIOUS
<1> USE DEF DataInv
<1>a. ASSUME UNCHANGED cacheVars PROVE RedisInv' /\ LocalInv'
  BY <1>a DEF RedisInv, LocalInv, cacheVars
<1>b. ASSUME UNCHANGED call, waiting' \in 0..QueueSize PROVE CallsInv'
  BY <1>b DEF CallsInv, AnswersOwnRequest
<1>1. ASSUME NEW v \in Versions, NEW isDefault \in BOOLEAN, Register(v, isDefault)
      PROVE  DataInv'
  BY <1>1, <1>a, <1>b DEF Register, ModelsInv, cacheVars, CallsInv
<1>2. ASSUME NEW v \in Versions, SetDefault(v) PROVE DataInv'
  BY <1>2, <1>a, <1>b DEF SetDefault, ModelsInv, cacheVars, CallsInv
<1>3. CASE Serve
  <2>1. ModelsInv'
    BY <1>3 DEF Serve, ModelsInv
  <2>2. RedisInv' /\ LocalInv'
    BY <1>3 DEF Serve, RedisInv, LocalInv
  <2>3. CallsInv'
    BY <1>3, <1>b DEF Serve, CallsInv
  <2> QED BY <2>1, <2>2, <2>3
<1>4. CASE Drain
  BY <1>4, <1>a, <1>b DEF Drain, ModelsInv, cacheVars, CallsInv
<1>5. CASE Disconnect
  <2>1. RedisInv' /\ LocalInv'
    BY <1>5 DEF Disconnect, RedisInv, LocalInv
  <2> QED BY <1>5, <1>b, <2>1 DEF Disconnect, serverVars, ModelsInv, CallsInv
<1>6. CASE Dequeue
  <2>1. waiting' \in 0..QueueSize
    BY <1>6, ServingAssumption DEF Dequeue, CallsInv
  <2> QED BY <1>6, <1>a, <1>b, <2>1 DEF Dequeue, ModelsInv, cacheVars
<1>7. CASE EntryExpires
  <2>1. CASE local # <<>> /\ local' = Tail(local) /\ UNCHANGED redis
    <3>1. Tail(local) \in Seq(GoodEntries) /\ Len(Tail(local)) = Len(local) - 1
      BY <2>1, HeadTailProperties DEF LocalInv
    <3>2. LocalInv'
      BY <2>1, <3>1, LenProperties, ServingAssumption DEF LocalInv, GoodEntries, Keys, Answers, Fits
    <3>3. RedisInv'
      BY <2>1 DEF RedisInv
    <3> QED BY <1>7, <1>b, <3>2, <3>3 DEF EntryExpires, serverVars, ModelsInv, CallsInv
  <2>2. ASSUME NEW k \in Keys, redis' = [redis EXCEPT ![k] = NoEntry], UNCHANGED local
        PROVE  DataInv'
    <3>1. RedisInv'
      BY <2>2 DEF RedisInv, Fits
    <3>2. LocalInv'
      BY <2>2 DEF LocalInv
    <3> QED BY <1>7, <1>b, <3>1, <3>2 DEF EntryExpires, serverVars, ModelsInv, CallsInv
  <2> QED BY <1>7, <2>1, <2>2 DEF EntryExpires
<1>8. ASSUME NEW c \in Clients, NEW q \in Requests, Predict(c, q) PROVE DataInv'
  <2>1. ModelsInv' /\ RedisInv'
    BY <1>8 DEF Predict, ModelsInv, RedisInv
  <2>2. CASE /\ call' = [call EXCEPT ![c] = [stage |-> "getting", request |-> q]]
             /\ UNCHANGED <<waiting, local>>
    BY <2>1, <2>2, AskingKeeps DEF LocalInv, CallsInv
  <2>3. CASE Lookup(c, q, NoEntry, active + 1)
    BY <2>1, <2>3, LookupKeeps
  <2>4. CASE Execute(c, q, active + 1)
    BY <2>1, <2>4, ExecuteKeeps
  <2> QED BY <1>8, <2>2, <2>3, <2>4 DEF Predict
<1>9. ASSUME NEW c \in Clients, GetReturns(c) PROVE DataInv'
  <2> DEFINE q == call[c].request
  <2>1. q \in Requests /\ Key(q) \in Keys
    BY <1>9, WaitingCalls, KeyInKeys DEF GetReturns
  <2>2. PICK found \in {redis[Key(q)], NoEntry} : Lookup(c, q, found, active)
    BY <1>9 DEF GetReturns
  <2>3. found # NoEntry => found \in Answers /\ Fits(Key(q), found)
    BY <2>1, <2>2 DEF RedisInv
  <2>4. ModelsInv' /\ RedisInv'
    BY <1>9 DEF GetReturns, ModelsInv, RedisInv
  <2> QED BY <2>1, <2>2, <2>3, <2>4, LookupKeeps
<1>10. ASSUME NEW c \in Clients, SetReturns(c) PROVE DataInv'
  <2> DEFINE q == call[c].request
             a == call[c].answer
             value == CacheData(a)
  <2>1. q \in Requests /\ a \in Answers /\ Fits(Key(q), a) /\ Key(q) \in Keys
    BY <1>10, WaitingCalls, KeyInKeys DEF SetReturns
  <2>2. value \in Answers /\ Fits(Key(q), value)
    BY <2>1, CacheDataFits
  <2>3. /\ redis' = [redis EXCEPT ![Key(q)] = value] \/ UNCHANGED redis
        /\ local' = Remembered(Key(q), value)
        /\ Respond(c, q, a, active)
        /\ UNCHANGED <<serverVars, connected>>
    BY <1>10 DEF SetReturns
  <2> HIDE DEF q, a, value
  <2>4. RedisInv'
    BY <2>1, <2>2, <2>3 DEF RedisInv
  <2>5. LocalInv'
    BY <2>1, <2>2, <2>3, RememberedFits DEF LocalInv, GoodEntries, Keys, Answers, Fits
  <2>6. CallsInv'
    <3>1. call' \in [Clients -> Calls] /\ AnswersOwnRequest'
      BY <2>1, <2>3, AnswerKeeps DEF Respond
    <3> QED BY <2>3, <3>1 DEF CallsInv, serverVars
  <2> QED BY <2>3, <2>4, <2>5, <2>6 DEF serverVars, ModelsInv
<1>11. CASE UNCHANGED servingVars
  BY <1>11, <1>a, <1>b DEF servingVars, cacheVars, ModelsInv, CallsInv
<1> QED BY <1>1, <1>2, <1>3, <1>4, <1>5, <1>6, <1>7, <1>8, <1>9, <1>10, <1>11 DEF ServingNext

LEMMA DataInit == ServingInit => DataInv
<1> SUFFICES ASSUME ServingInit PROVE DataInv
    OBVIOUS
<1>1. ModelsInv
  BY ServingAssumption DEF ServingInit, ModelsInv
<1>2. RedisInv
  BY DEF ServingInit, RedisInv, Fits
<1>3. LocalInv
  BY ServingAssumption, EmptySeq DEF ServingInit, LocalInv
<1>4. CallsInv
  <2> DEFINE r == [stage |-> "idle"]
  <2>1. r \in Calls /\ "answer" \notin DOMAIN r
    BY DEF Calls
  <2> QED BY <2>1, ServingAssumption DEF ServingInit, CallsInv, AnswersOwnRequest
<1> QED BY <1>1, <1>2, <1>3, <1>4 DEF DataInv

(* When a version was asked for, the answer comes from it, and it is about *)
(* features of the digest of those that were sent, whichever cache it went *)
(* through and however few inputs a digest tells apart.                    *)
THEOREM ServingAnswersOwnRequest == ServingSpec => []AnswersOwnRequest
<1>1. DataInv => AnswersOwnRequest
  BY DEF DataInv, CallsInv
<1> QED BY DataInit, DataStep, <1>1, PTL DEF ServingSpec

(* What either cache holds under a version and a digest was computed by    *)
(* that version from features of that digest, or is an error's empty       *)
(* answer.                                                                 *)
THEOREM ServingCachesKeepVersions == ServingSpec => []CachesKeepVersions
<1>1. DataInv => CachesKeepVersions
  <2> SUFFICES ASSUME DataInv PROVE CachesKeepVersions
      OBVIOUS
  <2>1. ASSUME NEW i \in DOMAIN local PROVE Fits(local[i][1], local[i][2])
    BY <2>1, EntriesFit DEF DataInv, GoodEntries
  <2> QED BY <2>1 DEF CachesKeepVersions, DataInv, RedisInv
<1> QED BY DataInit, DataStep, <1>1, PTL DEF ServingSpec

-----------------------------------------------------------------------------
(* The gauge of active requests.  Execute and Lookup either end the call,   *)
(* with one active request less, or leave it storing.                       *)
Busy == {c \in Clients : call[c].stage # "idle"}

CallBecomes(c, stage) ==
  \E r : r.stage = stage /\ call' = [call EXCEPT ![c] = r]

Settles(c, n) ==
  \/ CallBecomes(c, "idle") /\ active' = Leave(n)
  \/ CallBecomes(c, "storing") /\ active' = n

LEMMA RespondSettles ==
  ASSUME NEW c, NEW q, NEW a, NEW n, Respond(c, q, a, n)
  PROVE  Settles(c, n)
<1> DEFINE r == [stage |-> "idle", request |-> q, answer |-> a]
<1>1. r.stage = "idle" /\ call' = [call EXCEPT ![c] = r]
  BY DEF Respond
<1>2. CallBecomes(c, "idle")
  BY <1>1 DEF CallBecomes
<1> QED BY <1>2 DEF Respond, Settles

LEMMA ExecuteSettles ==
  ASSUME NEW c, NEW q, NEW n, Execute(c, q, n)
  PROVE  Settles(c, n)
<1>1. \/ \E a : Respond(c, q, a, n)
      \/ \E a : /\ call' = [call EXCEPT ![c] = [stage |-> "storing", request |-> q, answer |-> a]]
                /\ active' = n
  BY DEF Execute
<1>2. ASSUME NEW a, active' = n,
             call' = [call EXCEPT ![c] = [stage |-> "storing", request |-> q, answer |-> a]]
      PROVE  Settles(c, n)
  <2> DEFINE r == [stage |-> "storing", request |-> q, answer |-> a]
  <2>1. r.stage = "storing" /\ call' = [call EXCEPT ![c] = r]
    BY <1>2
  <2>2. CallBecomes(c, "storing")
    BY <2>1 DEF CallBecomes
  <2> QED BY <1>2, <2>2 DEF Settles
<1> QED BY <1>1, <1>2, RespondSettles

LEMMA LookupSettles ==
  ASSUME NEW c, NEW q, NEW found, NEW n, Lookup(c, q, found, n)
  PROVE  Settles(c, n)
BY RespondSettles, ExecuteSettles DEF Lookup

LEMMA BusyChanges ==
  ASSUME CallsInv, NEW c \in Clients, NEW stage, CallBecomes(c, stage)
  PROVE  Busy' = IF stage = "idle" THEN Busy \ {c} ELSE Busy \cup {c}
<1>1. PICK r : r.stage = stage /\ call' = [call EXCEPT ![c] = r]
  BY DEF CallBecomes
<1>2. call \in [Clients -> Calls]
  BY DEF CallsInv
<1>3. \A d \in Clients : call'[d].stage = IF d = c THEN stage ELSE call[d].stage
  BY <1>1, <1>2
<1> QED BY <1>3 DEF Busy

LEMMA BusyIsFinite == IsFiniteSet(Busy) /\ Cardinality(Busy) \in 0..Cardinality(Clients)
BY ServingAssumption, FS_Subset, FS_CardinalityType DEF Busy

(* A call that settles leaves the gauge at the number of calls under way,   *)
(* whether it came in just now or was one of them already.                  *)
LEMMA SettlingCounts ==
  ASSUME CallsInv, ActiveCountsCalls, NEW c \in Clients, NEW n, Settles(c, n),
         \/ call[c].stage = "idle" /\ n = active + 1
         \/ call[c].stage # "idle" /\ n = active
  PROVE  ActiveCountsCalls'
<1>1. active = Cardinality(Busy) /\ IsFiniteSet(Busy) /\ Cardinality(Busy) \in Nat
  BY BusyIsFinite, FS_CardinalityType DEF ActiveCountsCalls, Busy
<1>2. c \in Busy <=> call[c].stage # "idle"
  BY DEF Busy
<1>3. /\ Cardinality(Busy \cup {c}) = IF c \in Busy THEN active ELSE active + 1
      /\ Cardinality(Busy \ {c}) = IF c \in Busy THEN active - 1 ELSE active
  BY <1>1, FS_AddElement, FS_RemoveElement
<1>4. c \in Busy => active > 0
  BY <1>1, FS_EmptySet
<1>5. n = IF c \in Busy THEN active ELSE active + 1
  BY <1>2
<1>6. CASE CallBecomes(c, "idle") /\ active' = Leave(n)
  <2>1. Busy' = Busy \ {c}
    BY <1>6, BusyChanges
  <2>2. active' = Cardinality(Busy \ {c})
    BY <1>1, <1>3, <1>4, <1>5, <1>6 DEF Leave
  <2> QED BY <2>1, <2>2 DEF ActiveCountsCalls, Busy
<1>7. CASE CallBecomes(c, "storing") /\ active' = n
  <2>1. Busy' = Busy \cup {c}
    BY <1>7, BusyChanges
  <2> QED BY <1>3, <1>5, <1>7, <2>1 DEF ActiveCountsCalls, Busy
<1> QED BY <1>6, <1>7 DEF Settles

LEMMA CountStep ==
  CallsInv /\ ActiveCountsCalls /\ [ServingNext]_servingVars => ActiveCountsCalls'
<1> SUFFICES ASSUME CallsInv, ActiveCountsCalls, [ServingNext]_servingVars
             PROVE  ActiveCountsCalls'
    OBVIOUS
<1>a. ASSUME UNCHANGED <<call, active>> PROVE ActiveCountsCalls'
  BY <1>a DEF ActiveCountsCalls
<1>1. ASSUME NEW c \in Clients, NEW q \in Requests, Predict(c, q) PROVE ActiveCountsCalls'
  <2>1. CASE /\ call' = [call EXCEPT ![c] = [stage |-> "getting", request |-> q]]
             /\ active' = active + 1
    <3> DEFINE r == [stage |-> "getting", request |-> q]
    <3>1. CallBecomes(c, "getting")
      <4>1. r.stage = "getting" /\ call' = [call EXCEPT ![c] = r]
        BY <2>1
      <4> QED BY <4>1 DEF CallBecomes
    <3>2. Busy' = Busy \cup {c}
      BY <3>1, BusyChanges
    <3>3. c \notin Busy
      BY <1>1 DEF Predict, Busy
    <3>4. Cardinality(Busy \cup {c}) = Cardinality(Busy) + 1
      BY <3>3, BusyIsFinite, FS_AddElement
    <3> QED BY <2>1, <3>2, <3>4 DEF ActiveCountsCalls, Busy
  <2>2. CASE Settles(c, active + 1)
    BY <1>1, <2>2, SettlingCounts DEF Predict
  <2> QED BY <1>1, <2>1, <2>2, LookupSettles, ExecuteSettles DEF Predict
<1>2. ASSUME NEW c \in Clients, GetReturns(c) PROVE ActiveCountsCalls'
  <2>1. call[c].stage # "idle" /\ \E found : Lookup(c, call[c].request, found, active)
    BY <1>2 DEF GetReturns
  <2> QED BY <2>1, LookupSettles, SettlingCounts
<1>3. ASSUME NEW c \in Clients, SetReturns(c) PROVE ActiveCountsCalls'
  <2>1. call[c].stage # "idle" /\ Respond(c, call[c].request, call[c].answer, active)
    BY <1>3 DEF SetReturns
  <2> QED BY <2>1, RespondSettles, SettlingCounts
<1>4. CASE \/ \E v \in Versions, isDefault \in BOOLEAN : Register(v, isDefault)
           \/ \E v \in Versions : SetDefault(v)
           \/ Serve \/ Drain \/ Disconnect \/ Dequeue \/ EntryExpires
  BY <1>4, <1>a DEF Register, SetDefault, Serve, Drain, Disconnect, Dequeue, EntryExpires
<1>5. CASE UNCHANGED servingVars
  BY <1>5, <1>a DEF servingVars
<1> QED BY <1>1, <1>2, <1>3, <1>4, <1>5 DEF ServingNext

LEMMA CountInit == ServingInit => ActiveCountsCalls
<1> SUFFICES ASSUME ServingInit PROVE ActiveCountsCalls
    OBVIOUS
<1>1. Busy = {}
  BY DEF ServingInit, Busy
<1> QED BY <1>1, FS_EmptySet DEF ServingInit, ActiveCountsCalls, Busy

(* The gauge of active requests is the number of predicts under way, on    *)
(* every path out of predict.                                              *)
THEOREM ServingCountsCalls == ServingSpec => []ActiveCountsCalls
<1>1. DataInv => CallsInv
  BY DEF DataInv
<1> QED BY DataInit, CountInit, DataStep, CountStep, <1>1, PTL DEF ServingSpec

(* The state predict works on is always in range: the queue and the local  *)
(* entries within their bounds, the gauge within the number of clients.    *)
THEOREM ServingTypeCorrect == ServingSpec => []ServingTypeOK
<1>1. DataInv /\ ActiveCountsCalls => ServingTypeOK
  <2> SUFFICES ASSUME DataInv, ActiveCountsCalls PROVE ServingTypeOK
      OBVIOUS
  <2>1. active \in 0..Cardinality(Clients)
    BY BusyIsFinite DEF ActiveCountsCalls, Busy
  <2>2. \A c \in Clients : call[c].stage \in {"idle", "getting", "storing"}
    <3>1. \A r \in Calls : r.stage \in {"idle", "getting", "storing"}
      BY DEF Calls
    <3> QED BY <3>1 DEF DataInv, CallsInv
  <2>3. local \in Seq(Keys \X Answers) /\ Len(local) <= MaxCached
    <3>1. GoodEntries \subseteq Keys \X Answers
      BY DEF GoodEntries
    <3> QED BY <3>1 DEF DataInv, LocalInv
  <2> QED BY <2>1, <2>2, <2>3 DEF DataInv, ModelsInv, RedisInv, CallsInv, ServingTypeOK
<1> QED BY DataInit, CountInit, DataStep, CountStep, ServingCountsCalls, <1>1, PTL DEF ServingSpec

-----------------------------------------------------------------------------
(* The registry and the cache behind the API.                                *)

(* What the parts of the routing hold when n models were registered. *)
ModelRecords ==
  [state : {"registered", "ready", "serving", "retired"}, instance : BOOLEAN,
   version : ModelVersions]
Made(n) ==
  [by : 0..n, version : ModelVersions, overtaken : BOOLEAN] \cup {Neutral, NoPrediction}
RoutesTo(n) ==
  [stage : {"idle"}]
    \cup [stage : {"waiting", "features"}, model : Models, record : 1..n]
    \cup [stage : {"storing"}, model : Models, prediction : Made(n)]
AdminTasks(n) ==
  [stage : {"idle"}]
    \cup [stage : {"scanning", "deleting", "broadcasting"}, op : {"deploy", "retire"},
          model : Models, record : 1..n]

PermitsInv ==
  /\ permits = MaxConcurrent - Cardinality({c \in Callers : route[c].stage = "features"})
  /\ permits \in Nat

RoutingParts ==
  /\ records \in Seq(ModelRecords)
  /\ registry \in [Models -> 0..Len(records)]
  /\ cache \in [Models -> Made(Len(records))]
  /\ route \in [Callers -> RoutesTo(Len(records))]
  /\ admin \in [Admins -> AdminTasks(Len(records))]
  /\ deleted \subseteq Models
  /\ PermitsInv

(* No two models share a record. *)
OneNameEach ==
  \A m, n \in Models : registry[m] = registry[n] /\ registry[m] # NoRecord => m = n

(* A prediction of the model's present record, which the cache must not     *)
(* serve: the record has another version by now, or no instance.            *)
Stale(m, p) ==
  /\ p \notin {NoPrediction, Neutral}
  /\ registry[m] # NoRecord /\ p.by = registry[m]
  /\ ~p.overtaken
  /\ ~(records[registry[m]].instance /\ p.version = records[registry[m]].version)

Doing(m, stages) == \E a \in Admins : admin[a].stage \in stages /\ admin[a].model = m

(* A stale prediction on its way to the cache is to be overtaken by a scan; *)
(* one in the cache is to be dropped by a delete.                           *)
EnRouteInv ==
  \A c \in Callers :
    route[c].stage = "storing" /\ Stale(route[c].model, route[c].prediction)
      => Doing(route[c].model, {"scanning"})
CachedInv ==
  \A m \in Models : Stale(m, cache[m]) => Doing(m, {"scanning", "deleting"})

RoutingInv == RoutingParts /\ OneNameEach /\ EnRouteInv /\ CachedInv

(* What the constants of the routing are.                                   *)
LEMMA RoutingBounds ==
  /\ MaxConcurrent \in Nat \ {0} /\ MaxRecords \in Nat \ {0} /\ NoRecord = 0
  /\ Requested \subseteq Models /\ Preloaded \subseteq BOOLEAN
  /\ IsFiniteSet(Callers)
BY RoutingAssumption

(* What a request, or an administrator, holds at each stage. *)
LEMMA RouteIs ==
  ASSUME NEW n \in Nat, NEW q \in RoutesTo(n)
  PROVE  /\ q.stage \in {"idle", "waiting", "features", "storing"}
         /\ q.stage \in {"waiting", "features"} =>
              /\ q.model \in Models /\ q.record \in 1..n
              /\ [q EXCEPT !.stage = "features"] \in RoutesTo(n)
              /\ [q EXCEPT !.stage = "features"].stage = "features"
         /\ q.stage = "storing" => q.model \in Models /\ q.prediction \in Made(n)
BY DEF RoutesTo

(* And what an administrator has under way.                                 *)
LEMMA TaskIs ==
  ASSUME NEW n \in Nat, NEW t \in AdminTasks(n)
  PROVE  /\ t.stage \in {"idle", "scanning", "deleting", "broadcasting"}
         /\ t.stage # "idle" =>
              /\ t.model \in Models /\ t.record \in 1..n
              /\ \A stage \in {"deleting", "broadcasting"} :
                   /\ [t EXCEPT !.stage = stage] \in AdminTasks(n)
                   /\ [t EXCEPT !.stage = stage].stage = stage
                   /\ [t EXCEPT !.stage = stage].model = t.model
BY DEF AdminTasks

(* Whatever a request or an administrator is set to is one of those.        *)
LEMMA StagesMade ==
  ASSUME NEW n \in Nat, NEW m \in Models
  PROVE  /\ [stage |-> "idle"] \in RoutesTo(n) /\ [stage |-> "idle"] \in AdminTasks(n)
         /\ \A r \in 1..n : [stage |-> "waiting", model |-> m, record |-> r] \in RoutesTo(n)
         /\ \A p \in Made(n) :
              [stage |-> "storing", model |-> m, prediction |-> p] \in RoutesTo(n)
         /\ \A r \in 1..n, op \in {"deploy", "retire"} :
              [stage |-> "scanning", op |-> op, model |-> m, record |-> r] \in AdminTasks(n)
BY DEF RoutesTo, AdminTasks

(* All of them stay what they are when one more model is registered. *)
LEMMA OneRecordMore ==
  ASSUME NEW n \in Nat
  PROVE  /\ Made(n) \subseteq Made(n + 1) /\ RoutesTo(n) \subseteq RoutesTo(n + 1)
         /\ AdminTasks(n) \subseteq AdminTasks(n + 1)
<1>0. 0..n \subseteq 0..(n + 1) /\ 1..n \subseteq 1..(n + 1)
  OBVIOUS
<1>1. Made(n) \subseteq Made(n + 1)
  BY <1>0 DEF Made
<1>2. RoutesTo(n) \subseteq RoutesTo(n + 1)
  BY <1>0, <1>1 DEF RoutesTo
<1>3. AdminTasks(n) \subseteq AdminTasks(n + 1)
  BY <1>0 DEF AdminTasks
<1> QED BY <1>1, <1>2, <1>3

(* A prediction that is overtaken is still one, and says so.                *)
LEMMA OvertakenMade ==
  ASSUME NEW n \in Nat, NEW p \in Made(n)
  PROVE  /\ Overtaken(p) \in Made(n)
         /\ Overtaken(p) \notin {NoPrediction, Neutral} => Overtaken(p).overtaken
BY DEF Made, Overtaken

(* A record that is served, or retired, or deployed. *)
LEMMA RecordChanged ==
  ASSUME records \in Seq(ModelRecords), NEW r \in 1..Len(records),
         NEW next \in ModelRecords
  PROVE  /\ [records EXCEPT ![r] = next] \in Seq(ModelRecords)
         /\ Len([records EXCEPT ![r] = next]) = Len(records)
         /\ \A i \in 1..Len(records) :
              [records EXCEPT ![r] = next][i] = IF i = r THEN next ELSE records[i]
BY ExceptSeq, LenProperties

(* A record has an instance, or none, and a version.                        *)
LEMMA RecordIs ==
  ASSUME records \in Seq(ModelRecords), NEW r \in 1..Len(records)
  PROVE  /\ records[r] \in ModelRecords
         /\ records[r].instance \in BOOLEAN /\ records[r].version \in ModelVersions
<1>1. records[r] \in ModelRecords
  OBVIOUS
<1> QED BY <1>1 DEF ModelRecords

(* A record that serves keeps its instance and its version.                 *)
LEMMA ServingRecord ==
  ASSUME records \in Seq(ModelRecords), NEW r \in 1..Len(records)
  PROVE  /\ Serving(r) \in Seq(ModelRecords) /\ Len(Serving(r)) = Len(records)
         /\ \A i \in 1..Len(records) :
              /\ Serving(r)[i].instance = records[i].instance
              /\ Serving(r)[i].version = records[i].version
<1> DEFINE next == [records[r] EXCEPT !.state = "serving"]
<1>1. /\ next \in ModelRecords /\ next.instance = records[r].instance
      /\ next.version = records[r].version
  BY RecordIs DEF ModelRecords
<1>2. Serving(r) = [records EXCEPT ![r] = next]
  BY DEF Serving
<1> HIDE DEF next
<1> QED BY <1>1, <1>2, RecordChanged

(* A deployment gives the record an instance and the version, and changes   *)
(* no other.                                                                *)
LEMMA DeployedRecord ==
  ASSUME records \in Seq(ModelRecords), NEW a, NEW m \in Models, NEW version \in ModelVersions,
         registry[m] \in 1..Len(records), Deploy(a, m, version)
  PROVE  /\ records' \in Seq(ModelRecords) /\ Len(records') = Len(records)
         /\ \A i \in 1..Len(records) \ {registry[m]} : records'[i] = records[i]
         /\ records'[registry[m]].instance /\ records'[registry[m]].version = version
<1>0. PICK r \in 1..Len(records) : r = registry[m]
  OBVIOUS
<1> DEFINE deployed == [records EXCEPT ![r].instance = TRUE, ![r].version = version]
           served == [deployed EXCEPT ![r].state = "serving"]
           first == [records[r] EXCEPT !.instance = TRUE, !.version = version]
           second == [first EXCEPT !.state = "serving"]
<1>1. /\ first \in ModelRecords /\ second \in ModelRecords
      /\ \A next \in {first, second} : next.instance /\ next.version = version
  BY RecordIs DEF ModelRecords
<1>2. r \in DOMAIN records
  BY LenProperties
<1>3. deployed = [records EXCEPT ![r] = first]
  BY <1>2
<1>4. served = [records EXCEPT ![r] = second]
  BY <1>2
<1>5. records' \in {deployed, served}
  BY <1>0 DEF Deploy
<1> HIDE DEF first, second, deployed, served
<1>6. PICK next \in {first, second} : records' = [records EXCEPT ![r] = next]
  BY <1>3, <1>4, <1>5
<1> QED BY <1>0, <1>1, <1>6, RecordChanged

(* A retirement changes no other record either.                             *)
LEMMA RetiredRecord ==
  ASSUME records \in Seq(ModelRecords), NEW m \in Models, registry[m] \in 1..Len(records),
         RetireRecord(m)
  PROVE  /\ records' \in Seq(ModelRecords) /\ Len(records') = Len(records)
         /\ \A i \in 1..Len(records) \ {registry[m]} : records'[i] = records[i]
<1> DEFINE r == registry[m]
           next == [records[r] EXCEPT !.state = "retired", !.instance = FALSE]
<1>1. next \in ModelRecords
  BY RecordIs DEF ModelRecords
<1>2. r \in DOMAIN records
  BY LenProperties
<1>3. records' = [records EXCEPT ![r] = next]
  BY <1>2 DEF RetireRecord
<1> HIDE DEF next
<1> QED BY <1>1, <1>3, RecordChanged

-----------------------------------------------------------------------------
(* Every part stays in range. *)

(* Permits are as they were when nobody begins or ends a run of its model.  *)
LEMMA PermitsStay ==
  ASSUME PermitsInv, permits' = permits,
         \A c \in Callers : (route[c].stage = "features") <=> (route'[c].stage = "features")
  PROVE  PermitsInv'
<1>1. {c \in Callers : route[c].stage = "features"} = {c \in Callers : route'[c].stage = "features"}
  OBVIOUS
<1> QED BY <1>1 DEF PermitsInv

(* A model that is registered is one record more.                           *)
LEMMA RegisterParts ==
  ASSUME RoutingParts, NEW m \in Models, NEW version \in ModelVersions,
         NEW hasInstance \in Preloaded, RegisterModel(m, version, hasInstance)
  PROVE  RoutingParts'
<1> DEFINE n == Len(records)
           new == [state |-> IF hasInstance THEN "ready" ELSE "registered",
                   instance |-> hasInstance, version |-> version]
<1>1. new \in ModelRecords
  BY RoutingBounds DEF ModelRecords
<1>2. records' = Append(records, new) /\ records \in Seq(ModelRecords) /\ n \in Nat
  BY LenProperties DEF RegisterModel, RoutingParts
<1> HIDE DEF new
<1>3. records' \in Seq(ModelRecords) /\ Len(records') = n + 1
  BY <1>1, <1>2, AppendProperties
<1>4. registry' \in [Models -> 0..(n + 1)]
  BY <1>2 DEF RegisterModel, RoutingParts
<1>5. /\ cache' \in [Models -> Made(n + 1)] /\ route' \in [Callers -> RoutesTo(n + 1)]
      /\ admin' \in [Admins -> AdminTasks(n + 1)]
  BY <1>2, OneRecordMore DEF RegisterModel, RoutingParts
<1>6. PermitsInv'
  BY PermitsStay DEF RegisterModel, RoutingParts
<1>7. deleted' \subseteq Models
  BY DEF RegisterModel, RoutingParts
<1> QED BY <1>3, <1>4, <1>5, <1>6, <1>7 DEF RoutingParts

(* The administrators change records, and take one for a model. *)
LEMMA AdminParts ==
  ASSUME RoutingParts, records' \in Seq(ModelRecords), Len(records') = Len(records),
         UNCHANGED <<cache, permits, route>>, deleted' \subseteq Models,
         registry' \in [Models -> 0..Len(records)],
         admin' \in [Admins -> AdminTasks(Len(records))]
  PROVE  RoutingParts'
<1>1. PermitsInv'
  BY PermitsStay DEF RoutingParts
<1> QED BY <1>1 DEF RoutingParts

(* Whoever deploys or retires a model scans for it.                         *)
LEMMA AdminTaken ==
  ASSUME RoutingParts, NEW a \in Admins, NEW m \in Models, registry[m] # NoRecord,
         NEW op \in {"deploy", "retire"},
         admin' = [admin EXCEPT ![a] = [stage |-> "scanning", op |-> op, model |-> m,
                                        record |-> registry[m]]]
  PROVE  admin' \in [Admins -> AdminTasks(Len(records))]
<1>1. Len(records) \in Nat /\ registry[m] \in 1..Len(records)
  BY RoutingBounds, LenProperties DEF RoutingParts
<1> QED BY <1>1, StagesMade DEF RoutingParts

(* A deployment,                                                            *)
LEMMA DeployParts ==
  ASSUME RoutingParts, NEW a \in Admins, NEW m \in Models, NEW version \in ModelVersions,
         Deploy(a, m, version)
  PROVE  RoutingParts'
<1>1. registry[m] \in 1..Len(records) /\ registry[m] # NoRecord /\ records \in Seq(ModelRecords)
  BY RoutingBounds, LenProperties DEF Deploy, RoutingParts
<1>2. records' \in Seq(ModelRecords) /\ Len(records') = Len(records)
  BY <1>1, DeployedRecord
<1>3. admin' \in [Admins -> AdminTasks(Len(records))]
  <2>1. CASE UNCHANGED admin
    BY <2>1 DEF RoutingParts
  <2>2. CASE admin' = [admin EXCEPT ![a] = [stage |-> "scanning", op |-> "deploy", model |-> m,
                                            record |-> registry[m]]]
    BY <1>1, <2>2, AdminTaken
  <2> QED BY <2>1, <2>2 DEF Deploy
<1>4. /\ UNCHANGED <<cache, permits, route>> /\ deleted' \subseteq Models
      /\ registry' \in [Models -> 0..Len(records)]
  BY DEF Deploy, RoutingParts
<1> QED BY <1>2, <1>3, <1>4, AdminParts

(* a retirement,                                                            *)
LEMMA RetireParts ==
  ASSUME RoutingParts, NEW a \in Admins, NEW m \in Models, Retire(a, m) \/ RetireTask(a, m)
  PROVE  RoutingParts'
<1>1. /\ UNCHANGED <<cache, permits, route>> /\ deleted' \subseteq Models
      /\ registry' \in [Models -> 0..Len(records)]
  BY DEF Retire, RetireTask, RoutingParts
<1>2. CASE UNCHANGED <<records, admin>>
  BY <1>1, <1>2, AdminParts DEF RoutingParts
<1>3. CASE /\ registry[m] # NoRecord /\ RetireRecord(m)
           /\ admin' = [admin EXCEPT ![a] = [stage |-> "scanning", op |-> "retire", model |-> m,
                                             record |-> registry[m]]]
  <2>1. registry[m] \in 1..Len(records) /\ records \in Seq(ModelRecords)
    BY <1>3, RoutingBounds, LenProperties DEF RoutingParts
  <2>2. records' \in Seq(ModelRecords) /\ Len(records') = Len(records)
    BY <1>3, <2>1, RetiredRecord
  <2>3. admin' \in [Admins -> AdminTasks(Len(records))]
    BY <1>3, AdminTaken
  <2> QED BY <1>1, <2>2, <2>3, AdminParts
<1> QED BY <1>2, <1>3 DEF Retire, RetireTask

(* a deletion,                                                              *)
LEMMA DeleteParts ==
  ASSUME RoutingParts, NEW m \in Models, DeleteModel(m)
  PROVE  RoutingParts'
<1>1. Len(records) \in Nat
  BY LenProperties DEF RoutingParts
<1>2. registry' \in [Models -> 0..Len(records)]
  BY <1>1, RoutingBounds DEF DeleteModel, RoutingParts
<1> QED BY <1>2, AdminParts DEF DeleteModel, RoutingParts

(* The predictions on their way are overtaken, and nothing else changes. *)
LEMMA OvertakenRoutes ==
  ASSUME RoutingParts, OvertakeOnTheirWay
  PROVE  /\ route' \in [Callers -> RoutesTo(Len(records))]
         /\ \A c \in Callers : route'[c].stage = route[c].stage
         /\ \A c \in Callers : route'[c].stage = "storing" =>
              /\ route'[c].model = route[c].model
              /\ route'[c].prediction \notin {NoPrediction, Neutral} =>
                   route'[c].prediction.overtaken
<1> DEFINE n == Len(records)
<1>0. n \in Nat /\ route \in [Callers -> RoutesTo(n)]
  BY LenProperties DEF RoutingParts
<1> HIDE DEF n
<1>1. ASSUME NEW c \in Callers, route[c].stage = "storing"
      PROVE  /\ route[c].model \in Models
             /\ route'[c] = [stage |-> "storing", model |-> route[c].model,
                             prediction |-> Overtaken(route[c].prediction)]
             /\ Overtaken(route[c].prediction) \in Made(n)
             /\ Overtaken(route[c].prediction) \notin {NoPrediction, Neutral} =>
                  Overtaken(route[c].prediction).overtaken
  <2>1. route[c].model \in Models /\ route[c].prediction \in Made(n)
    BY <1>0, <1>1, RouteIs
  <2>2. route[c] = [stage |-> "storing", model |-> route[c].model,
                    prediction |-> route[c].prediction]
    BY <1>0, <1>1 DEF RoutesTo
  <2>3. route'[c] = [route[c] EXCEPT !.prediction = Overtaken(@)]
    BY <1>1 DEF OvertakeOnTheirWay
  <2> QED BY <1>0, <2>1, <2>2, <2>3, OvertakenMade
<1>2. \A c \in Callers : route[c].stage # "storing" => route'[c] = route[c]
  BY DEF OvertakeOnTheirWay
<1>3. \A c \in Callers : route'[c] \in RoutesTo(n)
  BY <1>0, <1>1, <1>2, StagesMade
<1>4. route' \in [Callers -> RoutesTo(n)]
  BY <1>3 DEF OvertakeOnTheirWay
<1> QED BY <1>1, <1>2, <1>4 DEF n

(* an invalidation, and its failure,                                        *)
LEMMA InvalidationParts ==
  ASSUME RoutingParts, NEW a \in Admins,
         Scanned(a) \/ InvalidationFails(a) \/ KeysDeleted(a)
  PROVE  RoutingParts'
<1> DEFINE n == Len(records)
<1>0. n \in Nat /\ admin \in [Admins -> AdminTasks(n)] /\ cache \in [Models -> Made(n)]
  BY LenProperties DEF RoutingParts
<1> HIDE DEF n
<1>1. admin[a].stage # "idle" /\ admin[a].model \in Models
  BY <1>0, TaskIs DEF Scanned, InvalidationFails, KeysDeleted
<1>2. admin' \in [Admins -> AdminTasks(n)]
  <2>1. \E stage \in {"deleting", "broadcasting"} : admin' = [admin EXCEPT ![a].stage = stage]
    BY DEF Scanned, InvalidationFails, KeysDeleted
  <2>2. PICK stage \in {"deleting", "broadcasting"} : admin' = [admin EXCEPT ![a].stage = stage]
    BY <2>1
  <2>3. admin' = [admin EXCEPT ![a] = [admin[a] EXCEPT !.stage = stage]]
    BY <2>2
  <2>4. [admin[a] EXCEPT !.stage = stage] \in AdminTasks(n)
    BY <1>0, <1>1, TaskIs
  <2> QED BY <1>0, <2>3, <2>4
<1>3. cache' \in [Models -> Made(n)]
  <2>1. Overtaken(cache[admin[a].model]) \in Made(n) /\ NoPrediction \in Made(n)
    BY <1>0, <1>1, OvertakenMade DEF Made
  <2> QED BY <1>0, <2>1 DEF Scanned, InvalidationFails, KeysDeleted
<1>4. route' \in [Callers -> RoutesTo(n)] /\ \A c \in Callers : route'[c].stage = route[c].stage
  <2>1. CASE OvertakeOnTheirWay
    BY <2>1, OvertakenRoutes DEF n
  <2>2. CASE UNCHANGED route
    BY <2>2 DEF RoutingParts, n
  <2> QED BY <2>1, <2>2 DEF Scanned, InvalidationFails, KeysDeleted
<1>5. UNCHANGED <<records, registry, permits, deleted>>
  BY DEF Scanned, InvalidationFails, KeysDeleted
<1>6. PermitsInv'
  BY <1>4, <1>5, PermitsStay DEF RoutingParts
<1> QED BY <1>2, <1>3, <1>4, <1>5, <1>6 DEF RoutingParts, n

(* the end of a deployment,                                                 *)
LEMMA BroadcastParts ==
  ASSUME RoutingParts, NEW a \in Admins, BroadcastSent(a)
  PROVE  RoutingParts'
<1>0. Len(records) \in Nat /\ admin \in [Admins -> AdminTasks(Len(records))]
      /\ records \in Seq(ModelRecords)
  BY LenProperties DEF RoutingParts
<1>1. admin[a].record \in 1..Len(records)
  BY <1>0, TaskIs DEF BroadcastSent
<1>2. records' \in Seq(ModelRecords) /\ Len(records') = Len(records)
  BY <1>0, <1>1, ServingRecord DEF BroadcastSent
<1>3. admin' \in [Admins -> AdminTasks(Len(records))]
  <2>1. [stage |-> "idle"] \in AdminTasks(Len(records))
    BY DEF AdminTasks
  <2> QED BY <1>0, <2>1 DEF BroadcastSent
<1> QED BY <1>2, <1>3, AdminParts DEF BroadcastSent, RoutingParts

(* A request that changes no record, and keeps its permit or its want of one. *)
LEMMA RouteParts ==
  ASSUME RoutingParts, records' \in Seq(ModelRecords), Len(records') = Len(records),
         UNCHANGED <<registry, admin, deleted>>,
         cache' \in [Models -> Made(Len(records))],
         route' \in [Callers -> RoutesTo(Len(records))], PermitsInv'
  PROVE  RoutingParts'
BY DEF RoutingParts

(* a request that is routed,                                                *)
LEMMA RequestParts ==
  ASSUME RoutingParts, NEW c \in Callers, NEW m \in Requested, RouteRequest(c, m)
  PROVE  RoutingParts'
<1> DEFINE n == Len(records)
<1>0. n \in Nat /\ route \in [Callers -> RoutesTo(n)] /\ m \in Models
      /\ registry \in [Models -> 0..n]
  BY RoutingBounds, LenProperties DEF RoutingParts
<1> HIDE DEF n
<1>1. \A r \in Candidates(m) : r \in 1..n
  <2>1. \A k \in Models : IsServing(registry[k]) => registry[k] \in 1..n
    BY <1>0, RoutingBounds DEF IsServing
  <2> QED BY <1>0, <2>1 DEF Candidates
<1>2. /\ Neutral \in Made(n)
      /\ [stage |-> "storing", model |-> m, prediction |-> Neutral] \in RoutesTo(n)
  BY <1>0, StagesMade DEF Made
<1>3. \A r \in Candidates(m) : [stage |-> "waiting", model |-> m, record |-> r] \in RoutesTo(n)
  BY <1>0, <1>1, StagesMade
<1>4. /\ route' \in [Callers -> RoutesTo(n)]
      /\ \A d \in Callers : (route[d].stage = "features") <=> (route'[d].stage = "features")
  <2>1. CASE UNCHANGED route
    BY <1>0, <2>1
  <2>2. ASSUME NEW q \in RoutesTo(n), q.stage # "features", route' = [route EXCEPT ![c] = q]
        PROVE  /\ route' \in [Callers -> RoutesTo(n)]
               /\ \A d \in Callers :
                    (route[d].stage = "features") <=> (route'[d].stage = "features")
    BY <1>0, <2>2 DEF RouteRequest
  <2> QED BY <1>2, <1>3, <2>1, <2>2 DEF RouteRequest
<1>5. PermitsInv'
  BY <1>4, PermitsStay DEF RouteRequest, RoutingParts
<1> QED BY <1>4, <1>5, RouteParts DEF RouteRequest, RoutingParts, n

(* that takes a permit,                                                     *)
LEMMA EnterParts ==
  ASSUME RoutingParts, NEW c \in Callers, EnterInference(c)
  PROVE  RoutingParts'
<1> DEFINE n == Len(records)
           held == {d \in Callers : route[d].stage = "features"}
<1>0. n \in Nat /\ route \in [Callers -> RoutesTo(n)]
  BY LenProperties DEF RoutingParts
<1> HIDE DEF n
<1>1. route' \in [Callers -> RoutesTo(n)] /\ route'[c].stage = "features"
      /\ \A d \in Callers \ {c} : route'[d] = route[d]
  BY <1>0, RouteIs DEF EnterInference
<1>2. {d \in Callers : route'[d].stage = "features"} = held \cup {c} /\ c \notin held
  BY <1>1 DEF EnterInference
<1>3. IsFiniteSet(held)
  BY RoutingBounds, FS_Subset
<1>4. PermitsInv'
  <2>1. Cardinality(held \cup {c}) = Cardinality(held) + 1 /\ Cardinality(held) \in Nat
    BY <1>2, <1>3, FS_AddElement, FS_CardinalityType
  <2> HIDE DEF held
  <2>2. permits = MaxConcurrent - Cardinality(held) /\ permits \in Nat
    BY DEF RoutingParts, PermitsInv, held
  <2>3. permits' = permits - 1 /\ permits > 0
    BY DEF EnterInference
  <2>4. permits' \in Nat /\ permits' = MaxConcurrent - (Cardinality(held) + 1)
    BY <2>1, <2>2, <2>3, RoutingBounds
  <2> QED BY <1>2, <2>1, <2>4 DEF PermitsInv, held
<1> QED BY <1>1, <1>4, RouteParts DEF EnterInference, RoutingParts, n

(* that runs its model,                                                     *)
LEMMA RunParts ==
  ASSUME RoutingParts, NEW c \in Callers, RunModel(c)
  PROVE  RoutingParts'
<1> DEFINE n == Len(records)
           r == route[c].record
           m == route[c].model
           held == {d \in Callers : route[d].stage = "features"}
<1>0. /\ n \in Nat /\ route \in [Callers -> RoutesTo(n)] /\ records \in Seq(ModelRecords)
      /\ n = Len(records)
  BY LenProperties DEF RoutingParts
<1> HIDE DEF n
<1>1. r \in 1..n /\ m \in Models /\ route[c].stage = "features"
  BY <1>0, RouteIs DEF RunModel
<1>2. PICK p \in {Prediction(r), Neutral} :
        route' = [route EXCEPT ![c] = [stage |-> "storing", model |-> m, prediction |-> p]]
  BY DEF RunModel
<1>3. p \in Made(n)
  <2>1. records[r].version \in ModelVersions
    BY <1>0, <1>1, RecordIs
  <2>2. Prediction(r) \in Made(n)
    BY <1>0, <1>1, <2>1 DEF Prediction, Made
  <2> QED BY <2>2 DEF Made
<1>4. [stage |-> "storing", model |-> m, prediction |-> p] \in RoutesTo(n)
  BY <1>0, <1>1, <1>3, StagesMade
<1>5. /\ route' \in [Callers -> RoutesTo(n)] /\ route'[c].stage = "storing"
      /\ \A d \in Callers \ {c} : route'[d] = route[d]
  BY <1>0, <1>2, <1>4
<1>6. {d \in Callers : route'[d].stage = "features"} = held \ {c} /\ c \in held
  BY <1>1, <1>5
<1>7. IsFiniteSet(held)
  BY RoutingBounds, FS_Subset
<1>8. PermitsInv'
  <2>1. Cardinality(held \ {c}) = Cardinality(held) - 1 /\ Cardinality(held) \in Nat
    BY <1>6, <1>7, FS_RemoveElement, FS_CardinalityType
  <2> HIDE DEF held
  <2>2. permits = MaxConcurrent - Cardinality(held) /\ permits \in Nat
    BY DEF RoutingParts, PermitsInv, held
  <2>3. permits' = permits + 1
    BY DEF RunModel, Released
  <2>4. permits' \in Nat /\ permits' = MaxConcurrent - (Cardinality(held) - 1)
    BY <2>1, <2>2, <2>3, RoutingBounds
  <2> QED BY <1>6, <2>1, <2>4 DEF PermitsInv, held
<1>9. records' \in Seq(ModelRecords) /\ Len(records') = n
  <2>1. Serving(r) \in Seq(ModelRecords) /\ Len(Serving(r)) = n
    BY <1>0, <1>1, ServingRecord
  <2>2. records' \in {Serving(r), records}
    BY DEF RunModel
  <2> QED BY <1>0, <2>1, <2>2
<1> QED BY <1>5, <1>8, <1>9, RouteParts DEF RunModel, RoutingParts, n

(* that stores what came out,                                               *)
LEMMA WriteParts ==
  ASSUME RoutingParts, NEW c \in Callers, CacheWritten(c)
  PROVE  RoutingParts'
<1> DEFINE n == Len(records)
<1>0. n \in Nat /\ route \in [Callers -> RoutesTo(n)] /\ cache \in [Models -> Made(n)]
  BY LenProperties DEF RoutingParts
<1> HIDE DEF n
<1>1. route[c].model \in Models /\ route[c].prediction \in Made(n)
  BY <1>0, RouteIs DEF CacheWritten
<1>2. cache' \in [Models -> Made(n)]
  BY <1>0, <1>1 DEF CacheWritten
<1>3. /\ route' \in [Callers -> RoutesTo(n)]
      /\ \A d \in Callers : (route[d].stage = "features") <=> (route'[d].stage = "features")
  <2>1. [stage |-> "idle"] \in RoutesTo(n)
    BY DEF RoutesTo
  <2> QED BY <1>0, <2>1 DEF CacheWritten
<1>4. PermitsInv'
  BY <1>3, PermitsStay DEF CacheWritten, RoutingParts
<1> QED BY <1>2, <1>3, <1>4, RouteParts DEF CacheWritten, RoutingParts, n

(* and an entry that expires keep every part in range.                      *)
LEMMA ExpiresParts ==
  ASSUME RoutingParts, NEW m \in Models, PredictionExpires(m)
  PROVE  RoutingParts'
<1>1. cache' \in [Models -> Made(Len(records))]
  BY DEF PredictionExpires, RoutingParts, Made
<1>2. PermitsInv'
  BY PermitsStay DEF PredictionExpires, RoutingParts
<1> QED BY <1>1, <1>2, RouteParts DEF PredictionExpires, RoutingParts

(* So does every step.                                                      *)
LEMMA RoutingPartsStep == RoutingParts /\ [RoutingNext]_routingVars => RoutingParts'
<1> SUFFICES ASSUME RoutingParts, [RoutingNext]_routingVars PROVE RoutingParts'
  OBVIOUS
<1>1. CASE UNCHANGED routingVars
  BY <1>1 DEF routingVars, RoutingParts, PermitsInv
<1>2. CASE Administration
  BY <1>2, RegisterParts, DeleteParts, DeployParts, RetireParts, InvalidationParts, BroadcastParts
  DEF Administration
<1>3. ASSUME NEW c \in Callers, EnterInference(c) \/ RunModel(c) \/ CacheWritten(c)
      PROVE  RoutingParts'
  BY <1>3, EnterParts, RunParts, WriteParts
<1> QED BY <1>1, <1>2, <1>3, RequestParts, ExpiresParts DEF RoutingNext

-----------------------------------------------------------------------------
(* What is stale after a step. *)
StaleNext(m, p) ==
  /\ p \notin {NoPrediction, Neutral}
  /\ registry'[m] # NoRecord /\ p.by = registry'[m]
  /\ ~p.overtaken
  /\ ~(records'[registry'[m]].instance /\ p.version = records'[registry'[m]].version)
DoingNext(m, stages) == \E a \in Admins : admin'[a].stage \in stages /\ admin'[a].model = m

EnRouteNext ==
  \A c \in Callers :
    route'[c].stage = "storing" /\ StaleNext(route'[c].model, route'[c].prediction)
      => DoingNext(route'[c].model, {"scanning"})
CachedNext ==
  \A m \in Models : StaleNext(m, cache'[m]) => DoingNext(m, {"scanning", "deleting"})

(* The two invariants after a step.                                         *)
LEMMA CacheNext == (EnRouteInv' <=> EnRouteNext) /\ (CachedInv' <=> CachedNext)
BY DEF EnRouteInv, EnRouteNext, CachedInv, CachedNext, Stale, StaleNext, Doing, DoingNext

(* While a scan is to come for whatever a step makes stale, and no scan or  *)
(* delete ends, both invariants hold.                                       *)
LEMMA NewlyStale ==
  ASSUME RoutingParts, EnRouteInv, CachedInv, UNCHANGED <<cache, route>>,
         \A m \in Models, p \in Made(Len(records)) :
           StaleNext(m, p) => Stale(m, p) \/ DoingNext(m, {"scanning"}),
         \A m \in Models :
           /\ Doing(m, {"scanning"}) => DoingNext(m, {"scanning"})
           /\ Doing(m, {"scanning", "deleting"}) => DoingNext(m, {"scanning", "deleting"})
  PROVE  EnRouteInv' /\ CachedInv'
<1> DEFINE n == Len(records)
<1>0. n \in Nat /\ route \in [Callers -> RoutesTo(n)] /\ cache \in [Models -> Made(n)]
  BY LenProperties DEF RoutingParts
<1>1. \A m \in Models : DoingNext(m, {"scanning"}) => DoingNext(m, {"scanning", "deleting"})
  BY DEF DoingNext
<1>2. EnRouteNext
  <2> SUFFICES ASSUME NEW c \in Callers, route'[c].stage = "storing",
                      StaleNext(route'[c].model, route'[c].prediction)
               PROVE  DoingNext(route'[c].model, {"scanning"})
    BY DEF EnRouteNext
  <2>1. route'[c] = route[c] /\ route[c].stage = "storing"
    OBVIOUS
  <2>2. route[c].model \in Models /\ route[c].prediction \in Made(n)
    BY <1>0, <2>1, RouteIs
  <2>3. \/ Stale(route[c].model, route[c].prediction)
        \/ DoingNext(route[c].model, {"scanning"})
    BY <2>1, <2>2
  <2> QED BY <2>1, <2>2, <2>3 DEF EnRouteInv
<1>3. CachedNext
  <2> SUFFICES ASSUME NEW m \in Models, StaleNext(m, cache'[m])
               PROVE  DoingNext(m, {"scanning", "deleting"})
    BY DEF CachedNext
  <2>1. cache'[m] = cache[m] /\ cache[m] \in Made(n)
    BY <1>0
  <2>2. Stale(m, cache[m]) \/ DoingNext(m, {"scanning"})
    BY <2>1
  <2> QED BY <1>1, <2>2 DEF CachedInv
<1> QED BY <1>2, <1>3, CacheNext

(* While the records keep version and instance, nothing becomes stale. *)
LEMMA NothingStale ==
  ASSUME RoutingParts, registry' = registry,
         \A i \in 1..Len(records) : /\ records'[i].instance = records[i].instance
                                    /\ records'[i].version = records[i].version
  PROVE  \A m \in Models : \A p : StaleNext(m, p) => Stale(m, p)
<1>1. \A m \in Models : registry[m] # NoRecord => registry[m] \in 1..Len(records)
  BY RoutingBounds, LenProperties DEF RoutingParts
<1> QED BY <1>1 DEF StaleNext, Stale

(* A model registered anew has no prediction yet, as the record is new.     *)
LEMMA RegisterCache ==
  ASSUME RoutingInv, NEW m \in Models, NEW version \in ModelVersions,
         NEW hasInstance \in Preloaded, RegisterModel(m, version, hasInstance)
  PROVE  OneNameEach' /\ EnRouteInv' /\ CachedInv'
<1> DEFINE n == Len(records)
<1>0. /\ n \in Nat /\ registry \in [Models -> 0..n] /\ records \in Seq(ModelRecords)
      /\ RoutingParts
  BY LenProperties DEF RoutingInv, RoutingParts
<1>1. /\ registry' = [registry EXCEPT ![m] = n + 1]
      /\ \A i \in 1..n : records'[i] = records[i]
      /\ UNCHANGED <<cache, route, admin>>
  BY <1>0, AppendProperties DEF RegisterModel
<1> HIDE DEF n
<1>2. OneNameEach'
  BY <1>0, <1>1 DEF OneNameEach, RoutingInv
<1>3. \A k \in Models, p \in Made(n) : StaleNext(k, p) => Stale(k, p)
  <2> SUFFICES ASSUME NEW k \in Models, NEW p \in Made(n), StaleNext(k, p) PROVE Stale(k, p)
    OBVIOUS
  <2>1. p.by \in 0..n
    BY DEF StaleNext, Made
  <2>2. k # m /\ registry'[k] = registry[k] /\ registry[k] \in 1..n
    BY <1>0, <1>1, <2>1, RoutingBounds DEF StaleNext
  <2> QED BY <1>1, <2>2 DEF StaleNext, Stale
<1>4. \A k \in Models : \A stages : Doing(k, stages) => DoingNext(k, stages)
  BY <1>1 DEF Doing, DoingNext
<1> QED BY <1>0, <1>1, <1>2, <1>3, <1>4, NewlyStale DEF RoutingInv, n

(* A model that is gone has none that counts.                               *)
LEMMA DeleteCache ==
  ASSUME RoutingInv, NEW m \in Models, DeleteModel(m)
  PROVE  OneNameEach' /\ EnRouteInv' /\ CachedInv'
<1>0. registry \in [Models -> 0..Len(records)] /\ RoutingParts
  BY DEF RoutingInv, RoutingParts
<1>1. /\ registry' = [registry EXCEPT ![m] = NoRecord]
      /\ UNCHANGED <<records, cache, route, admin>>
  BY DEF DeleteModel
<1>2. OneNameEach'
  BY <1>0, <1>1 DEF OneNameEach, RoutingInv
<1>3. \A k \in Models : \A p : StaleNext(k, p) => Stale(k, p)
  BY <1>0, <1>1 DEF StaleNext, Stale
<1>4. \A k \in Models : \A stages : Doing(k, stages) => DoingNext(k, stages)
  BY <1>1 DEF Doing, DoingNext
<1> QED BY <1>0, <1>1, <1>2, <1>3, <1>4, NewlyStale DEF RoutingInv

(* A model whose record changes is scanned for, or nothing of it is stale. *)
LEMMA RecordOfOne ==
  ASSUME RoutingInv, NEW m \in Models, registry[m] # NoRecord,
         UNCHANGED <<registry, cache, route>>,
         \A i \in 1..Len(records) \ {registry[m]} : records'[i] = records[i],
         \/ DoingNext(m, {"scanning"})
         \/ \A p : StaleNext(m, p) => Stale(m, p),
         \A k \in Models, stages \in {{"scanning"}, {"scanning", "deleting"}} :
           Doing(k, stages) => DoingNext(k, stages)
  PROVE  OneNameEach' /\ EnRouteInv' /\ CachedInv'
<1>0. registry \in [Models -> 0..Len(records)] /\ RoutingParts /\ Len(records) \in Nat
  BY LenProperties DEF RoutingInv, RoutingParts
<1>1. \A k \in Models \ {m} : \A p : StaleNext(k, p) => Stale(k, p)
  <2> SUFFICES ASSUME NEW k \in Models \ {m}, NEW p, StaleNext(k, p) PROVE Stale(k, p)
    OBVIOUS
  <2>1. registry[k] # NoRecord /\ registry[k] # registry[m]
    BY DEF StaleNext, RoutingInv, OneNameEach
  <2>2. registry[k] \in 1..Len(records) \ {registry[m]}
    BY <1>0, <2>1, RoutingBounds
  <2> QED BY <2>2 DEF StaleNext, Stale
<1>2. \A k \in Models, p \in Made(Len(records)) :
        StaleNext(k, p) => Stale(k, p) \/ DoingNext(k, {"scanning"})
  BY <1>1
<1>3. OneNameEach'
  BY DEF OneNameEach, RoutingInv
<1> QED BY <1>0, <1>2, <1>3, NewlyStale DEF RoutingInv

(* Whoever begins to scan ends no other scan.                               *)
LEMMA ScanBegins ==
  ASSUME RoutingInv, NEW a \in Admins, NEW m \in Models, NEW op, admin[a].stage = "idle",
         admin' = [admin EXCEPT ![a] = [stage |-> "scanning", op |-> op, model |-> m,
                                        record |-> registry[m]]]
  PROVE  /\ DoingNext(m, {"scanning"})
         /\ \A k \in Models, stages \in {{"scanning"}, {"scanning", "deleting"}} :
              Doing(k, stages) => DoingNext(k, stages)
<1>1. /\ admin'[a].stage = "scanning" /\ admin'[a].model = m
      /\ \A b \in Admins \ {a} : admin'[b] = admin[b]
  BY DEF RoutingInv, RoutingParts
<1> QED BY <1>1 DEF Doing, DoingNext

(* A deployment scans when the version changes.                             *)
LEMMA DeployCache ==
  ASSUME RoutingInv, NEW a \in Admins, NEW m \in Models, NEW version \in ModelVersions,
         Deploy(a, m, version)
  PROVE  OneNameEach' /\ EnRouteInv' /\ CachedInv'
<1>0. /\ registry[m] \in 1..Len(records) /\ registry[m] # NoRecord
      /\ records \in Seq(ModelRecords)
  BY RoutingBounds, LenProperties DEF Deploy, RoutingInv, RoutingParts
<1>1. /\ \A i \in 1..Len(records) \ {registry[m]} : records'[i] = records[i]
      /\ records'[registry[m]].instance /\ records'[registry[m]].version = version
  BY <1>0, DeployedRecord
<1>2. UNCHANGED <<registry, cache, route>> /\ admin[a].stage = "idle"
  BY DEF Deploy
<1>3. CASE Invalidates(registry[m], version)
  <2>1. admin' = [admin EXCEPT ![a] = [stage |-> "scanning", op |-> "deploy", model |-> m,
                                       record |-> registry[m]]]
    BY <1>3 DEF Deploy
  <2> QED BY <1>0, <1>1, <1>2, <2>1, ScanBegins, RecordOfOne
<1>4. CASE ~Invalidates(registry[m], version)
  <2>1. UNCHANGED admin /\ records[registry[m]].version = version
    BY <1>4 DEF Deploy, Invalidates
  <2>2. \A p : StaleNext(m, p) => Stale(m, p)
    BY <1>1, <1>2, <2>1 DEF StaleNext, Stale
  <2>3. \A k \in Models : \A stages : Doing(k, stages) => DoingNext(k, stages)
    BY <2>1 DEF Doing, DoingNext
  <2> QED BY <1>0, <1>1, <1>2, <2>2, <2>3, RecordOfOne
<1> QED BY <1>3, <1>4

(* A retirement always scans.                                               *)
LEMMA RetireCache ==
  ASSUME RoutingInv, NEW a \in Admins, NEW m \in Models, Retire(a, m) \/ RetireTask(a, m)
  PROVE  OneNameEach' /\ EnRouteInv' /\ CachedInv'
<1>0. RoutingParts /\ UNCHANGED <<registry, cache, route>>
  BY DEF Retire, RetireTask, RoutingInv
<1>1. CASE UNCHANGED <<records, admin>>
  <2>1. \A k \in Models : \A p : StaleNext(k, p) => Stale(k, p)
    BY <1>0, <1>1 DEF StaleNext, Stale
  <2>2. \A k \in Models : \A stages : Doing(k, stages) => DoingNext(k, stages)
    BY <1>1 DEF Doing, DoingNext
  <2>3. OneNameEach'
    BY <1>0 DEF OneNameEach, RoutingInv
  <2> QED BY <1>0, <2>1, <2>2, <2>3, NewlyStale DEF RoutingInv
<1>2. CASE /\ registry[m] # NoRecord /\ RetireRecord(m) /\ admin[a].stage = "idle"
           /\ admin' = [admin EXCEPT ![a] = [stage |-> "scanning", op |-> "retire", model |-> m,
                                             record |-> registry[m]]]
  <2>1. registry[m] \in 1..Len(records) /\ records \in Seq(ModelRecords)
    BY <1>0, <1>2, RoutingBounds, LenProperties DEF RoutingParts
  <2>2. \A i \in 1..Len(records) \ {registry[m]} : records'[i] = records[i]
    BY <1>2, <2>1, RetiredRecord
  <2> QED BY <1>0, <1>2, <2>2, ScanBegins, RecordOfOne
<1> QED BY <1>1, <1>2 DEF Retire, RetireTask

(* No prediction on its way is stale once it is overtaken. *)
LEMMA OvertakenFresh ==
  ASSUME RoutingParts, OvertakeOnTheirWay
  PROVE  EnRouteNext
BY OvertakenRoutes DEF EnRouteNext, StaleNext

(* A scan overtakes what is on its way, and leaves what it found to the     *)
(* delete.                                                                  *)
LEMMA InvalidationCache ==
  ASSUME RoutingInv, NEW a \in Admins,
         Scanned(a) \/ InvalidationFails(a) \/ KeysDeleted(a)
  PROVE  OneNameEach' /\ EnRouteInv' /\ CachedInv'
<1> DEFINE k == admin[a].model
<1>0. /\ RoutingParts /\ cache \in [Models -> Made(Len(records))]
      /\ UNCHANGED <<registry, records>>
      /\ \A b \in Admins \ {a} : admin'[b] = admin[b]
  BY DEF RoutingInv, RoutingParts, Scanned, InvalidationFails, KeysDeleted
<1>1. k \in Models /\ Len(records) \in Nat
  <2>1. Len(records) \in Nat /\ admin[a] \in AdminTasks(Len(records))
    BY LenProperties DEF RoutingInv, RoutingParts
  <2> QED BY <2>1, TaskIs DEF Scanned, InvalidationFails, KeysDeleted
<1>2. OneNameEach'
  BY <1>0 DEF OneNameEach, RoutingInv
<1>3. \A m \in Models : \A p : StaleNext(m, p) => Stale(m, p)
  BY <1>0 DEF StaleNext, Stale
<1>4. EnRouteNext
  <2>1. CASE OvertakeOnTheirWay
    BY <1>0, <2>1, OvertakenFresh
  <2>2. CASE KeysDeleted(a)
    <3>1. \A m : Doing(m, {"scanning"}) => DoingNext(m, {"scanning"})
      BY <1>0, <2>2 DEF Doing, DoingNext, KeysDeleted
    <3> SUFFICES ASSUME NEW c \in Callers, route'[c].stage = "storing",
                        StaleNext(route'[c].model, route'[c].prediction)
                 PROVE  DoingNext(route'[c].model, {"scanning"})
      BY DEF EnRouteNext
    <3>2. route' = route
      BY <2>2 DEF KeysDeleted
    <3>3. route[c].model \in Models
      BY <1>1, <3>2, RouteIs DEF RoutingInv, RoutingParts
    <3> QED BY <1>3, <3>1, <3>2, <3>3 DEF RoutingInv, EnRouteInv
  <2> QED BY <2>1, <2>2 DEF Scanned, InvalidationFails
<1>5. CachedNext
  <2> SUFFICES ASSUME NEW m \in Models, StaleNext(m, cache'[m])
               PROVE  DoingNext(m, {"scanning", "deleting"})
    BY DEF CachedNext
  <2>1. CASE cache'[m] = cache[m]
    <3>1. PICK b \in Admins : admin[b].stage \in {"scanning", "deleting"} /\ admin[b].model = m
      BY <1>3, <2>1 DEF RoutingInv, CachedInv, Doing
    <3>2. CASE b # a
      BY <1>0, <3>1, <3>2 DEF DoingNext
    <3>3. CASE b = a /\ Scanned(a)
      <4>1. cache[m] # NoPrediction
        BY <2>1 DEF StaleNext
      <4>2. admin'[a].stage = "deleting" /\ admin'[a].model = m
        <5>1. Len(records) \in Nat /\ admin \in [Admins -> AdminTasks(Len(records))]
          BY <1>1 DEF RoutingInv, RoutingParts
        <5>2. admin' = [admin EXCEPT ![a] = [admin[a] EXCEPT !.stage = "deleting"]]
          BY <3>1, <3>3, <4>1 DEF Scanned
        <5>3. /\ [admin[a] EXCEPT !.stage = "deleting"].stage = "deleting"
              /\ [admin[a] EXCEPT !.stage = "deleting"].model = m
          BY <3>1, <3>3, <5>1, TaskIs
        <5> QED BY <5>1, <5>2, <5>3
      <4> QED BY <4>2 DEF DoingNext
    <3>4. CASE b = a /\ ~Scanned(a)
      <4>1. /\ cache'[m] \in {NoPrediction, Overtaken(cache[m])}
            /\ cache[m] \in Made(Len(records))
        BY <1>0, <1>1, <3>1, <3>4 DEF InvalidationFails, KeysDeleted
      <4> QED BY <1>1, <4>1, OvertakenMade DEF StaleNext
    <3> QED BY <3>2, <3>3, <3>4
  <2>2. CASE cache'[m] # cache[m]
    <3>1. /\ cache'[m] \in {NoPrediction, Overtaken(cache[m])}
          /\ cache[m] \in Made(Len(records))
      BY <1>0, <1>1, <2>2 DEF Scanned, InvalidationFails, KeysDeleted
    <3> QED BY <1>1, <3>1, OvertakenMade DEF StaleNext
  <2> QED BY <2>1, <2>2
<1> QED BY <1>2, <1>4, <1>5, CacheNext

(* The end of a deployment makes nothing stale.                             *)
LEMMA BroadcastCache ==
  ASSUME RoutingInv, NEW a \in Admins, BroadcastSent(a)
  PROVE  OneNameEach' /\ EnRouteInv' /\ CachedInv'
<1>0. /\ RoutingParts /\ UNCHANGED <<registry, cache, route>>
      /\ admin \in [Admins -> AdminTasks(Len(records))]
      /\ Len(records) \in Nat /\ records \in Seq(ModelRecords)
  BY LenProperties DEF RoutingInv, RoutingParts, BroadcastSent
<1>1. admin[a].stage = "broadcasting" /\ \A b \in Admins \ {a} : admin'[b] = admin[b]
  BY <1>0 DEF BroadcastSent
<1>2. admin[a].record \in 1..Len(records)
  BY <1>0, <1>1, TaskIs
<1>3. \A i \in 1..Len(records) : /\ records'[i].instance = records[i].instance
                                 /\ records'[i].version = records[i].version
  BY <1>0, <1>2, ServingRecord DEF BroadcastSent
<1>4. \A m \in Models : \A p : StaleNext(m, p) => Stale(m, p)
  BY <1>0, <1>3, NothingStale
<1>5. \A m \in Models : /\ Doing(m, {"scanning"}) => DoingNext(m, {"scanning"})
                        /\ Doing(m, {"scanning", "deleting"})
                             => DoingNext(m, {"scanning", "deleting"})
  BY <1>1 DEF Doing, DoingNext
<1>6. OneNameEach'
  BY <1>0 DEF OneNameEach, RoutingInv
<1> QED BY <1>0, <1>4, <1>5, <1>6, NewlyStale DEF RoutingInv

(* Requests add nothing stale: what they store is Neutral, or of the record *)
(* as it is.                                                                *)
LEMMA RoutesFresh ==
  ASSUME RoutingInv, NEW c \in Callers, UNCHANGED <<registry, admin>>,
         \A i \in 1..Len(records) : /\ records'[i].instance = records[i].instance
                                    /\ records'[i].version = records[i].version,
         \A d \in Callers \ {c} : route'[d] = route[d],
         route'[c].stage = "storing" =>
           ~StaleNext(route'[c].model, route'[c].prediction) \/ route'[c] = route[c],
         \A m \in Models :
           \/ cache'[m] \in {cache[m], NoPrediction}
           \/ /\ route[c].stage = "storing" /\ route[c].model = m
              /\ cache'[m] = route[c].prediction
  PROVE  OneNameEach' /\ EnRouteInv' /\ CachedInv'
<1>1. RoutingParts /\ Len(records) \in Nat /\ route \in [Callers -> RoutesTo(Len(records))]
  BY LenProperties DEF RoutingInv, RoutingParts
<1>2. \A m \in Models : \A p : StaleNext(m, p) => Stale(m, p)
  BY <1>1, NothingStale
<1>3. \A m, stages : Doing(m, stages) => DoingNext(m, stages)
  BY DEF Doing, DoingNext
<1>4. EnRouteNext
  <2> SUFFICES ASSUME NEW d \in Callers, route'[d].stage = "storing",
                      StaleNext(route'[d].model, route'[d].prediction)
               PROVE  DoingNext(route'[d].model, {"scanning"})
    BY DEF EnRouteNext
  <2>1. route'[d] = route[d]
    OBVIOUS
  <2>2. route[d].stage = "storing" /\ route[d].model \in Models
    BY <1>1, <2>1, RouteIs
  <2> QED BY <1>2, <1>3, <2>1, <2>2 DEF RoutingInv, EnRouteInv
<1>5. CachedNext
  <2> SUFFICES ASSUME NEW m \in Models, StaleNext(m, cache'[m])
               PROVE  DoingNext(m, {"scanning", "deleting"})
    BY DEF CachedNext
  <2>1. Stale(m, cache'[m]) /\ cache'[m] # NoPrediction
    BY <1>2 DEF StaleNext
  <2>2. Doing(m, {"scanning", "deleting"})
    <3>1. CASE cache'[m] = cache[m]
      BY <2>1, <3>1 DEF RoutingInv, CachedInv
    <3>2. CASE /\ route[c].stage = "storing" /\ route[c].model = m
               /\ cache'[m] = route[c].prediction
      BY <2>1, <3>2 DEF RoutingInv, EnRouteInv, Doing
    <3> QED BY <2>1, <3>1, <3>2
  <2> QED BY <1>3, <2>2
<1>6. OneNameEach'
  BY DEF OneNameEach, RoutingInv
<1> QED BY <1>4, <1>5, <1>6, CacheNext

(* A request that is routed,                                                *)
LEMMA RequestCache ==
  ASSUME RoutingInv, NEW c \in Callers, NEW m \in Requested, RouteRequest(c, m)
  PROVE  OneNameEach' /\ EnRouteInv' /\ CachedInv'
<1>1. UNCHANGED <<registry, admin, records, cache>>
  BY DEF RouteRequest
<1>2. CASE UNCHANGED route
  BY <1>1, <1>2, RoutesFresh
<1>3. ASSUME NEW q, route' = [route EXCEPT ![c] = q],
             q.stage = "storing" => q.prediction = Neutral
      PROVE  OneNameEach' /\ EnRouteInv' /\ CachedInv'
  <2>1. route'[c] = q /\ \A d \in Callers \ {c} : route'[d] = route[d]
    BY <1>3 DEF RoutingInv, RoutingParts
  <2>2. ~StaleNext(q.model, Neutral)
    BY DEF StaleNext
  <2> QED BY <1>1, <1>3, <2>1, <2>2, RoutesFresh
<1>4. /\ [stage |-> "storing", model |-> m, prediction |-> Neutral].prediction = Neutral
      /\ \A r : [stage |-> "waiting", model |-> m, record |-> r].stage # "storing"
  OBVIOUS
<1> QED BY <1>2, <1>3, <1>4 DEF RouteRequest

(* that takes its permit,                                                   *)
LEMMA EnterCache ==
  ASSUME RoutingInv, NEW c \in Callers, EnterInference(c)
  PROVE  OneNameEach' /\ EnRouteInv' /\ CachedInv'
<1>0. route \in [Callers -> RoutesTo(Len(records))] /\ Len(records) \in Nat
  BY LenProperties DEF RoutingInv, RoutingParts
<1>1. route'[c].stage = "features" /\ \A d \in Callers \ {c} : route'[d] = route[d]
  BY <1>0, RouteIs DEF EnterInference
<1> QED BY <1>1, RoutesFresh DEF EnterInference

(* that runs the model as it is,                                            *)
LEMMA RunCache ==
  ASSUME RoutingInv, NEW c \in Callers, RunModel(c)
  PROVE  OneNameEach' /\ EnRouteInv' /\ CachedInv'
<1> DEFINE r == route[c].record
           m == route[c].model
<1>0. /\ Len(records) \in Nat /\ route \in [Callers -> RoutesTo(Len(records))]
      /\ records \in Seq(ModelRecords)
  BY LenProperties DEF RoutingInv, RoutingParts
<1>1. r \in 1..Len(records) /\ m \in Models
  BY <1>0, RouteIs DEF RunModel
<1>2. PICK p \in {Prediction(r), Neutral} :
        /\ route' = [route EXCEPT ![c] = [stage |-> "storing", model |-> m, prediction |-> p]]
        /\ p # Neutral => records[r].instance
  BY DEF RunModel
<1>3. /\ route'[c] = [stage |-> "storing", model |-> m, prediction |-> p]
      /\ \A d \in Callers \ {c} : route'[d] = route[d]
  BY <1>0, <1>2
<1>4. \A i \in 1..Len(records) : /\ records'[i].instance = records[i].instance
                                 /\ records'[i].version = records[i].version
  <2>1. records' \in {Serving(r), records}
    BY DEF RunModel
  <2> QED BY <1>0, <1>1, <2>1, ServingRecord
<1>5. UNCHANGED <<registry, cache, admin>>
  BY DEF RunModel
<1>6. ~StaleNext(m, p)
  <2> SUFFICES ASSUME StaleNext(m, p) PROVE FALSE
    OBVIOUS
  <2>1. p # Neutral /\ p = Prediction(r) /\ records[r].instance
    BY <1>2 DEF StaleNext
  <2>2. p.by = r /\ p.version = records[r].version
    BY <2>1 DEF Prediction
  <2> QED BY <1>1, <1>4, <2>1, <2>2 DEF StaleNext
<1> QED BY <1>3, <1>4, <1>5, <1>6, RoutesFresh

(* that stores what came out,                                               *)
LEMMA WriteCache ==
  ASSUME RoutingInv, NEW c \in Callers, CacheWritten(c)
  PROVE  OneNameEach' /\ EnRouteInv' /\ CachedInv'
<1>0. /\ route \in [Callers -> RoutesTo(Len(records))]
      /\ cache \in [Models -> Made(Len(records))]
  BY DEF RoutingInv, RoutingParts
<1>1. route'[c].stage = "idle" /\ \A d \in Callers \ {c} : route'[d] = route[d]
  BY <1>0 DEF CacheWritten
<1>2. \A m \in Models : \/ cache'[m] = cache[m]
                        \/ /\ route[c].stage = "storing" /\ route[c].model = m
                           /\ cache'[m] = route[c].prediction
  BY <1>0 DEF CacheWritten
<1>3. UNCHANGED <<registry, admin, records>>
  BY DEF CacheWritten
<1> QED BY <1>1, <1>2, <1>3, RoutesFresh

(* and an entry that expires make nothing stale.                            *)
LEMMA ExpiresCache ==
  ASSUME RoutingInv, NEW m \in Models, PredictionExpires(m)
  PROVE  OneNameEach' /\ EnRouteInv' /\ CachedInv'
<1>1. \A k \in Models : cache'[k] \in {cache[k], NoPrediction}
  BY DEF PredictionExpires, RoutingInv, RoutingParts
<1>2. UNCHANGED <<registry, admin, records, route>>
  BY DEF PredictionExpires
<1>3. CachedNext
  <2> SUFFICES ASSUME NEW k \in Models, StaleNext(k, cache'[k])
               PROVE  DoingNext(k, {"scanning", "deleting"})
    BY DEF CachedNext
  <2>1. Stale(k, cache[k])
    BY <1>1, <1>2 DEF StaleNext, Stale
  <2> QED BY <1>2, <2>1 DEF RoutingInv, CachedInv, Doing, DoingNext
<1>4. EnRouteInv' /\ OneNameEach'
  BY <1>2 DEF RoutingInv, EnRouteInv, Stale, Doing, OneNameEach
<1> QED BY <1>3, <1>4, CacheNext

(* Each step of the registry and its requests keeps their invariant.        *)
LEMMA RoutingStepInv == RoutingInv /\ [RoutingNext]_routingVars => RoutingInv'
<1> SUFFICES ASSUME RoutingInv, [RoutingNext]_routingVars PROVE RoutingInv'
  OBVIOUS
<1>1. RoutingParts'
  BY RoutingPartsStep DEF RoutingInv
<1>2. CASE UNCHANGED routingVars
  BY <1>1, <1>2 DEF routingVars, RoutingInv, OneNameEach, EnRouteInv, CachedInv, Stale, Doing
<1>3. CASE Administration
  BY <1>1, <1>3, RegisterCache, DeleteCache, DeployCache, RetireCache, InvalidationCache,
     BroadcastCache
  DEF Administration, RoutingInv
<1>4. ASSUME NEW c \in Callers, EnterInference(c) \/ RunModel(c) \/ CacheWritten(c)
      PROVE  RoutingInv'
  BY <1>1, <1>4, EnterCache, RunCache, WriteCache DEF RoutingInv
<1> QED BY <1>1, <1>2, <1>3, <1>4, RequestCache, ExpiresCache DEF RoutingNext, RoutingInv

(* So does their start.                                                     *)
LEMMA RoutingInitInv == RoutingInit => RoutingInv
<1> SUFFICES ASSUME RoutingInit PROVE RoutingInv
  OBVIOUS
<1>1. records \in Seq(ModelRecords) /\ Len(records) = 0
  BY EmptySeq DEF RoutingInit
<1>2. registry \in [Models -> 0..0] /\ cache \in [Models -> Made(0)]
  BY RoutingBounds DEF RoutingInit, Made
<1>3. route \in [Callers -> RoutesTo(0)] /\ admin \in [Admins -> AdminTasks(0)]
  BY DEF RoutingInit, RoutesTo, AdminTasks
<1>4. PermitsInv
  <2>1. {c \in Callers : route[c].stage = "features"} = {}
    BY DEF RoutingInit
  <2>2. Cardinality({}) = 0
    BY FS_EmptySet
  <2>3. permits = MaxConcurrent /\ MaxConcurrent \in Nat /\ MaxConcurrent - 0 = MaxConcurrent
    BY RoutingBounds DEF RoutingInit
  <2> QED BY <2>1, <2>2, <2>3 DEF PermitsInv
<1>5. RoutingParts
  BY <1>1, <1>2, <1>3, <1>4 DEF RoutingParts, RoutingInit
<1>6. OneNameEach /\ EnRouteInv /\ CachedInv
  BY DEF RoutingInit, OneNameEach, EnRouteInv, CachedInv, Stale
<1> QED BY <1>5, <1>6 DEF RoutingInv

(* The invariant of the routing.                                            *)
LEMMA RoutingInvariant == RoutingSpec => []RoutingInv
<1> QED BY RoutingInitInv, RoutingStepInv, PTL DEF RoutingSpec

(* Whatever the administrators do at the same time, every part of the       *)
(* registry, the requests and the cache is in range, and every permit of    *)
(* the inference semaphore is free or held by a request that runs.          *)
THEOREM RoutingTypeCorrect == RoutingSpec => []RoutingTypeOK
<1>1. RoutingInv => RoutingTypeOK
  <2> SUFFICES ASSUME RoutingInv PROVE RoutingTypeOK
    OBVIOUS
  <2> DEFINE n == Len(records)
  <2>0. RoutingParts /\ n \in Nat
    BY LenProperties DEF RoutingInv, RoutingParts
  <2>1. Records = 0..n
    BY <2>0, LenProperties, RoutingBounds DEF Records, RoutingParts
  <2>2. registry \in [Models -> Records] /\ cache \in [Models -> Predictions]
    BY <2>0, <2>1 DEF RoutingParts, Made, Predictions
  <2>3. \A c \in Callers : route[c].stage \in {"idle", "waiting", "features", "storing"}
    BY <2>0, RouteIs DEF RoutingParts
  <2>4. \A a \in Admins : admin[a].stage \in {"idle", "scanning", "deleting", "broadcasting"}
    BY <2>0, TaskIs DEF RoutingParts
  <2>5. records \in Seq([state : {"registered", "ready", "serving", "retired"},
                         instance : BOOLEAN, version : ModelVersions])
    BY <2>0 DEF RoutingParts, ModelRecords
  <2>6. PermitsInv /\ deleted \subseteq Models
    BY <2>0 DEF RoutingParts
  <2> QED BY <2>2, <2>3, <2>4, <2>5, <2>6 DEF RoutingTypeOK, PermitsInv
<1> QED BY <1>1, RoutingInvariant, PTL

(* Once a deployment or a retirement is through, the cache serves, under    *)
(* the model's own key, no prediction of it as it was before, however many  *)
(* of them overlap with requests that store theirs, unless it was overtaken *)
(* on its way.                                                              *)
THEOREM RoutingInvalidates == RoutingSpec => []InvalidatedWhenChanged
<1>1. RoutingInv => InvalidatedWhenChanged
  BY DEF RoutingInv, CachedInv, Stale, Doing, InvalidatedWhenChanged, Current, Untouched
<1> QED BY <1>1, RoutingInvariant, PTL

=============================================================================
