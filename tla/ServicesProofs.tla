---------------------------- MODULE ServicesProofs ----------------------------
(* The asyncio programs, for any number of requests, messages, jobs, starts  *)
(* and crashes: that each is in range, that a batch is answered in its order *)
(* and no request is lost before it is, that no message of the training data *)
(* is in two flushes of one session, that stop leaves nothing in the buffer, *)
(* that jobs and devices agree, and that the monitor leaves no job behind    *)
(* that fits somewhere.                                                      *)
(*                                                                           *)
(* Each has its own invariant and the step lemma for it (the orchestrator's  *)
(* are in OrchestratorProofs); the last section puts them together, as the   *)
(* programs share no state.                                                  *)
EXTENDS MCServices, OrchestratorProofs, SequenceTheorems, FiniteSetTheorems, WellFoundedInduction, TLAPS

(* Integers bounded from below have a least one, as naturals are well       *)
(* ordered.                                                                 *)
LEMMA LeastNatural ==
  ASSUME NEW T \in SUBSET Nat, T # {}
  PROVE  \E n \in T : \A m \in T : n <= m
<1> DEFINE R == {ss \in Nat \X Nat : ss[1] < ss[2]}
<1>1. IsWellFoundedOn(R, Nat)
  BY NatLessThanWellFounded DEF OpToRel
<1>2. \A x, y \in Nat : y < x => <<y, x>> \in R
  OBVIOUS
<1> HIDE DEF R
<1>3. \E n \in T : \A m \in T : ~(<<m, n>> \in R)
  BY <1>1, WFMin
<1>4. PICK n \in T : \A m \in T : ~(<<m, n>> \in R)
  BY <1>3
<1>5. \A m \in T : n \in Nat /\ m \in Nat /\ ~(m < n)
  BY <1>2, <1>4
<1> QED BY <1>5

(* A sequence of all the elements of a finite set leaves out none.          *)
LEMMA SeqOfAll ==
  ASSUME NEW S, IsFiniteSet(S), NEW order \in SetToSeqs(S), NEW x \in S
  PROVE  \E j \in 1..Cardinality(S) : order[j] = x
<1> DEFINE n == Cardinality(S)
<1>1. n \in Nat
  BY FS_CardinalityType
<1>2. order \in Injection(1..n, S)
  BY DEF SetToSeqs, Injection, IsInjective
<1>3. IsFiniteSet(1..n) /\ Cardinality(1..n) = n
  <2> HIDE DEF n
  <2>1. Cardinality(1..n) = IF 1 > n THEN 0 ELSE n - 1 + 1
    BY <1>1, FS_Interval
  <2> QED BY <1>1, <2>1, FS_Interval
<1> HIDE DEF n
<1>4. order \in Surjection(1..n, S)
  BY <1>2, <1>3, FS_Injection DEF n
<1> QED BY <1>4 DEF Surjection, n

-----------------------------------------------------------------------------
(* The inference server: its life cycle and its queue.                      *)

LoopStates == {"alive", "cancelled", "ended"}

(* Every connection under way will add one more loop.                       *)
Controls == [at : {"idle", "connecting"}] \cup [at : {"stopping"}, task : Nat]
ServerInv ==
  /\ ServerTypeOK
  /\ control \in [Controllers -> Controls]
  /\ Len(loops) + Cardinality(Connecting) <= ServerStarts

(* What the constants of the server are.                                    *)
LEMMA ServerBounds ==
  /\ ServerFirst \in ServerVersions /\ Priorities \subseteq Nat
  /\ IsFiniteSet(Priorities) /\ IsFiniteSet(Controllers)
  /\ MaxQueue \in Nat /\ ServerStarts \in Nat
BY ServerAssumption

(* As there are finitely many controllers, finitely many connect.           *)
LEMMA ConnectingFinite ==
  /\ IsFiniteSet(Connecting) /\ Cardinality(Connecting) \in Nat
  /\ IsFiniteSet(Connecting') /\ Cardinality(Connecting') \in Nat
<1>1. Connecting \subseteq Controllers /\ Connecting' \subseteq Controllers
  BY DEF Connecting
<1> QED BY <1>1, ServerBounds, FS_Subset, FS_CardinalityType

(* The requests in the queue.                                               *)
LEMMA WaitsIs ==
  ASSUME NEW queue \in [Priorities -> Nat]
  PROVE  /\ \A w : w \in Waits(queue) <=>
                     \E p \in Priorities : \E n \in 1..queue[p] : w = <<p, n>>
         /\ IsFiniteSet(Waits(queue)) /\ Total(queue) \in Nat
<1>1. \A p \in Priorities : IsFiniteSet({p} \X (1..queue[p]))
  <2> TAKE p \in Priorities
  <2>0. queue[p] \in Int /\ 1 \in Int
    OBVIOUS
  <2>1. IsFiniteSet({p}) /\ IsFiniteSet(1..queue[p])
    BY <2>0, FS_Singleton, FS_Interval
  <2> QED BY <2>1, FS_Product
<1> DEFINE parts == {{p} \X (1..queue[p]) : p \in Priorities}
<1>2. IsFiniteSet(parts)
  <2> DEFINE f == [p \in Priorities |-> {p} \X (1..queue[p])]
  <2>1. f \in Surjection(Priorities, parts)
    BY DEF Surjection
  <2> QED BY <2>1, ServerBounds, FS_Surjection
<1>3. IsFiniteSet(Waits(queue))
  BY <1>1, <1>2, FS_UNION DEF Waits
<1>4. \A w : w \in Waits(queue) <=> \E p \in Priorities : \E n \in 1..queue[p] : w = <<p, n>>
  BY DEF Waits
<1> QED BY <1>3, <1>4, FS_CardinalityType DEF Total

(* One request more in the queue counts one more.                           *)
LEMMA TotalOfMore ==
  ASSUME NEW queue \in [Priorities -> Nat], NEW p \in Priorities
  PROVE  LET more == [queue EXCEPT ![p] = @ + 1]
         IN more \in [Priorities -> Nat] /\ Total(more) = Total(queue) + 1
<1> DEFINE more == [queue EXCEPT ![p] = @ + 1]
           new == <<p, queue[p] + 1>>
<1>1. more \in [Priorities -> Nat]
  OBVIOUS
<1>2. more[p] = queue[p] + 1 /\ \A r \in Priorities : r # p => more[r] = queue[r]
  OBVIOUS
<1> HIDE DEF more
<1>3. new \notin Waits(queue)
  BY WaitsIs
<1>4. Waits(more) = Waits(queue) \cup {new}
  <2>1. ASSUME NEW w \in Waits(more) PROVE w \in Waits(queue) \cup {new}
    <3>1. PICK r \in Priorities : \E n \in 1..more[r] : w = <<r, n>>
      BY <1>1, WaitsIs
    <3>2. PICK n \in 1..more[r] : w = <<r, n>>
      BY <3>1
    <3>3. (r = p /\ n = queue[p] + 1) \/ n \in 1..queue[r]
      BY <1>2
    <3> QED BY <3>2, <3>3, WaitsIs
  <2>2. ASSUME NEW w \in Waits(queue) PROVE w \in Waits(more)
    <3>1. PICK r \in Priorities : \E n \in 1..queue[r] : w = <<r, n>>
      BY WaitsIs
    <3>2. PICK n \in 1..queue[r] : w = <<r, n>>
      BY <3>1
    <3>3. n \in 1..more[r]
      BY <1>2
    <3> QED BY <1>1, <3>2, <3>3, WaitsIs
  <2>3. new \in Waits(more)
    <3>1. queue[p] + 1 \in 1..more[p]
      BY <1>2
    <3> QED BY <1>1, <3>1, WaitsIs
  <2> QED BY <2>1, <2>2, <2>3
<1>5. Total(more) = Total(queue) + 1
  BY <1>3, <1>4, WaitsIs, FS_AddElement DEF Total
<1> QED BY <1>1, <1>5 DEF more

(* A queue with fewer requests of each priority is no longer.               *)
LEMMA TotalOfLess ==
  ASSUME NEW queue \in [Priorities -> Nat], NEW rest \in [Priorities -> Nat],
         \A p \in Priorities : rest[p] <= queue[p]
  PROVE  Total(rest) <= Total(queue)
<1>1. Waits(rest) \subseteq Waits(queue)
  <2> SUFFICES ASSUME NEW w \in Waits(rest) PROVE w \in Waits(queue)
    OBVIOUS
  <2>1. PICK p \in Priorities : \E n \in 1..rest[p] : w = <<p, n>>
    BY WaitsIs
  <2>2. PICK n \in 1..rest[p] : w = <<p, n>>
    BY <2>1
  <2>3. n \in 1..queue[p]
    OBVIOUS
  <2> QED BY <2>2, <2>3, WaitsIs
<1> QED BY <1>1, WaitsIs, FS_Subset DEF Total

(* There is nothing in the queue that starts empty.                         *)
LEMMA TotalOfNone == EmptyQueue \in [Priorities -> Nat] /\ Total(EmptyQueue) = 0
<1>1. EmptyQueue \in [Priorities -> Nat]
  BY DEF EmptyQueue
<1>2. \A p \in Priorities : 1..EmptyQueue[p] = {}
  BY DEF EmptyQueue
<1>3. Waits(EmptyQueue) = {}
  BY <1>1, <1>2, WaitsIs
<1> QED BY <1>1, <1>3, FS_EmptySet DEF Total

(* Loops that are all in one state are loops.                               *)
LEMMA AllAreType ==
  ASSUME ServerTypeOK, NEW s \in {"not_loaded", "ready", "draining"}
  PROVE  AllAre(s) \in [ServerVersions -> {"absent", "not_loaded", "ready", "draining"}]
BY DEF AllAre

(* The states of the loops one by one.                                      *)
LEMMA LoopsAre ==
  ASSUME ServerTypeOK
  PROVE  /\ loops \in Seq(LoopStates) /\ Len(loops) \in Nat /\ DOMAIN loops = 1..Len(loops)
         /\ \A i \in DOMAIN loops : loops[i] \in LoopStates
BY LenProperties, ElementOfSeq DEF ServerTypeOK, LoopStates

(* Each step of the server keeps its invariant.                             *)
LEMMA ServerStepInv == ServerInv /\ [ServerNext]_modelServerVars => ServerInv'
<1> SUFFICES ASSUME ServerInv, [ServerNext]_modelServerVars PROVE ServerInv'
  OBVIOUS
<1> USE ServerBounds
<1>0. ServerTypeOK
  BY DEF ServerInv
<1>1. ASSUME NEW v \in ServerVersions, RegisterModel(v) PROVE ServerInv'
  BY <1>1 DEF RegisterModel, ServerInv, ServerTypeOK, Connecting
<1>2. ASSUME NEW p \in Priorities, Enqueue(p) PROVE ServerInv'
  <2>1. queued' \in [Priorities -> Nat] /\ Total(queued') <= MaxQueue
    <3>1. queued \in [Priorities -> Nat] /\ Total(queued) \in Nat /\ Total(queued) < MaxQueue
      BY <1>0, <1>2, WaitsIs DEF Enqueue, QueueFull, ServerTypeOK
    <3>2. queued' = [queued EXCEPT ![p] = @ + 1]
      BY <1>2 DEF Enqueue
    <3>3. queued' \in [Priorities -> Nat] /\ Total(queued') = Total(queued) + 1
      BY <3>1, <3>2, TotalOfMore
    <3> QED BY <3>1, <3>3
  <2> QED BY <1>2, <2>1 DEF Enqueue, ServerInv, ServerTypeOK, Connecting
<1>3. ASSUME NEW k \in Controllers, ServerStart(k) PROVE ServerInv'
  <2>0. [at |-> "connecting"] \in Controls /\ control' = [control EXCEPT ![k] = [at |-> "connecting"]]
    BY <1>0, <1>3, LoopsAre DEF ServerStart, Controls
  <2>1. /\ \A l \in Controllers : control'[l].at = IF l = k THEN "connecting" ELSE control[l].at
        /\ control' \in [Controllers -> Controls]
    BY <2>0 DEF ServerInv
  <2>2. Connecting' = Connecting \cup {k} /\ k \notin Connecting
    BY <1>3, <2>1 DEF Connecting, ServerStart
  <2>3. Cardinality(Connecting') = Cardinality(Connecting) + 1
    BY <2>2, ConnectingFinite, FS_AddElement
  <2>4. Len(loops) + Cardinality(Connecting') <= ServerStarts
    BY <1>0, <1>3, <2>3, ConnectingFinite, LoopsAre DEF ServerStart
  <2> QED BY <1>3, <2>1, <2>4 DEF ServerStart, ServerInv, ServerTypeOK
<1>4. ASSUME NEW k \in Controllers, ServerConnected(k) PROVE ServerInv'
  <2>0. [at |-> "idle"] \in Controls /\ control' = [control EXCEPT ![k] = [at |-> "idle"]]
    BY <1>0, <1>4, LoopsAre DEF ServerConnected, Controls
  <2>1. /\ \A l \in Controllers : control'[l].at = IF l = k THEN "idle" ELSE control[l].at
        /\ control' \in [Controllers -> Controls]
    BY <2>0 DEF ServerInv
  <2>2. Connecting' = Connecting \ {k} /\ k \in Connecting
    BY <1>4, <2>1 DEF Connecting, ServerConnected
  <2>3. Cardinality(Connecting') = Cardinality(Connecting) - 1
    BY <2>2, ConnectingFinite, FS_RemoveElement
  <2>4. loops' \in Seq(LoopStates) /\ Len(loops') = Len(loops) + 1
    BY <1>0, <1>4, LoopsAre, AppendProperties DEF ServerConnected, LoopStates
  <2>5. Len(loops') + Cardinality(Connecting') <= ServerStarts /\ Len(loops') <= ServerStarts
    BY <1>0, <2>3, <2>4, ConnectingFinite, LoopsAre DEF ServerInv
  <2>6. status' \in [ServerVersions -> {"absent", "not_loaded", "ready", "draining"}]
    BY <1>0, <1>4, AllAreType DEF ServerConnected, WarmedUp
  <2> QED BY <1>4, <2>1, <2>4, <2>5, <2>6 DEF ServerConnected, ServerInv, ServerTypeOK, LoopStates
<1>5. ASSUME NEW k \in Controllers, ServerStop(k) PROVE ServerInv'
  <2>0. [at |-> "stopping", task |-> Len(loops)] \in Controls /\ control' = [control EXCEPT ![k] = [at |-> "stopping", task |-> Len(loops)]]
    BY <1>0, <1>5, LoopsAre DEF ServerStop, Controls
  <2>1. /\ \A l \in Controllers : control'[l].at = IF l = k THEN "stopping" ELSE control[l].at
        /\ control' \in [Controllers -> Controls]
    BY <2>0 DEF ServerInv
  <2>2. Connecting' = Connecting
    BY <1>5, <2>1 DEF Connecting, ServerStop
  <2>3. loops' \in Seq(LoopStates) /\ Len(loops') = Len(loops)
    <3>1. loops' = [i \in DOMAIN loops |->
                      IF i = Len(loops) /\ loops[i] = "alive" THEN "cancelled" ELSE loops[i]]
      BY <1>5 DEF ServerStop
    <3>2. loops' \in [1..Len(loops) -> LoopStates]
      <4>1. "cancelled" \in LoopStates
        BY DEF LoopStates
      <4> QED BY <1>0, <3>1, <4>1, LoopsAre
    <3> QED BY <1>0, <3>2, LoopsAre, IsASeq, LenProperties
  <2>4. status' \in [ServerVersions -> {"absent", "not_loaded", "ready", "draining"}]
    BY <1>0, <1>5, AllAreType DEF ServerStop
  <2> QED BY <1>5, <2>1, <2>2, <2>3, <2>4 DEF ServerStop, ServerInv, ServerTypeOK, LoopStates
<1>6. ASSUME NEW k \in Controllers, ServerStopped(k) PROVE ServerInv'
  <2>0. [at |-> "idle"] \in Controls /\ control' = [control EXCEPT ![k] = [at |-> "idle"]]
    BY <1>0, <1>6, LoopsAre DEF ServerStopped, Controls
  <2>1. /\ \A l \in Controllers : control'[l].at = IF l = k THEN "idle" ELSE control[l].at
        /\ control' \in [Controllers -> Controls]
    BY <2>0 DEF ServerInv
  <2>2. Connecting' = Connecting
    BY <1>6, <2>1 DEF Connecting, ServerStopped
  <2> QED BY <1>6, <2>1, <2>2 DEF ServerStopped, ServerInv, ServerTypeOK
<1>7. ASSUME NEW i \in DOMAIN loops, LoopEnds(i) PROVE ServerInv'
  <2>1. loops' \in Seq(LoopStates) /\ Len(loops') = Len(loops)
    BY <1>0, <1>7, LoopsAre, ExceptSeq DEF LoopEnds, LoopStates
  <2>2. Connecting' = Connecting
    BY <1>7 DEF LoopEnds, Connecting
  <2> QED BY <1>7, <2>1, <2>2 DEF LoopEnds, ServerInv, ServerTypeOK, LoopStates
<1>8. ASSUME NEW i, ProcessQueue(i) PROVE ServerInv'
  <2>1. queued' \in [Priorities -> Nat] /\ \A p \in Priorities : queued'[p] <= queued[p]
    BY <1>8 DEF ProcessQueue, Leaves
  <2>2. Total(queued') <= MaxQueue
    <3>1. Total(queued') <= Total(queued) /\ Total(queued') \in Nat /\ Total(queued) \in Nat
      BY <1>0, <2>1, TotalOfLess, WaitsIs DEF ServerTypeOK
    <3> QED BY <1>0, <3>1 DEF ServerTypeOK
  <2> QED BY <1>8, <2>1, <2>2 DEF ProcessQueue, ServerInv, ServerTypeOK, Connecting
<1>9. ASSUME UNCHANGED modelServerVars PROVE ServerInv'
  BY <1>9 DEF modelServerVars, ServerInv, ServerTypeOK, Connecting
<1> QED BY <1>1, <1>2, <1>3, <1>4, <1>5, <1>6, <1>7, <1>8, <1>9 DEF ServerNext, Loop

(* So does its start.                                                       *)
LEMMA ServerInitInv == ServerInit => ServerInv
<1> SUFFICES ASSUME ServerInit PROVE ServerInv
  OBVIOUS
<1>1. Connecting = {} /\ Cardinality(Connecting) = 0
  BY FS_EmptySet DEF ServerInit, Connecting
<1>2. loops \in Seq(LoopStates) /\ Len(loops) = 0
  BY EmptySeq DEF ServerInit
<1>3. queued \in [Priorities -> Nat] /\ Total(queued) = 0
  BY TotalOfNone DEF ServerInit
<1>4. control \in [Controllers -> Controls] /\ \A k \in Controllers : control[k].at = "idle"
  BY DEF ServerInit, Controls
<1>5. status \in [ServerVersions -> {"absent", "not_loaded", "ready", "draining"}]
  BY DEF ServerInit
<1>6. ServerTypeOK
  <2>1. running \in BOOLEAN
    BY DEF ServerInit
  <2>2. Total(queued) <= MaxQueue /\ Len(loops) <= ServerStarts
    BY <1>2, <1>3, ServerBounds
  <2> QED BY <1>2, <1>3, <1>4, <1>5, <2>1, <2>2 DEF ServerTypeOK, LoopStates
<1> QED BY <1>1, <1>2, <1>4, <1>6, ServerBounds DEF ServerInv

(* However often the server is started, stopped and asked while it starts   *)
(* or stops, its queue never holds more than max_queue_size requests, and   *)
(* no more loops were begun than it was started.                            *)
THEOREM ServerTypeCorrect == ServerSpec => []ServerTypeOK
<1>1. ServerInv => ServerTypeOK
  BY DEF ServerInv
<1> QED BY <1>1, ServerInitInv, ServerStepInv, PTL DEF ServerSpec

-----------------------------------------------------------------------------
(* The batch engine.                                                        *)

(* The elements of a sequence, which are of group g, are found in another    *)
(* one up to the place n, in the same order.                               *)
Follows(s, sub, n, g) ==
  /\ \A a \in DOMAIN s : GroupOf[s[a]] = g /\ \E p \in 1..n : sub[p] = s[a]
  /\ \A a, b \in DOMAIN s : a < b => \E p, q \in 1..n : p < q /\ sub[p] = s[a] /\ sub[q] = s[b]

OrderInv ==
  /\ submitted \in Seq(Items) /\ IsInjective(submitted)
  /\ \A g \in Groups : Follows(pending[g], submitted, Len(submitted), g)
  /\ \A i \in DOMAIN tasks : \E g \in Groups : Follows(tasks[i], submitted, Len(submitted), g)

BatchInv == BatchTypeOK /\ OrderInv /\ PredictionsAligned

(* What the constants of the batch engine are.                              *)
LEMMA BatchBounds ==
  /\ IsFiniteSet(Items) /\ FeaturedItems \subseteq Items
  /\ BatchSize \in Nat /\ BatchSize > 0 /\ BatchStarts \in Nat
  /\ Unanswered \notin Items /\ Failed \notin Items /\ Zero \notin Items
BY BatchAssumption

(* A list keeps its order when others are submitted after it.               *)
LEMMA FollowsMore ==
  ASSUME NEW s, NEW sub, NEW more, NEW n \in Nat, NEW m \in Nat, NEW g, n <= m,
         \A p \in 1..n : more[p] = sub[p], Follows(s, sub, n, g)
  PROVE  Follows(s, more, m, g)
<1>1. \A p \in 1..n : p \in 1..m
  OBVIOUS
<1> QED BY <1>1 DEF Follows

(* A request put at the end of its group follows in order.                  *)
LEMMA FollowsAppend ==
  ASSUME NEW s \in Seq(Items), NEW sub, NEW n \in Nat, NEW g, Follows(s, sub, n, g),
         NEW x \in Items, GroupOf[x] = g, sub[n + 1] = x
  PROVE  Follows(Append(s, x), sub, n + 1, g)
<1> DEFINE t == Append(s, x)
<1>1. /\ DOMAIN t = 1..(Len(s) + 1) /\ DOMAIN s = 1..Len(s) /\ Len(s) \in Nat
      /\ \A a \in 1..Len(s) : t[a] = s[a]
      /\ t[Len(s) + 1] = x
  BY AppendProperties, LenProperties
<1> HIDE DEF t
<1>2. \A p \in 1..n : p \in 1..(n + 1)
  OBVIOUS
<1>3. n + 1 \in 1..(n + 1) /\ \A p \in 1..n : p < n + 1
  OBVIOUS
<1>4. \A a \in DOMAIN t : a \in DOMAIN s \/ a = Len(s) + 1
  BY <1>1
<1>5. \A a \in DOMAIN t : GroupOf[t[a]] = g /\ \E p \in 1..(n + 1) : sub[p] = t[a]
  BY <1>1, <1>2, <1>3, <1>4 DEF Follows
<1>6. ASSUME NEW a \in DOMAIN t, NEW b \in DOMAIN t, a < b
      PROVE  \E p, q \in 1..(n + 1) : p < q /\ sub[p] = t[a] /\ sub[q] = t[b]
  <2>1. a \in DOMAIN s
    BY <1>1, <1>6
  <2>2. CASE b \in DOMAIN s
    BY <1>1, <1>2, <1>6, <2>1, <2>2 DEF Follows
  <2>3. CASE b = Len(s) + 1
    <3>1. PICK p \in 1..n : sub[p] = s[a]
      BY <2>1 DEF Follows
    <3>2. sub[p] = t[a] /\ sub[n + 1] = t[b]
      BY <1>1, <2>1, <2>3, <3>1
    <3> QED BY <1>2, <1>3, <3>2
  <2> QED BY <1>4, <2>2, <2>3
<1> QED BY <1>5, <1>6 DEF Follows, t

(* Places in a part of a sequence, counted from its start.                  *)
LEMMA Shift ==
  ASSUME NEW from \in Nat, NEW to \in Nat, NEW n \in Nat, 1 <= from, to <= n
  PROVE  /\ \A a \in 1..(to - from + 1) : from + a - 1 \in 1..n
         /\ \A a, b \in Nat : a < b => from + a - 1 < from + b - 1
OBVIOUS

(* A part of a sequence.                                                    *)
LEMMA FollowsPart ==
  ASSUME NEW s \in Seq(Items), NEW sub, NEW n \in Nat, NEW g, Follows(s, sub, n, g),
         NEW from \in 1..(Len(s) + 1), NEW to \in 0..Len(s)
  PROVE  LET t == SubSeq(s, from, to)
         IN /\ t \in Seq(Items) /\ Follows(t, sub, n, g)
            /\ Len(t) = IF from <= to THEN to - from + 1 ELSE 0
<1> DEFINE t == SubSeq(s, from, to)
<1>0. Len(s) \in Nat /\ DOMAIN s = 1..Len(s)
  BY LenProperties
<1>1. \A a \in from..to : a \in DOMAIN s /\ s[a] \in Items
  BY <1>0, ElementOfSeq
<1>2. /\ t \in Seq(Items)
      /\ Len(t) = IF from <= to THEN to - from + 1 ELSE 0
      /\ \A a \in 1..to - from + 1 : t[a] = s[from + a - 1]
  <2>1. from \in Int /\ to \in Int /\ \A a \in from..to : s[a] \in Items
    BY <1>0, <1>1
  <2> QED BY <2>1, SubSeqProperties
<1>3. DOMAIN t = 1..Len(t)
  BY <1>2, LenProperties
<1> HIDE DEF t
<1> DEFINE at(a) == from + a - 1
<1>4. \A a \in DOMAIN t : /\ a \in Nat /\ a \in 1..to - from + 1
                         /\ at(a) \in DOMAIN s /\ t[a] = s[at(a)]
  <2> TAKE a \in DOMAIN t
  <2>1. from <= to /\ a \in 1..(to - from + 1) /\ from \in Nat /\ to \in Nat /\ a \in Nat
    BY <1>0, <1>2, <1>3
  <2>2. at(a) \in 1..Len(s)
    <3>1. 1 <= from /\ to <= Len(s)
      BY <1>0
    <3> QED BY <1>0, <2>1, <3>1, Shift
  <2> QED BY <1>0, <1>2, <2>1, <2>2
<1>7. \A a, b \in DOMAIN t : a < b => at(a) < at(b)
  <2>1. from \in Nat /\ to \in Nat /\ 1 <= from /\ to <= Len(s)
    BY <1>0
  <2> QED BY <1>0, <1>4, <2>1, Shift
<1> HIDE DEF at
<1>5. \A a \in DOMAIN t : GroupOf[t[a]] = g /\ \E p \in 1..n : sub[p] = t[a]
  BY <1>4 DEF Follows
<1>6. ASSUME NEW a \in DOMAIN t, NEW b \in DOMAIN t, a < b
      PROVE  \E p, q \in 1..n : p < q /\ sub[p] = t[a] /\ sub[q] = t[b]
  <2>1. at(a) \in DOMAIN s /\ at(b) \in DOMAIN s /\ t[a] = s[at(a)] /\ t[b] = s[at(b)]
    BY <1>4
  <2>2. at(a) < at(b)
    BY <1>6, <1>7
  <2> QED BY <2>1, <2>2 DEF Follows
<1> QED BY <1>2, <1>5, <1>6 DEF Follows, t

-----------------------------------------------------------------------------
(* The groups after each request of a list has been appended to its own.    *)
Added(f, list, n) == [f EXCEPT ![GroupOf[list[n]]] = Append(@, list[n])]

(* The groups after each request of a list: the recursive definition of     *)
(* PredictBatch has a value, by the least place at which it would not.      *)
LEMMA GroupsExist ==
  ASSUME NEW list, NEW len \in Nat
  PROVE  LET after[n \in 0..len] == IF n = 0 THEN pending ELSE Added(after[n - 1], list, n)
         IN /\ after[0] = pending
            /\ \A n \in 1..len : after[n] = Added(after[n - 1], list, n)
<1> DEFINE Walk(f, m) ==
             f = [k \in 0..m |-> IF k = 0 THEN pending ELSE Added(f[k - 1], list, k)]
           Missing == {m \in Nat : ~ \E f : Walk(f, m)}
<1>1. \E f : Walk(f, 0)
  <2> DEFINE f == [k \in 0..0 |-> pending]
  <2>1. f = [k \in 0..0 |-> IF k = 0 THEN pending ELSE Added(f[k - 1], list, k)]
    <3>1. \A k \in 0..0 : k = 0
      OBVIOUS
    <3> HIDE DEF Added
    <3> QED BY <3>1
  <2> QED BY <2>1
<1>2. ASSUME NEW m \in Nat, \E f : Walk(f, m)
      PROVE  \E f : Walk(f, m + 1)
  <2>1. PICK f : Walk(f, m)
    BY <1>2
  <2> DEFINE g == [k \in 0..(m + 1) |-> IF k = m + 1 THEN Added(f[m], list, m + 1) ELSE f[k]]
  <2>2. \A k \in 0..m : k \in 0..(m + 1) /\ k # m + 1 /\ g[k] = f[k]
    OBVIOUS
  <2>3. ASSUME NEW k \in 0..(m + 1)
        PROVE  g[k] = IF k = 0 THEN pending ELSE Added(g[k - 1], list, k)
    <3>1. CASE k = 0
      <4>1. f[0] = pending /\ g[0] = f[0]
        BY <2>1, <2>2
      <4> QED BY <3>1, <4>1
    <3>2. CASE k = m + 1
      <4>1. g[k] = Added(f[m], list, m + 1) /\ g[m] = f[m] /\ k - 1 = m /\ k # 0
        BY <2>2, <3>2
      <4> HIDE DEF g
      <4> QED BY <3>2, <4>1
    <3>3. CASE k # 0 /\ k # m + 1
      <4>1. k \in 0..m /\ k - 1 \in 0..m
        BY <3>3
      <4>2. f[k] = Added(f[k - 1], list, k)
        <5> HIDE DEF g
        <5> QED BY <2>1, <3>3, <4>1
      <4>3. g[k] = f[k] /\ g[k - 1] = f[k - 1]
        BY <2>2, <4>1
      <4> HIDE DEF g
      <4> QED BY <3>3, <4>2, <4>3
    <3> QED BY <3>1, <3>2, <3>3
  <2>4. g = [k \in 0..(m + 1) |-> IF k = 0 THEN pending ELSE Added(g[k - 1], list, k)]
    <3>1. g = [k \in 0..(m + 1) |-> g[k]]
      OBVIOUS
    <3> HIDE DEF g
    <3> QED BY <2>3, <3>1
  <2> HIDE DEF g
  <2> QED BY <2>4
<1>3. Missing = {}
  <2> SUFFICES ASSUME Missing # {} PROVE FALSE
    OBVIOUS
  <2>1. PICK m \in Missing : \A l \in Missing : m <= l
    <3>1. Missing \in SUBSET Nat
      OBVIOUS
    <3> HIDE DEF Missing
    <3> QED BY <3>1, LeastNatural
  <2> HIDE DEF Walk
  <2>2. m \in Nat /\ m # 0
    BY <1>1
  <2>3. m - 1 \in Nat /\ (m - 1) + 1 = m /\ ~(m <= m - 1)
    BY <2>2
  <2>4. m - 1 \notin Missing
    BY <2>1, <2>3
  <2>5. \E f : Walk(f, m)
    BY <1>2, <2>3, <2>4
  <2> QED BY <2>5
<1>4. \E f : Walk(f, len)
  BY <1>3
<1> DEFINE after[k \in 0..len] == IF k = 0 THEN pending ELSE Added(after[k - 1], list, k)
<1>5. after = CHOOSE f : Walk(f, len)
  OBVIOUS
<1>6. Walk(after, len)
  <2> HIDE DEF after, Walk
  <2> QED BY <1>4, <1>5
<1>7. after[0] = pending /\ \A k \in 1..len : after[k] = Added(after[k - 1], list, k)
  <2> HIDE DEF after
  <2> QED BY <1>6
<1> QED BY <1>7

(* The lists that can be submitted at once.                                 *)
LEMMA ListsAreSeqs == \A list \in Lists : list \in Seq(Items)
<1>1. \A r \in Items : <<r>> \in Seq(Items)
  OBVIOUS
<1>2. \A r, s \in Items : <<r, s>> \in Seq(Items)
  OBVIOUS
<1>3. {<<r>> : r \in Items} \subseteq Seq(Items)
  BY <1>1
<1>4. ASSUME NEW list \in {<<r, s>> : r, s \in Items} PROVE list \in Seq(Items)
  <2>1. PICK r \in Items, s \in Items : list = <<r, s>>
    BY <1>4
  <2> QED BY <1>2, <2>1
<1> QED BY <1>3, <1>4 DEF Lists

(* Every request belongs to a group.                                        *)
LEMMA GroupsKnown == \A r \in Items : GroupOf[r] \in Groups
BY DEF Groups

(* The type of the batch engine part by part.                               *)
LEMMA BatchParts ==
  ASSUME BatchInv
  PROVE  /\ submitted \in Seq(Items) /\ Len(submitted) \in Nat
         /\ DOMAIN submitted = 1..Len(submitted)
         /\ pending \in [Groups -> Seq(Items)]
         /\ tasks \in Seq(Seq(Items)) /\ Len(tasks) \in Nat /\ DOMAIN tasks = 1..Len(tasks)
         /\ \A i \in DOMAIN tasks : tasks[i] \in Seq(Items)
BY LenProperties, ElementOfSeq DEF BatchInv, OrderInv, BatchTypeOK

(* Each group holds its requests in the order of submission after a list of *)
(* others was submitted.                                                    *)
LEMMA GroupedInOrder ==
  ASSUME BatchInv, NEW list \in Seq(Items), PredictBatch(list)
  PROVE  /\ pending' \in [Groups -> Seq(Items)]
         /\ submitted' \in Seq(Items) /\ Len(submitted') = Len(submitted) + Len(list)
         /\ \A p \in DOMAIN submitted : submitted'[p] = submitted[p]
         /\ \A n \in DOMAIN list : submitted'[Len(submitted) + n] = list[n]
         /\ \A g \in Groups : Follows(pending'[g], submitted', Len(submitted'), g)
<1> DEFINE len == Len(list)
           start == Len(submitted)
           after[n \in 0..len] == IF n = 0 THEN pending ELSE Added(after[n - 1], list, n)
<1>0. len \in Nat /\ start \in Nat /\ DOMAIN list = 1..len /\ DOMAIN submitted = 1..start
  BY BatchParts, LenProperties
<1>1. pending' = after[len] /\ submitted' = submitted \o list
  BY DEF PredictBatch, Added
<1>2. after[0] = pending /\ \A n \in 1..len : after[n] = Added(after[n - 1], list, n)
  <2> HIDE DEF len
  <2> QED BY <1>0, GroupsExist
<1>3. /\ submitted' \in Seq(Items) /\ Len(submitted') = start + len
      /\ \A p \in 1..start : submitted'[p] = submitted[p]
      /\ \A n \in 1..len : submitted'[start + n] = list[n]
  <2>1. /\ submitted' \in Seq(Items) /\ Len(submitted') = start + len
        /\ \A p \in 1..start + len :
             submitted'[p] = IF p <= start THEN submitted[p] ELSE list[p - start]
    BY <1>1, BatchParts, ConcatProperties
  <2>2. \A p \in 1..start : p \in 1..start + len /\ p <= start
    BY <1>0
  <2>3. \A n \in 1..len : start + n \in 1..start + len /\ ~(start + n <= start) /\ (start + n) - start = n
    BY <1>0
  <2> HIDE DEF start, len, after
  <2> QED BY <2>1, <2>2, <2>3
<1> DEFINE Grouped(n) == /\ after[n] \in [Groups -> Seq(Items)]
                         /\ \A g \in Groups : Follows(after[n][g], submitted', start + n, g)
           Wrong == {n \in Nat : n <= len /\ ~Grouped(n)}
<1> HIDE DEF after
<1>4. Grouped(0)
  <2>1. \A g \in Groups : Follows(pending[g], submitted, start, g)
    BY DEF BatchInv, OrderInv
  <2>2. ASSUME NEW g \in Groups PROVE Follows(pending[g], submitted', start + 0, g)
    <3>1. start + 0 = start /\ start <= start
      BY <1>0
    <3> HIDE DEF start
    <3> QED BY <1>0, <1>3, <2>1, <3>1, FollowsMore
  <2> QED BY <1>2, <2>2, BatchParts
<1>5. ASSUME NEW n \in Nat, n + 1 <= len, Grouped(n) PROVE Grouped(n + 1)
  <2> DEFINE x == list[n + 1]
             own == GroupOf[x]
  <2>1. n + 1 \in 1..len /\ (n + 1) - 1 = n /\ start + (n + 1) = (start + n) + 1 /\ start + n \in Nat
    BY <1>0, <1>5
  <2>2. x \in Items /\ own \in Groups
    BY <1>0, <2>1, ElementOfSeq, GroupsKnown
  <2>3. after[n + 1] = [after[n] EXCEPT ![own] = Append(@, x)]
    BY <1>2, <2>1 DEF Added
  <2>4. submitted'[(start + n) + 1] = x
    BY <1>3, <2>1
  <2> HIDE DEF x, own, start
  <2>5. /\ after[n + 1] \in [Groups -> Seq(Items)]
        /\ after[n + 1][own] = Append(after[n][own], x)
        /\ \A g \in Groups : g # own => after[n + 1][g] = after[n][g]
    <3>1. Append(after[n][own], x) \in Seq(Items)
      BY <1>5, <2>2, AppendProperties
    <3> QED BY <1>5, <2>2, <2>3, <3>1
  <2>6. Follows(Append(after[n][own], x), submitted', (start + n) + 1, own)
    <3>1. after[n][own] \in Seq(Items) /\ Follows(after[n][own], submitted', start + n, own)
      BY <1>5, <2>2
    <3> QED BY <2>1, <2>2, <2>4, <3>1, FollowsAppend DEF own
  <2>7. ASSUME NEW g \in Groups, g # own PROVE Follows(after[n][g], submitted', start + (n + 1), g)
    <3>1. Follows(after[n][g], submitted', start + n, g)
      BY <1>5
    <3>2. start + n <= start + (n + 1) /\ start + (n + 1) \in Nat
      BY <2>1
    <3> QED BY <2>1, <3>1, <3>2, FollowsMore
  <2> QED BY <2>1, <2>5, <2>6, <2>7
<1>6. Wrong = {}
  <2> SUFFICES ASSUME Wrong # {} PROVE FALSE
    OBVIOUS
  <2>1. PICK n \in Wrong : \A l \in Wrong : n <= l
    <3>1. Wrong \in SUBSET Nat
      OBVIOUS
    <3> HIDE DEF Wrong
    <3> QED BY <3>1, LeastNatural
  <2> HIDE DEF Grouped, len
  <2>2. n \in Nat /\ n <= len /\ n # 0 /\ ~Grouped(n)
    BY <1>4
  <2>3. n - 1 \in Nat /\ (n - 1) + 1 = n /\ ~(n <= n - 1) /\ n - 1 <= len
    BY <1>0, <2>2
  <2>4. Grouped(n - 1)
    BY <2>1, <2>3
  <2> QED BY <1>5, <2>2, <2>3, <2>4
<1>7. Grouped(len)
  <2> HIDE DEF Grouped
  <2> QED BY <1>0, <1>6
<1> QED BY <1>0, <1>1, <1>3, <1>7

(* Requests that were answered stay so aligned when others are submitted.   *)
LEMMA AlignedStays ==
  ASSUME PredictionsAligned, answer' = answer, DOMAIN submitted \subseteq DOMAIN submitted',
         \A p \in DOMAIN submitted : submitted'[p] = submitted[p]
  PROVE  PredictionsAligned'
<1> SUFFICES ASSUME NEW r \in Items, answer'[r] \in Items \ {r}
             PROVE  \E gap, own, other \in DOMAIN submitted' :
                      /\ gap <= own /\ own < other
                      /\ submitted'[own] = r /\ submitted'[other] = answer'[r]
                      /\ submitted'[gap] \notin FeaturedItems
                      /\ \A i \in {gap, other} : GroupOf[submitted'[i]] = GroupOf[r]
  BY DEF PredictionsAligned
<1>1. PICK gap \in DOMAIN submitted, own \in DOMAIN submitted, other \in DOMAIN submitted :
        /\ gap <= own /\ own < other
        /\ submitted[own] = r /\ submitted[other] = answer[r]
        /\ submitted[gap] \notin FeaturedItems
        /\ \A i \in {gap, other} : GroupOf[submitted[i]] = GroupOf[r]
  BY DEF PredictionsAligned
<1> QED BY <1>1

(* predict and predict_batch keep the invariant.                            *)
LEMMA PredictBatchInv ==
  ASSUME BatchInv, NEW list \in Lists, IsInjective(list), PredictBatch(list)
  PROVE  BatchInv'
<1> DEFINE start == Len(submitted)
           len == Len(list)
<1>0. /\ list \in Seq(Items) /\ len \in Nat /\ start \in Nat
      /\ DOMAIN list = 1..len /\ DOMAIN submitted = 1..start
  BY ListsAreSeqs, BatchParts, LenProperties
<1>1. /\ pending' \in [Groups -> Seq(Items)]
      /\ submitted' \in Seq(Items) /\ Len(submitted') = start + len
      /\ \A p \in DOMAIN submitted : submitted'[p] = submitted[p]
      /\ \A n \in DOMAIN list : submitted'[start + n] = list[n]
      /\ \A g \in Groups : Follows(pending'[g], submitted', Len(submitted'), g)
  BY <1>0, GroupedInOrder
<1>2. DOMAIN submitted' = 1..(start + len)
  BY <1>1, LenProperties
<1>3. UNCHANGED <<tasks, answer, batchRunning, batchLoops>>
  BY DEF PredictBatch
<1> HIDE DEF start, len
<1>4. IsInjective(submitted')
  <2>1. \A p \in DOMAIN submitted' : p \in DOMAIN submitted \/ (p - start \in DOMAIN list /\ start + (p - start) = p)
    BY <1>0, <1>2
  <2>2. \A p \in DOMAIN submitted, n \in DOMAIN list : submitted[p] # list[n]
    BY DEF PredictBatch, ToSet
  <2>3. \A p, q \in DOMAIN submitted : submitted[p] = submitted[q] => p = q
    BY DEF BatchInv, OrderInv, IsInjective
  <2>4. \A m, n \in DOMAIN list : list[m] = list[n] => m = n
    BY DEF IsInjective
  <2>5. ASSUME NEW p \in DOMAIN submitted', NEW q \in DOMAIN submitted', submitted'[p] = submitted'[q]
        PROVE  p = q
    <3>1. CASE p \in DOMAIN submitted /\ q \in DOMAIN submitted
      BY <1>1, <2>3, <2>5, <3>1
    <3>2. CASE p \notin DOMAIN submitted /\ q \notin DOMAIN submitted
      <4>1. submitted'[p] = list[p - start] /\ submitted'[q] = list[q - start]
        BY <1>1, <2>1, <3>2
      <4>2. p - start = q - start
        BY <2>1, <2>4, <2>5, <3>2, <4>1
      <4> QED BY <1>0, <1>2, <4>2
    <3>3. CASE p \in DOMAIN submitted /\ q \notin DOMAIN submitted
      <4>1. submitted'[p] = submitted[p] /\ submitted'[q] = list[q - start] /\ q - start \in DOMAIN list
        BY <1>1, <2>1, <3>3
      <4> QED BY <2>2, <2>5, <3>3, <4>1
    <3>4. CASE p \notin DOMAIN submitted /\ q \in DOMAIN submitted
      <4>1. submitted'[q] = submitted[q] /\ submitted'[p] = list[p - start] /\ p - start \in DOMAIN list
        BY <1>1, <2>1, <3>4
      <4> QED BY <2>2, <2>5, <3>4, <4>1
    <3> QED BY <3>1, <3>2, <3>3, <3>4
  <2> QED BY <2>5 DEF IsInjective
<1>5. ASSUME NEW i \in DOMAIN tasks', NEW g \in Groups, Follows(tasks[i], submitted, Len(submitted), g)
      PROVE  Follows(tasks'[i], submitted', Len(submitted'), g)
  <2>1. Len(submitted) <= Len(submitted') /\ Len(submitted) \in Nat /\ Len(submitted') \in Nat
    BY <1>0, <1>1 DEF start
  <2>2. \A p \in 1..Len(submitted) : submitted'[p] = submitted[p]
    BY <1>0, <1>1 DEF start
  <2> QED BY <1>3, <1>5, <2>1, <2>2, FollowsMore
<1>6. \A i \in DOMAIN tasks' : \E g \in Groups : Follows(tasks'[i], submitted', Len(submitted'), g)
  BY <1>3, <1>5 DEF BatchInv, OrderInv
<1>7. DOMAIN submitted \subseteq DOMAIN submitted'
  BY <1>0, <1>2
<1>8. PredictionsAligned'
  BY <1>1, <1>3, <1>7, AlignedStays DEF BatchInv
<1>9. BatchTypeOK'
  BY <1>1, <1>3 DEF BatchInv, BatchTypeOK
<1> QED BY <1>1, <1>4, <1>6, <1>8, <1>9 DEF BatchInv, OrderInv

-----------------------------------------------------------------------------
(* There are finitely many groups, as there are finitely many requests.     *)
LEMMA GroupsFinite == IsFiniteSet(Groups)
<1> DEFINE f == [r \in Items |-> GroupOf[r]]
<1>1. f \in Surjection(Items, Groups)
  BY DEF Surjection, Groups
<1> QED BY <1>1, BatchBounds, FS_Surjection

(* A batch and what is left of a group when it is taken.                    *)
LEMMA CutAndRest ==
  ASSUME NEW s \in Seq(Items), NEW sub, NEW n \in Nat, NEW g, Follows(s, sub, n, g)
  PROVE  /\ Cut(s) \in Seq(Items) /\ Follows(Cut(s), sub, n, g)
         /\ s # <<>> => Len(Cut(s)) \in 1..BatchSize
         /\ Rest(s) \in Seq(Items) /\ Follows(Rest(s), sub, n, g)
<1> DEFINE to == IF Len(s) < BatchSize THEN Len(s) ELSE BatchSize
<1>1. Len(s) \in Nat /\ (s # <<>> => Len(s) > 0) /\ BatchSize \in Nat /\ BatchSize > 0
  BY LenProperties, EmptySeq, BatchBounds
<1>2. to \in 0..Len(s) /\ 1 \in 1..(Len(s) + 1) /\ to <= BatchSize /\ (Len(s) > 0 => 1 <= to)
  BY <1>1
<1>3. Cut(s) = SubSeq(s, 1, to)
  BY DEF Cut
<1> HIDE DEF to
<1>4. /\ Cut(s) \in Seq(Items) /\ Follows(Cut(s), sub, n, g)
      /\ Len(Cut(s)) = IF 1 <= to THEN to - 1 + 1 ELSE 0
  BY <1>2, <1>3, FollowsPart
<1>5. s # <<>> => Len(Cut(s)) \in 1..BatchSize
  BY <1>1, <1>2, <1>4
<1>6. Rest(s) \in Seq(Items) /\ Follows(Rest(s), sub, n, g)
  <2>1. CASE BatchSize + 1 \in 1..(Len(s) + 1)
    BY <1>1, <2>1, FollowsPart DEF Rest
  <2>2. CASE BatchSize + 1 \notin 1..(Len(s) + 1)
    <3>1. ~(BatchSize + 1 <= Len(s))
      BY <1>1, <2>2
    <3>2. /\ SubSeq(s, BatchSize + 1, Len(s)) = <<>>
      <4>1. \A a \in (BatchSize + 1)..Len(s) : s[a] \in Items
        BY <1>1, <3>1
      <4>2. /\ SubSeq(s, BatchSize + 1, Len(s)) \in Seq(Items)
            /\ Len(SubSeq(s, BatchSize + 1, Len(s))) = 0
        BY <1>1, <3>1, <4>1, SubSeqProperties
      <4> QED BY <4>2, EmptySeq
    <3>3. Rest(s) = <<>>
      BY <3>2 DEF Rest
    <3>4. DOMAIN <<>> = {} /\ <<>> \in Seq(Items)
      OBVIOUS
    <3> QED BY <3>3, <3>4 DEF Follows
  <2> QED BY <2>1, <2>2
<1> QED BY <1>4, <1>5, <1>6

(* The loop that sends batches off keeps the invariant.                     *)
LEMMA DispatchInv ==
  ASSUME BatchInv, NEW i \in DOMAIN batchLoops, Dispatch(i)
  PROVE  BatchInv'
<1> DEFINE waiting == {g \in Groups : pending[g] # <<>>}
<1>1. PICK order \in SetToSeqs(waiting) :
        tasks' = tasks \o [j \in DOMAIN order |-> Cut(pending[order[j]])]
  BY DEF Dispatch
<1> DEFINE new == [j \in DOMAIN order |-> Cut(pending[order[j]])]
           size == Cardinality(waiting)
<1>2. size \in Nat /\ order \in [1..size -> waiting]
  <2>1. IsFiniteSet(waiting)
    BY GroupsFinite, FS_Subset
  <2> QED BY <2>1, FS_CardinalityType DEF SetToSeqs
<1>3. \A g \in Groups : /\ pending[g] \in Seq(Items)
                        /\ Follows(pending[g], submitted, Len(submitted), g)
  BY BatchParts DEF BatchInv, OrderInv
<1>4. Len(submitted) \in Nat
  BY BatchParts
<1>5. pending' = [g \in Groups |-> Rest(pending[g])]
      /\ UNCHANGED <<answer, submitted, batchRunning>>
  BY DEF Dispatch
<1>0. batchLoops' \in Seq({"alive", "cancelled", "ended"})
  <2> DEFINE after == IF batchRunning THEN "alive" ELSE "ended"
  <2>1. batchLoops' = [batchLoops EXCEPT ![i] = after]
    BY DEF Dispatch
  <2>2. batchLoops \in Seq({"alive", "cancelled", "ended"}) /\ i \in 1..Len(batchLoops)
    BY LenProperties DEF BatchInv, BatchTypeOK
  <2> QED BY <2>1, <2>2, ExceptSeq
<1>6. \A g \in Groups : Rest(pending[g]) \in Seq(Items)
                        /\ Follows(Rest(pending[g]), submitted, Len(submitted), g)
  BY <1>3, <1>4, CutAndRest
<1>7. \A g \in waiting : /\ Cut(pending[g]) \in Seq(Items)
                         /\ Len(Cut(pending[g])) \in 1..BatchSize
                         /\ Follows(Cut(pending[g]), submitted, Len(submitted), g)
  BY <1>3, <1>4, CutAndRest
<1>8. \A j \in 1..size : /\ new[j] \in Seq(Items) /\ Len(new[j]) \in 1..BatchSize
                         /\ \E g \in Groups : Follows(new[j], submitted, Len(submitted), g)
  BY <1>2, <1>7
<1>9. new \in Seq(Seq(Items)) /\ Len(new) = size /\ DOMAIN new = 1..size
  <2>1. new \in [1..size -> Seq(Items)]
    BY <1>2, <1>8
  <2> HIDE DEF new, size
  <2> QED BY <1>2, <2>1, IsASeq, LenProperties
<1> HIDE DEF new, size
<1>10. /\ tasks' \in Seq(Seq(Items)) /\ Len(tasks') = Len(tasks) + size
       /\ \A k \in 1..Len(tasks) + size :
            tasks'[k] = IF k <= Len(tasks) THEN tasks[k] ELSE new[k - Len(tasks)]
  <2>1. tasks' = tasks \o new
    BY <1>1 DEF new
  <2> QED BY <1>9, <2>1, BatchParts, ConcatProperties
<1>11. DOMAIN tasks' = 1..(Len(tasks) + size) /\ Len(tasks) \in Nat /\ DOMAIN tasks = 1..Len(tasks)
  BY <1>10, BatchParts, LenProperties
<1>12. \A k \in DOMAIN tasks' : \/ k \in DOMAIN tasks /\ tasks'[k] = tasks[k]
                                \/ \E j \in 1..size : tasks'[k] = new[j]
  <2> SUFFICES ASSUME NEW k \in DOMAIN tasks', k \notin DOMAIN tasks
               PROVE  \E j \in 1..size : tasks'[k] = new[j]
    BY <1>10, <1>11
  <2>1. k - Len(tasks) \in 1..size /\ ~(k <= Len(tasks))
    BY <1>2, <1>11
  <2> QED BY <1>10, <1>11, <2>1
<1>13. \A k \in DOMAIN tasks' : Len(tasks'[k]) \in 1..BatchSize
  BY <1>8, <1>12 DEF BatchInv, BatchTypeOK
<1>14. \A k \in DOMAIN tasks' : \E g \in Groups : Follows(tasks'[k], submitted, Len(submitted), g)
  BY <1>8, <1>12 DEF BatchInv, OrderInv
<1>15. pending' \in [Groups -> Seq(Items)]
       /\ \A g \in Groups : Follows(pending'[g], submitted, Len(submitted), g)
  BY <1>5, <1>6
<1>16. PredictionsAligned'
  BY <1>5 DEF BatchInv, PredictionsAligned
<1>17. BatchTypeOK'
  BY <1>0, <1>5, <1>10, <1>13, <1>15 DEF BatchInv, BatchTypeOK
<1>18. OrderInv'
  BY <1>5, <1>14, <1>15 DEF BatchInv, OrderInv
<1> QED BY <1>16, <1>17, <1>18 DEF BatchInv

-----------------------------------------------------------------------------
(* The row that a request is given is its own, unless a request without     *)
(* features comes no later in the batch; then it is that of a later one.    *)
LEMMA RowIsOwnOrLater ==
  ASSUME NEW batch \in Seq(Items), NEW i \in DOMAIN batch, Row(batch, i) \in Items
  PROVE  \E k \in DOMAIN batch :
           /\ Row(batch, i) = batch[k]
           /\ k # i => i < k /\ \E h \in DOMAIN batch : h <= i /\ batch[h] \notin FeaturedItems
<1> DEFINE upTo(k) == {h \in Featured(batch) : h <= k}
           made == MakesRow(batch, i)
<1>0. DOMAIN batch = 1..Len(batch) /\ Len(batch) \in Nat /\ i \in Nat
  BY LenProperties
<1>1. made # {}
  <2>1. CASE Featured(batch) = {}
    BY <2>1, BatchBounds DEF Row, RowOf, MakesRow
  <2>2. CASE Featured(batch) # {} /\ made = {}
    BY <2>2, BatchBounds DEF Row, RowOf
  <2> QED BY <2>1, <2>2
<1>2. PICK k \in made : Row(batch, i) = batch[k]
  <2>1. Featured(batch) # {}
    BY <1>1 DEF MakesRow
  <2>2. Row(batch, i) = batch[CHOOSE k \in made : TRUE]
    BY <1>1, <2>1 DEF Row, RowOf
  <2> DEFINE k == CHOOSE k \in made : TRUE
  <2>3. k \in made
    BY <1>1
  <2> QED BY <2>2, <2>3
<1>3. k \in Featured(batch) /\ Cardinality(upTo(k)) = i
  BY DEF MakesRow
<1>4. k \in 1..Len(batch) /\ k \in Nat
  BY <1>0, <1>3 DEF Featured
<1>5. upTo(k) \subseteq 1..k /\ Featured(batch) \subseteq 1..Len(batch)
  BY <1>0, <1>4 DEF Featured
<1>6. i <= k
  <2>1. IsFiniteSet(1..k) /\ Cardinality(1..k) = k
    BY <1>4, FS_Interval
  <2> QED BY <1>3, <1>5, <2>1, FS_Subset
<1>7. ASSUME k # i, \A h \in DOMAIN batch : h <= i => batch[h] \in FeaturedItems
      PROVE  FALSE
  <2>1. i < k
    BY <1>0, <1>4, <1>6, <1>7
  <2>2. 1..i \cup {k} \subseteq upTo(k)
    <3>1. \A h \in 1..i : h \in DOMAIN batch /\ h <= i /\ h <= k
      BY <1>0, <1>4, <2>1
    <3> QED BY <1>3, <1>4, <1>7, <3>1 DEF Featured
  <2>3. IsFiniteSet(1..i) /\ Cardinality(1..i) = i /\ k \notin 1..i
    <3>1. i >= 1 /\ i \in Int /\ 1 \in Int
      BY <1>0
    <3> QED BY <2>1, <3>1, FS_Interval
  <2>4. Cardinality(1..i \cup {k}) = i + 1
    BY <2>3, FS_AddElement
  <2>5. IsFiniteSet(upTo(k))
    <3>1. IsFiniteSet(1..k)
      BY <1>4, FS_Interval
    <3> QED BY <1>5, <3>1, FS_Subset
  <2>6. i + 1 <= i
    BY <1>3, <2>2, <2>4, <2>5, FS_Subset
  <2> QED BY <1>0, <2>6
<1>8. k \in DOMAIN batch /\ (k # i => i < k)
  BY <1>0, <1>4, <1>6
<1> QED BY <1>2, <1>7, <1>8

(* A batch that comes back keeps the invariant: each of its requests is     *)
(* given the row of the output at its own place.                            *)
LEMMA ProcessBatchInv == BatchInv /\ ProcessBatch => BatchInv'
<1> SUFFICES ASSUME BatchInv, ProcessBatch PROVE BatchInv'
  OBVIOUS
<1> DEFINE batch == Head(tasks)
           place(r) == CHOOSE j \in DOMAIN batch : batch[j] = r
<1>1. PICK succeeds \in BOOLEAN :
        answer' = [r \in Items |->
                     IF r \notin ToSet(batch) THEN answer[r]
                     ELSE LET i == place(r)
                          IN Settle(r, IF succeeds THEN Row(batch, i) ELSE Failed)]
  BY DEF ProcessBatch
<1>2. /\ tasks # <<>> /\ tasks' = Tail(tasks)
      /\ UNCHANGED <<pending, submitted, batchRunning, batchLoops>>
  BY DEF ProcessBatch
<1>3. /\ batch = tasks[1] /\ 1 \in DOMAIN tasks
      /\ tasks' \in Seq(Seq(Items)) /\ DOMAIN tasks' = 1..(Len(tasks) - 1)
      /\ \A i \in DOMAIN tasks' : tasks'[i] = tasks[i + 1] /\ i + 1 \in DOMAIN tasks
  <2>1. Len(tasks) \in Nat /\ Len(tasks) # 0 /\ DOMAIN tasks = 1..Len(tasks)
        /\ tasks \in Seq(Seq(Items))
    BY <1>2, BatchParts, EmptySeq
  <2>2. /\ Head(tasks) = tasks[1] /\ Tail(tasks) \in Seq(Seq(Items))
        /\ Len(Tail(tasks)) = Len(tasks) - 1
        /\ \A i \in 1..Len(Tail(tasks)) : Tail(tasks)[i] = tasks[i + 1]
    BY <1>2, <2>1, HeadTailProperties
  <2>3. DOMAIN Tail(tasks) = 1..(Len(tasks) - 1)
    BY <2>2, LenProperties
  <2>4. \A i \in 1..(Len(tasks) - 1) : i + 1 \in 1..Len(tasks)
    BY <2>1
  <2> HIDE DEF place
  <2> QED BY <1>2, <2>1, <2>2, <2>3, <2>4
<1>4. batch \in Seq(Items) /\ DOMAIN batch = 1..Len(batch) /\ Len(batch) \in Nat
  BY <1>3, BatchParts, LenProperties
<1>5. PICK g \in Groups : Follows(batch, submitted, Len(submitted), g)
  BY <1>3 DEF BatchInv, OrderInv
<1> HIDE DEF batch
<1>6. \A r \in ToSet(batch) : place(r) \in DOMAIN batch /\ batch[place(r)] = r
  BY DEF ToSet
<1> HIDE DEF place
<1>7. \A r \in Items : \/ answer'[r] = answer[r]
                       \/ answer'[r] = Failed
                       \/ r \in ToSet(batch) /\ answer'[r] = Row(batch, place(r))
  BY <1>1 DEF Settle
<1>8. \A r \in ToSet(batch) : Row(batch, place(r)) \in Items \cup {Failed, Zero}
  <2> SUFFICES ASSUME NEW i \in DOMAIN batch PROVE Row(batch, i) \in Items \cup {Failed, Zero}
    BY <1>6
  <2> DEFINE made == MakesRow(batch, i)
  <2>1. CASE made # {}
    <3>1. Featured(batch) # {} /\ made \subseteq DOMAIN batch
      BY <2>1 DEF MakesRow, Featured
    <3> DEFINE k == CHOOSE k \in made : TRUE
    <3>2. k \in made
      BY <2>1
    <3>3. Row(batch, i) = batch[k]
      BY <2>1, <3>1 DEF Row, RowOf
    <3>4. k \in DOMAIN batch
      BY <3>1, <3>2
    <3> HIDE DEF k
    <3> QED BY <1>4, <3>3, <3>4, ElementOfSeq
  <2>2. CASE made = {} /\ Featured(batch) = {}
    BY <2>2 DEF Row, RowOf
  <2>3. CASE made = {} /\ Featured(batch) # {}
    BY <2>3 DEF Row, RowOf
  <2> QED BY <2>1, <2>2, <2>3
<1>9. answer' \in [Items -> Items \cup {Unanswered, Failed, Zero}]
  <2>1. \A r \in Items : answer'[r] \in Items \cup {Unanswered, Failed, Zero}
    BY <1>7, <1>8 DEF BatchInv, BatchTypeOK
  <2>2. answer' = [r \in Items |-> answer'[r]]
    BY <1>1
  <2> QED BY <2>1, <2>2
<1>10. ASSUME NEW r \in ToSet(batch), Row(batch, place(r)) \in Items \ {r}
       PROVE  \E gap, own, other \in DOMAIN submitted :
                /\ gap <= own /\ own < other
                /\ submitted[own] = r /\ submitted[other] = Row(batch, place(r))
                /\ submitted[gap] \notin FeaturedItems
                /\ \A i \in {gap, other} : GroupOf[submitted[i]] = GroupOf[r]
  <2> DEFINE i == place(r)
  <2>0. i \in DOMAIN batch /\ batch[i] = r
    BY <1>6
  <2> HIDE DEF i
  <2>1. PICK k \in DOMAIN batch :
          /\ Row(batch, i) = batch[k]
          /\ k # i => i < k /\ \E h \in DOMAIN batch : h <= i /\ batch[h] \notin FeaturedItems
    BY <1>4, <1>10, <2>0, RowIsOwnOrLater DEF i
  <2>2. k # i
    BY <1>10, <2>0, <2>1 DEF i
  <2>3. PICK h \in DOMAIN batch : h <= i /\ batch[h] \notin FeaturedItems
    BY <2>1, <2>2
  <2>4. PICK own \in 1..Len(submitted), other \in 1..Len(submitted) :
          own < other /\ submitted[own] = batch[i] /\ submitted[other] = batch[k]
    BY <1>5, <2>0, <2>1, <2>2 DEF Follows
  <2>5. /\ DOMAIN submitted = 1..Len(submitted) /\ Len(submitted) \in Nat
        /\ \A p, q \in DOMAIN submitted : submitted[p] = submitted[q] => p = q
    BY BatchParts DEF BatchInv, OrderInv, IsInjective
  <2>6. PICK gap \in DOMAIN submitted : gap <= own /\ submitted[gap] = batch[h]
    <3>1. CASE h = i
      BY <2>4, <2>5, <3>1
    <3>2. CASE h < i
      <4>1. PICK p \in 1..Len(submitted), q \in 1..Len(submitted) :
              p < q /\ submitted[p] = batch[h] /\ submitted[q] = batch[i]
        BY <1>5, <2>0, <3>2 DEF Follows
      <4>2. q = own
        BY <2>4, <2>5, <4>1
      <4> QED BY <2>5, <4>1, <4>2
    <3> QED BY <1>4, <2>0, <2>3, <3>1, <3>2
  <2>7. \A a \in DOMAIN batch : GroupOf[batch[a]] = g
    BY <1>5 DEF Follows
  <2> WITNESS gap \in DOMAIN submitted, own \in DOMAIN submitted, other \in DOMAIN submitted
  <2> QED BY <2>0, <2>1, <2>3, <2>4, <2>6, <2>7 DEF i
<1>11. PredictionsAligned'
  <2> SUFFICES ASSUME NEW r \in Items, answer'[r] \in Items \ {r}
               PROVE  \E gap, own, other \in DOMAIN submitted :
                        /\ gap <= own /\ own < other
                        /\ submitted[own] = r /\ submitted[other] = answer'[r]
                        /\ submitted[gap] \notin FeaturedItems
                        /\ \A i \in {gap, other} : GroupOf[submitted[i]] = GroupOf[r]
    BY <1>2 DEF PredictionsAligned
  <2>1. CASE answer'[r] = answer[r]
    BY <2>1 DEF BatchInv, PredictionsAligned
  <2>2. CASE r \in ToSet(batch) /\ answer'[r] = Row(batch, place(r))
    BY <1>10, <2>2
  <2> QED BY <1>7, <2>1, <2>2, BatchBounds
<1>12. BatchTypeOK'
  BY <1>2, <1>3, <1>9 DEF BatchInv, BatchTypeOK
<1>13. OrderInv'
  BY <1>2, <1>3 DEF BatchInv, OrderInv
<1> QED BY <1>11, <1>12, <1>13 DEF BatchInv

(* A caller that gives up keeps the invariant.                              *)
LEMMA CancelledInv == ASSUME BatchInv, NEW r \in Items, CallerCancelled(r) PROVE BatchInv'
<1>1. /\ answer' = [answer EXCEPT ![r] = Failed]
      /\ UNCHANGED <<pending, tasks, submitted, batchRunning, batchLoops>>
  BY DEF CallerCancelled
<1>2. BatchTypeOK' /\ \A s \in Items : answer'[s] = answer[s] \/ answer'[s] = Failed
  BY <1>1 DEF BatchInv, BatchTypeOK
<1>3. PredictionsAligned'
  BY <1>1, <1>2, BatchBounds DEF BatchInv, PredictionsAligned
<1> QED BY <1>1, <1>2, <1>3 DEF BatchInv, OrderInv

(* So does whatever changes nothing but the loops.                          *)
LEMMA LoopsInv ==
  ASSUME BatchInv, UNCHANGED <<pending, tasks, answer, submitted>>,
         batchLoops' \in Seq({"alive", "cancelled", "ended"})
  PROVE  BatchInv'
BY DEF BatchInv, BatchTypeOK, OrderInv, PredictionsAligned

(* Each step of the batch engine keeps its invariant.                       *)
LEMMA BatchStepInv == BatchInv /\ [BatchNext]_batchVars => BatchInv'
<1> SUFFICES ASSUME BatchInv, [BatchNext]_batchVars PROVE BatchInv'
  OBVIOUS
<1> DEFINE States == {"alive", "cancelled", "ended"}
<1>0. /\ batchLoops \in Seq(States) /\ DOMAIN batchLoops = 1..Len(batchLoops)
      /\ Len(batchLoops) \in Nat /\ \A i \in DOMAIN batchLoops : batchLoops[i] \in States
  BY LenProperties, ElementOfSeq DEF BatchInv, BatchTypeOK
<1>1. ASSUME NEW i \in DOMAIN batchLoops, BatchLoopEnds(i) PROVE BatchInv'
  <2>1. batchLoops' \in Seq(States)
    BY <1>0, <1>1, ExceptSeq DEF BatchLoopEnds
  <2> QED BY <1>1, <2>1, LoopsInv DEF BatchLoopEnds
<1>2. ASSUME BatchStart PROVE BatchInv'
  <2>1. batchLoops' \in Seq(States)
    BY <1>0, <1>2, AppendProperties DEF BatchStart
  <2> QED BY <1>2, <2>1, LoopsInv DEF BatchStart
<1>3. ASSUME BatchStop PROVE BatchInv'
  <2>1. batchLoops' \in [1..Len(batchLoops) -> States]
    BY <1>0, <1>3 DEF BatchStop
  <2>2. batchLoops' \in Seq(States)
    BY <1>0, <2>1, IsASeq
  <2> QED BY <1>3, <2>2, LoopsInv DEF BatchStop
<1>4. ASSUME UNCHANGED batchVars PROVE BatchInv'
  BY <1>0, <1>4, LoopsInv DEF batchVars
<1> QED BY <1>1, <1>2, <1>3, <1>4, PredictBatchInv, DispatchInv, ProcessBatchInv, CancelledInv
        DEF BatchNext, BatchLoop

(* So does its start.                                                       *)
LEMMA BatchInitInv == BatchInit => BatchInv
<1> SUFFICES ASSUME BatchInit PROVE BatchInv
  OBVIOUS
<1>1. /\ submitted \in Seq(Items) /\ DOMAIN submitted = {} /\ IsInjective(submitted)
      /\ tasks \in Seq(Seq(Items)) /\ DOMAIN tasks = {}
      /\ batchLoops \in Seq({"alive", "cancelled", "ended"})
  BY EmptySeq DEF BatchInit, IsInjective
<1>2. /\ pending \in [Groups -> Seq(Items)]
      /\ \A g \in Groups : DOMAIN pending[g] = {}
  BY EmptySeq DEF BatchInit
<1>3. answer \in [Items -> Items \cup {Unanswered, Failed, Zero}]
      /\ \A r \in Items : answer[r] \notin Items
  BY BatchBounds DEF BatchInit
<1>4. BatchTypeOK
  BY <1>1, <1>2, <1>3 DEF BatchTypeOK
<1>5. OrderInv
  BY <1>1, <1>2 DEF OrderInv, Follows
<1>6. PredictionsAligned
  BY <1>3 DEF PredictionsAligned
<1> QED BY <1>4, <1>5, <1>6 DEF BatchInv

(* The batch engine is always in range: no task holds anything but          *)
(* requests, and each request is answered by a prediction, a failure or     *)
(* zero.                                                                    *)
THEOREM BatchTypeCorrect == BatchSpec => []BatchTypeOK
<1>1. BatchInv => BatchTypeOK
  BY DEF BatchInv
<1> QED BY <1>1, BatchInitInv, BatchStepInv, PTL DEF BatchSpec

(* Whatever the batches were and however they were cut, a request gets a    *)
(* prediction made for another one only when a request without features     *)
(* came no later in its group, and then only that of one submitted after    *)
(* it: the rows without features are dropped before the model sees the      *)
(* batch.                                                                   *)
THEOREM BatchPredictionsAligned == BatchSpec => []PredictionsAligned
<1>1. BatchInv => PredictionsAligned
  BY DEF BatchInv
<1> QED BY <1>1, BatchInitInv, BatchStepInv, PTL DEF BatchSpec

-----------------------------------------------------------------------------
(* No request is lost on its way to its batch.                              *)

(* What is cut off a group and what is left are all of it.                  *)
LEMMA CutOrRest ==
  ASSUME NEW s \in Seq(Items), NEW r \in ToSet(s)
  PROVE  r \in ToSet(Cut(s)) \/ r \in ToSet(Rest(s))
<1> DEFINE to == IF Len(s) < BatchSize THEN Len(s) ELSE BatchSize
<1>1. Len(s) \in Nat /\ DOMAIN s = 1..Len(s) /\ BatchSize \in Nat /\ BatchSize > 0
  BY LenProperties, BatchBounds
<1>2. PICK a \in 1..Len(s) : s[a] = r
  BY <1>1 DEF ToSet
<1>3. \A k \in 1..Len(s) : s[k] \in Items
  BY <1>1, ElementOfSeq
<1>4. CASE a <= BatchSize
  <2>1. 1 <= to /\ to \in Nat /\ to - 1 + 1 = to /\ a \in 1..to /\ 1 + a - 1 = a
        /\ \A k \in 1..to : k \in 1..Len(s)
    BY <1>1, <1>2, <1>4
  <2> HIDE DEF to
  <2>2. /\ SubSeq(s, 1, to) \in Seq(Items) /\ Len(SubSeq(s, 1, to)) = to
        /\ SubSeq(s, 1, to)[a] = s[a]
    BY <1>1, <1>3, <2>1, SubSeqProperties
  <2>3. a \in DOMAIN SubSeq(s, 1, to)
    BY <2>1, <2>2, LenProperties
  <2>4. Cut(s) = SubSeq(s, 1, to)
    BY DEF Cut, to
  <2> QED BY <1>2, <2>2, <2>3, <2>4 DEF ToSet
<1>5. CASE BatchSize < a
  <2> DEFINE from == BatchSize + 1
             b == a - BatchSize
             size == Len(s) - from + 1
  <2>1. /\ from \in Nat /\ from <= Len(s) /\ b \in 1..size /\ from + b - 1 = a
        /\ \A k \in from..Len(s) : k \in 1..Len(s)
    BY <1>1, <1>2, <1>5
  <2>2. /\ SubSeq(s, from, Len(s)) \in Seq(Items) /\ Len(SubSeq(s, from, Len(s))) = size
        /\ SubSeq(s, from, Len(s))[b] = s[from + b - 1]
    BY <1>1, <1>3, <2>1, SubSeqProperties
  <2>3. b \in DOMAIN SubSeq(s, from, Len(s))
    BY <2>1, <2>2, LenProperties
  <2>4. Rest(s) = SubSeq(s, from, Len(s))
    BY DEF Rest
  <2> HIDE DEF from, b, size
  <2>5. SubSeq(s, from, Len(s))[b] = r
    BY <1>2, <2>1, <2>2
  <2> QED BY <2>3, <2>4, <2>5 DEF ToSet
<1> QED BY <1>1, <1>2, <1>4, <1>5

(* A list of requests goes to their groups, and those keep what they had.   *)
LEMMA GroupsGather ==
  ASSUME BatchInv, NEW list \in Seq(Items), PredictBatch(list)
  PROVE  /\ \A g \in Groups : ToSet(pending[g]) \subseteq ToSet(pending'[g])
         /\ \A r \in ToSet(list) : r \in ToSet(pending'[GroupOf[r]])
<1> DEFINE len == Len(list)
           after[n \in 0..len] == IF n = 0 THEN pending ELSE Added(after[n - 1], list, n)
<1>0. len \in Nat /\ DOMAIN list = 1..len
  BY LenProperties
<1>1. pending' = after[len]
  BY DEF PredictBatch, Added
<1>2. after[0] = pending /\ \A n \in 1..len : after[n] = Added(after[n - 1], list, n)
  <2> HIDE DEF len
  <2> QED BY <1>0, GroupsExist
<1> DEFINE Gathered(n) ==
             /\ after[n] \in [Groups -> Seq(Items)]
             /\ \A g \in Groups : ToSet(pending[g]) \subseteq ToSet(after[n][g])
             /\ \A m \in 1..n : list[m] \in ToSet(after[n][GroupOf[list[m]]])
           Wrong == {n \in Nat : n <= len /\ ~Gathered(n)}
<1> HIDE DEF after
<1>3. Gathered(0)
  BY <1>2, BatchParts
<1>4. ASSUME NEW n \in Nat, n + 1 <= len, Gathered(n) PROVE Gathered(n + 1)
  <2> DEFINE x == list[n + 1]
             own == GroupOf[x]
  <2>1. /\ n + 1 \in 1..len /\ (n + 1) - 1 = n
        /\ \A m \in 1..(n + 1) : m \in 1..len /\ (m = n + 1 \/ m \in 1..n)
    <3> HIDE DEF len, Gathered
    <3> QED BY <1>0, <1>4
  <2>2. x \in Items /\ own \in Groups /\ \A m \in 1..len : GroupOf[list[m]] \in Groups
    BY <1>0, <2>1, ElementOfSeq, GroupsKnown
  <2>3. after[n + 1] = [after[n] EXCEPT ![own] = Append(@, x)]
    BY <1>2, <2>1 DEF Added
  <2>4. after[n][own] \in Seq(Items)
    BY <1>4, <2>2
  <2> HIDE DEF x, own
  <2>5. /\ Append(after[n][own], x) \in Seq(Items)
        /\ ToSet(after[n][own]) \cup {x} \subseteq ToSet(Append(after[n][own], x))
    <3> DEFINE s == after[n][own]
    <3>1. /\ Append(s, x) \in Seq(Items) /\ Len(Append(s, x)) = Len(s) + 1
          /\ \A k \in 1..Len(s) : Append(s, x)[k] = s[k]
          /\ Append(s, x)[Len(s) + 1] = x
      BY <2>2, <2>4, AppendProperties
    <3>2. /\ DOMAIN s = 1..Len(s) /\ Len(s) \in Nat
          /\ DOMAIN Append(s, x) = 1..(Len(s) + 1)
      BY <2>4, <3>1, LenProperties
    <3>3. \A k \in 1..Len(s) : k \in 1..(Len(s) + 1)
      BY <3>2
    <3>4. Len(s) + 1 \in 1..(Len(s) + 1)
      BY <3>2
    <3> HIDE DEF s
    <3>5. ToSet(s) \cup {x} \subseteq ToSet(Append(s, x))
      BY <3>1, <3>2, <3>3, <3>4 DEF ToSet
    <3> QED BY <3>1, <3>5 DEF s
  <2>6. /\ after[n + 1] \in [Groups -> Seq(Items)]
        /\ after[n + 1][own] = Append(after[n][own], x)
        /\ \A g \in Groups : g # own => after[n + 1][g] = after[n][g]
    BY <1>4, <2>2, <2>3, <2>5
  <2>7. \A g \in Groups : ToSet(after[n][g]) \subseteq ToSet(after[n + 1][g])
    BY <2>5, <2>6
  <2>8. x \in ToSet(after[n + 1][own])
    BY <2>5, <2>6
  <2>9. \A m \in 1..(n + 1) : list[m] \in ToSet(after[n + 1][GroupOf[list[m]]])
    BY <1>4, <2>1, <2>2, <2>7, <2>8 DEF x, own
  <2>10. \A g \in Groups : ToSet(pending[g]) \subseteq ToSet(after[n + 1][g])
    BY <1>4, <2>7
  <2> QED BY <2>6, <2>9, <2>10
<1>5. Wrong = {}
  <2> SUFFICES ASSUME Wrong # {} PROVE FALSE
    OBVIOUS
  <2>1. PICK n \in Wrong : \A l \in Wrong : n <= l
    <3>1. Wrong \in SUBSET Nat
      OBVIOUS
    <3> HIDE DEF Wrong
    <3> QED BY <3>1, LeastNatural
  <2> HIDE DEF Gathered, len
  <2>2. n \in Nat /\ n <= len /\ n # 0 /\ ~Gathered(n)
    BY <1>3
  <2>3. n - 1 \in Nat /\ (n - 1) + 1 = n /\ ~(n <= n - 1) /\ n - 1 <= len
    BY <1>0, <2>2
  <2>4. Gathered(n - 1)
    BY <2>1, <2>3
  <2> QED BY <1>4, <2>2, <2>3, <2>4
<1>6. Gathered(len)
  <2> HIDE DEF Gathered
  <2> QED BY <1>0, <1>5
<1> HIDE DEF len
<1>7. ASSUME NEW r \in ToSet(list) PROVE r \in ToSet(after[len][GroupOf[r]])
  <2>1. PICK m \in 1..len : list[m] = r
    BY <1>0 DEF ToSet
  <2>2. list[m] \in ToSet(after[len][GroupOf[list[m]]])
    BY <1>6
  <2> QED BY <2>1, <2>2
<1>8. \A g \in Groups : ToSet(pending[g]) \subseteq ToSet(after[len][g])
  BY <1>6
<1> HIDE DEF Gathered
<1> QED BY <1>1, <1>7, <1>8

(* Where a request waits. *)
Awaits(r) == r \in ToSet(pending[GroupOf[r]]) \/ \E i \in DOMAIN tasks : r \in ToSet(tasks[i])

(* A batch that is sent off takes along whatever its group no longer holds. *)
LEMMA DispatchHolds ==
  ASSUME BatchInv, NEW i, Dispatch(i), NEW r \in Items, Awaits(r)
  PROVE  Awaits(r)'
<1> DEFINE waiting == {g \in Groups : pending[g] # <<>>}
           own == GroupOf[r]
<1>1. PICK order \in SetToSeqs(waiting) :
        tasks' = tasks \o [j \in DOMAIN order |-> Cut(pending[order[j]])]
  BY DEF Dispatch
<1> DEFINE new == [j \in DOMAIN order |-> Cut(pending[order[j]])]
           size == Cardinality(waiting)
<1>2. size \in Nat /\ order \in [1..size -> waiting]
      /\ \A a, b \in 1..size : a # b => order[a] # order[b]
  <2>1. IsFiniteSet(waiting)
    BY GroupsFinite, FS_Subset
  <2> QED BY <2>1, FS_CardinalityType DEF SetToSeqs
<1>3. \A g \in Groups : pending[g] \in Seq(Items)
  BY BatchParts
<1>4. pending' = [g \in Groups |-> Rest(pending[g])] /\ own \in Groups
  BY GroupsKnown DEF Dispatch
<1>5. \A j \in 1..size : new[j] \in Seq(Items)
  <2>1. \A g \in Groups : Cut(pending[g]) \in Seq(Items)
    BY <1>3, BatchParts, CutAndRest DEF BatchInv, OrderInv
  <2> QED BY <1>2, <2>1
<1>6. new \in Seq(Seq(Items)) /\ Len(new) = size /\ DOMAIN new = 1..size
  <2>1. new \in [1..size -> Seq(Items)]
    BY <1>2, <1>5
  <2> HIDE DEF new, size
  <2> QED BY <1>2, <2>1, IsASeq, LenProperties
<1>7. tasks' = tasks \o new
  BY <1>1
<1>8. \A j \in 1..size : new[j] = Cut(pending[order[j]])
  BY <1>2
<1> HIDE DEF new
<1>9. /\ tasks' \in Seq(Seq(Items)) /\ Len(tasks') = Len(tasks) + size
      /\ \A k \in 1..Len(tasks) + size :
           tasks'[k] = IF k <= Len(tasks) THEN tasks[k] ELSE new[k - Len(tasks)]
  <2> HIDE DEF size
  <2> QED BY <1>6, <1>7, BatchParts, ConcatProperties
<1>10. DOMAIN tasks' = 1..(Len(tasks) + size) /\ Len(tasks) \in Nat /\ DOMAIN tasks = 1..Len(tasks)
  <2> HIDE DEF size
  <2> QED BY <1>9, BatchParts, LenProperties
<1>11. CASE \E k \in DOMAIN tasks : r \in ToSet(tasks[k])
  <2>1. PICK k \in DOMAIN tasks : r \in ToSet(tasks[k])
    BY <1>11
  <2>2. k \in DOMAIN tasks' /\ tasks'[k] = tasks[k]
    <3> HIDE DEF size
    <3> QED BY <1>2, <1>9, <1>10
  <2> QED BY <2>1, <2>2 DEF Awaits
<1>12. CASE r \in ToSet(pending[own])
  <2>1. CASE r \in ToSet(Rest(pending[own]))
    BY <1>4, <2>1 DEF Awaits
  <2>2. CASE r \in ToSet(Cut(pending[own]))
    <3>1. own \in waiting
      BY <1>4, <1>12 DEF ToSet
    <3>2. \E j \in 1..size : order[j] = own
      <4>1. IsFiniteSet(waiting)
        BY GroupsFinite, FS_Subset
      <4> HIDE DEF waiting
      <4> QED BY <1>1, <3>1, <4>1, SeqOfAll
    <3>3. PICK j \in 1..size : order[j] = own
      BY <3>2
    <3> HIDE DEF size, own
    <3>4. /\ Len(tasks) + j \in 1..Len(tasks) + size
          /\ ~(Len(tasks) + j <= Len(tasks)) /\ Len(tasks) + j - Len(tasks) = j
      BY <1>2, <1>10
    <3>5. tasks'[Len(tasks) + j] = Cut(pending[own])
      <4>1. tasks'[Len(tasks) + j] = new[j]
        BY <1>9, <3>4
      <4>2. new[j] = Cut(pending[order[j]])
        BY <1>8, <3>3
      <4> QED BY <3>3, <4>1, <4>2
    <3>6. Len(tasks) + j \in DOMAIN tasks'
      BY <1>10, <3>4
    <3> QED BY <2>2, <3>5, <3>6 DEF Awaits
  <2> QED BY <1>3, <1>4, <1>12, <2>1, <2>2, CutOrRest
<1> QED BY <1>11, <1>12 DEF Awaits

(* A batch that is processed answers each request in it.                    *)
LEMMA ProcessBatchHolds ==
  ASSUME BatchInv, ProcessBatch, NEW r \in Items, Awaits(r), answer'[r] = Unanswered
  PROVE  answer[r] = Unanswered /\ Awaits(r)'
<1> DEFINE batch == Head(tasks)
           place(q) == CHOOSE j \in DOMAIN batch : batch[j] = q
<1>1. PICK succeeds \in BOOLEAN :
        answer' = [q \in Items |->
                     IF q \notin ToSet(batch) THEN answer[q]
                     ELSE LET i == place(q)
                          IN Settle(q, IF succeeds THEN Row(batch, i) ELSE Failed)]
  BY DEF ProcessBatch
<1>2. tasks # <<>> /\ tasks' = Tail(tasks) /\ pending' = pending
  BY DEF ProcessBatch
<1>3. /\ batch = tasks[1] /\ tasks[1] \in Seq(Items)
      /\ \A i \in DOMAIN tasks : i # 1 => i - 1 \in DOMAIN tasks' /\ tasks'[i - 1] = tasks[i]
  <2>1. Len(tasks) \in Nat /\ Len(tasks) # 0 /\ DOMAIN tasks = 1..Len(tasks)
        /\ tasks \in Seq(Seq(Items))
    BY <1>2, BatchParts, EmptySeq
  <2>2. /\ Head(tasks) = tasks[1] /\ Tail(tasks) \in Seq(Seq(Items))
        /\ Len(Tail(tasks)) = Len(tasks) - 1
        /\ \A i \in 1..Len(Tail(tasks)) : Tail(tasks)[i] = tasks[i + 1]
    BY <1>2, <2>1, HeadTailProperties
  <2>3. DOMAIN Tail(tasks) = 1..(Len(tasks) - 1)
    BY <2>2, LenProperties
  <2>4. \A i \in 1..Len(tasks) : i # 1 => i - 1 \in 1..(Len(tasks) - 1) /\ (i - 1) + 1 = i
    BY <2>1
  <2>5. 1 \in DOMAIN tasks
    BY <2>1
  <2> HIDE DEF place
  <2> QED BY <1>2, <2>1, <2>2, <2>3, <2>4, <2>5, BatchParts
<1> HIDE DEF batch
<1>4. \A q \in ToSet(batch) : place(q) \in DOMAIN batch
  BY DEF ToSet
<1> HIDE DEF place
<1>5. \A q \in ToSet(batch) : Row(batch, place(q)) # Unanswered
  <2> SUFFICES ASSUME NEW i \in DOMAIN batch PROVE Row(batch, i) # Unanswered
    BY <1>4
  <2> DEFINE made == MakesRow(batch, i)
  <2>1. CASE made # {}
    <3>1. Featured(batch) # {} /\ made \subseteq DOMAIN batch
      BY <2>1 DEF MakesRow, Featured
    <3> DEFINE k == CHOOSE k \in made : TRUE
    <3>2. k \in made
      BY <2>1
    <3>3. Row(batch, i) = batch[k]
      BY <2>1, <3>1 DEF Row, RowOf
    <3>4. k \in DOMAIN batch
      BY <3>1, <3>2
    <3> HIDE DEF k
    <3> QED BY <1>3, <3>3, <3>4, ElementOfSeq, LenProperties, BatchBounds
  <2>2. CASE made = {} /\ Featured(batch) = {}
    BY <2>2, BatchAssumption DEF Row, RowOf
  <2>3. CASE made = {} /\ Featured(batch) # {}
    BY <2>3, BatchAssumption DEF Row, RowOf
  <2> QED BY <2>1, <2>2, <2>3
<1>6. r \notin ToSet(batch) /\ answer'[r] = answer[r]
  <2>1. r \in ToSet(batch) => answer'[r] # Unanswered
    BY <1>1, <1>5, BatchAssumption DEF Settle
  <2>2. r \notin ToSet(batch) => answer'[r] = answer[r]
    BY <1>1
  <2> QED BY <2>1, <2>2
<1>7. CASE r \in ToSet(pending[GroupOf[r]])
  BY <1>2, <1>6, <1>7 DEF Awaits
<1>8. CASE \E i \in DOMAIN tasks : r \in ToSet(tasks[i])
  <2>1. PICK i \in DOMAIN tasks : r \in ToSet(tasks[i])
    BY <1>8
  <2>2. i # 1
    BY <1>3, <1>6, <2>1
  <2> QED BY <1>3, <1>6, <2>1, <2>2 DEF Awaits
<1> QED BY <1>7, <1>8 DEF Awaits

(* A request stays where it waits until it is answered.                     *)
LEMMA HeldStepInv ==
  BatchInv /\ RequestsAreHeld /\ [BatchNext]_batchVars => RequestsAreHeld'
<1> SUFFICES ASSUME BatchInv, RequestsAreHeld, [BatchNext]_batchVars PROVE RequestsAreHeld'
  OBVIOUS
<1>1. /\ ToSet(submitted) \subseteq Items
      /\ \A r \in ToSet(submitted) : answer[r] = Unanswered => Awaits(r)
  <2>1. ToSet(submitted) \subseteq Items
    BY BatchParts, ElementOfSeq DEF ToSet
  <2> QED BY <2>1 DEF RequestsAreHeld, Awaits
<1>2. ASSUME \A r \in ToSet(submitted)' : answer'[r] = Unanswered => Awaits(r)'
      PROVE  RequestsAreHeld'
  BY <1>2 DEF RequestsAreHeld, Awaits
<1>3. ASSUME NEW list \in Lists, PredictBatch(list) PROVE RequestsAreHeld'
  <2>1. list \in Seq(Items)
    BY ListsAreSeqs
  <2>2. submitted' = submitted \o list /\ answer' = answer /\ tasks' = tasks
    BY <1>3 DEF PredictBatch
  <2>3. ToSet(submitted)' \subseteq ToSet(submitted) \cup ToSet(list)
    <3>1. /\ Len(submitted) \in Nat /\ Len(list) \in Nat /\ submitted \in Seq(Items)
          /\ DOMAIN submitted = 1..Len(submitted) /\ DOMAIN list = 1..Len(list)
      BY <2>1, BatchParts, LenProperties
    <3>2. /\ submitted' \in Seq(Items) /\ Len(submitted') = Len(submitted) + Len(list)
          /\ \A p \in 1..Len(submitted) + Len(list) :
               submitted'[p] = IF p <= Len(submitted) THEN submitted[p]
                               ELSE list[p - Len(submitted)]
      BY <2>1, <2>2, <3>1, ConcatProperties
    <3>3. DOMAIN submitted' = 1..(Len(submitted) + Len(list))
      BY <3>2, LenProperties
    <3>4. ASSUME NEW p \in DOMAIN submitted'
          PROVE  submitted'[p] \in ToSet(submitted) \cup ToSet(list)
      <4>1. CASE p <= Len(submitted)
        BY <3>1, <3>2, <3>3, <4>1 DEF ToSet
      <4>2. CASE ~(p <= Len(submitted))
        <5>1. p - Len(submitted) \in DOMAIN list
          BY <3>1, <3>3, <4>2
        <5> QED BY <3>2, <3>3, <4>2, <5>1 DEF ToSet
      <4> QED BY <4>1, <4>2
    <3> QED BY <3>4 DEF ToSet
  <2>4. /\ \A g \in Groups : ToSet(pending[g]) \subseteq ToSet(pending'[g])
        /\ \A r \in ToSet(list) : r \in ToSet(pending'[GroupOf[r]])
    BY <1>3, <2>1, GroupsGather
  <2>5. ASSUME NEW r \in ToSet(submitted), answer'[r] = Unanswered PROVE Awaits(r)'
    <3>1. Awaits(r) /\ GroupOf[r] \in Groups
      BY <1>1, <2>2, <2>5, GroupsKnown
    <3>2. r \in ToSet(pending[GroupOf[r]]) => r \in ToSet(pending'[GroupOf[r]])
      BY <2>4, <3>1
    <3> QED BY <2>2, <3>1, <3>2 DEF Awaits
  <2>6. ASSUME NEW r \in ToSet(list) PROVE Awaits(r)'
    BY <2>4 DEF Awaits
  <2> QED BY <1>2, <2>3, <2>5, <2>6
<1>4. ASSUME NEW i, Dispatch(i) PROVE RequestsAreHeld'
  <2>1. submitted' = submitted /\ answer' = answer
    BY <1>4 DEF Dispatch
  <2> QED BY <1>1, <1>2, <1>4, <2>1, DispatchHolds
<1>5. ASSUME ProcessBatch PROVE RequestsAreHeld'
  <2> SUFFICES ASSUME NEW r \in ToSet(submitted), answer'[r] = Unanswered PROVE Awaits(r)'
    BY <1>2, <1>5 DEF ProcessBatch
  <2>1. r \in Items
    BY <1>1
  <2>2. CASE answer[r] = Unanswered
    BY <1>1, <1>5, <2>1, <2>2, ProcessBatchHolds
  <2>3. CASE answer[r] # Unanswered
    <3>1. answer'[r] = answer[r]
      BY <1>5, <2>1, <2>3 DEF ProcessBatch, Settle
    <3> QED BY <2>3, <3>1
  <2> QED BY <2>2, <2>3
<1>6. ASSUME NEW q \in Items, CallerCancelled(q) PROVE RequestsAreHeld'
  <2>1. /\ answer' = [answer EXCEPT ![q] = Failed]
        /\ pending' = pending /\ tasks' = tasks /\ submitted' = submitted
    BY <1>6 DEF CallerCancelled
  <2>2. \A r \in Items : answer'[r] = Unanswered => answer[r] = Unanswered
    BY <2>1, BatchAssumption DEF BatchInv, BatchTypeOK
  <2> QED BY <1>1, <1>2, <2>1, <2>2 DEF Awaits
<1>7. ASSUME UNCHANGED <<pending, tasks, answer, submitted>> PROVE RequestsAreHeld'
  BY <1>1, <1>2, <1>7 DEF Awaits
<1> QED BY <1>3, <1>4, <1>5, <1>6, <1>7
        DEF BatchNext, BatchLoop, BatchLoopEnds, BatchStart, BatchStop, batchVars

(* A request whose caller waits is never lost: it is in the list of its      *)
(* group or in a batch still to be processed, whatever loops were started    *)
(* and stopped and whatever other callers gave up.                           *)
THEOREM BatchKeepsRequests == BatchSpec => []RequestsAreHeld
<1>1. BatchInit => RequestsAreHeld
  BY DEF BatchInit, RequestsAreHeld, ToSet
<1> QED BY <1>1, BatchInitInv, BatchStepInv, HeldStepInv, PTL DEF BatchSpec

-----------------------------------------------------------------------------
(* The A/B tests of models.                                                 *)

(* What an evaluation leaves is in range.                                   *)
LEMMA EvaluateType ==
  ASSUME ABTypeOK, NEW t \in Tests, EvaluateAs(t, "completed") \/ EvaluateAs(t, testStatus[t])
  PROVE  /\ testStatus' \in [Tests -> {"absent", "running", "paused", "completed", "auto_promoted"}]
         /\ served' \in [Tests -> {"A", "B"}]
BY DEF ABTypeOK, EvaluateAs, ServedAfter

(* Each step of the A/B tests keeps their type.                             *)
LEMMA ABStepInv == ABTypeOK /\ [ABNext]_abVars => ABTypeOK'
<1> SUFFICES ASSUME ABTypeOK, [ABNext]_abVars PROVE ABTypeOK'
  OBVIOUS
<1>1. ASSUME NEW i \in DOMAIN Order, CreateTest(i) PROVE ABTypeOK'
  BY <1>1 DEF CreateTest, checkVars, ABTypeOK
<1>2. ASSUME NEW t \in Tests, PauseTest(t) \/ ResumeTest(t) PROVE ABTypeOK'
  BY <1>2 DEF PauseTest, ResumeTest, checkVars, ABTypeOK
<1>3. ASSUME NEW t \in Tests, StopTest(t) \/ EvaluateTest(t) PROVE ABTypeOK'
  <2>1. EvaluateAs(t, "completed") \/ EvaluateAs(t, testStatus[t])
    BY <1>3 DEF StopTest, EvaluateTest
  <2>2. UNCHANGED <<evidence, long, lead, checkVars>>
    BY <1>3 DEF StopTest, EvaluateTest
  <2> QED BY <2>1, <2>2, EvaluateType DEF ABTypeOK, checkVars
<1>4. ASSUME NEW t \in Tests, RecordResult(t) PROVE ABTypeOK'
  BY <1>4 DEF RecordResult, checkVars, ABTypeOK
<1>5. ASSUME PeriodicCheck PROVE ABTypeOK'
  BY <1>5 DEF PeriodicCheck, ServedAfter, ABTypeOK
<1>6. ASSUME StartChecking \/ StopChecking \/ StrayEnds \/ UNCHANGED abVars PROVE ABTypeOK'
  BY <1>6 DEF StartChecking, StopChecking, StrayEnds, abVars, ABTypeOK
<1> QED BY <1>1, <1>2, <1>3, <1>4, <1>5, <1>6 DEF ABNext

(* So does their start.                                                     *)
LEMMA ABInitInv == ABInit => ABTypeOK
<1> SUFFICES ASSUME ABInit PROVE ABTypeOK
  OBVIOUS
<1> QED BY DEF ABInit, ABTypeOK

(* Whatever the order in which tests are created, paused, resumed, stopped  *)
(* and evaluated, each is in a state of ABTestStatus and serves A or B.     *)
THEOREM ABTypeCorrect == ABSpec => []ABTypeOK
<1> QED BY ABInitInv, ABStepInv, PTL DEF ABSpec

-----------------------------------------------------------------------------
(* The consumer of training data.                                           *)

Messages == 1..LogEnd
FlushTasks(n) == [since : 0..n, batch : Seq(Messages)]

(* The parts of the consumer one by one, with what ConsumerTypeOK leaves    *)
(* open: the sequences are sequences of messages, and no flush in the      *)
(* callbacks was begun in a session to come.                               *)
ConsumerParts ==
  /\ session \in 0..Sessions /\ active \in BOOLEAN /\ recent \in BOOLEAN
  /\ consuming \in {"polling", "pressed", "handling", "committing", "cancelled", "off"}
  /\ position \in 1..(LogEnd + 1) /\ committed \in 1..(LogEnd + 1)
  /\ consumed \in 0..(CommitEvery - 1)
  /\ buffer \in Seq(Messages) /\ flushing \in Seq(Messages) /\ final \in Seq(Messages)
  /\ total = Len(buffer) /\ total <= Backpressure
  /\ scheduled \in Nat
  /\ forced \in Seq(FlushTasks(session))
  /\ looping \in {"sleeping", "flushing", "cancelled", "off"}
  /\ looping = "flushing" => flushing # <<>>
  /\ flushing # <<>> => looping \in {"flushing", "cancelled"}
  /\ stopping \in {"no", "loop", "final", "task"}
  /\ (stopping = "final") <=> (final # <<>>)
  /\ trained \subseteq Messages

(* What stop leaves: whoever is told to stop adds nothing more, and there   *)
(* is nothing in the buffer once stop has looked there.                    *)
StopInv ==
  /\ active => stopping = "no"
  /\ ~active /\ stopping = "no" => consuming = "off" /\ buffer = <<>> /\ looping = "off"
  /\ stopping # "no" => looping \in {"cancelled", "off"}
  /\ stopping \in {"final", "task"} => buffer = <<>> /\ looping = "off"

OwnBatches == {i \in DOMAIN forced : forced[i].since = session}
ReadInv ==
  /\ FlushedOnce
  /\ \A m \in ToSet(buffer) \cup ToSet(flushing) \cup ToSet(final) : m < position
  /\ \A i \in OwnBatches : \A m \in ToSet(forced[i].batch) : m < position

ConsumerInv == ConsumerParts /\ StopInv /\ ReadInv

(* What the constants of the consumer are.                                  *)
LEMMA ConsumerBounds ==
  /\ LogEnd \in Nat /\ Invalid \subseteq Messages
  /\ MaxBuffer \in Nat /\ Backpressure \in Nat /\ Sessions \in Nat
  /\ CommitEvery \in Nat /\ CommitEvery > 0
BY ConsumerAssumption DEF Messages

(* A batch without messages.                                                *)
LEMMA EmptyBatch ==
  ASSUME NEW S
  PROVE  /\ <<>> \in Seq(S) /\ Len(<<>>) = 0 /\ ToSet(<<>>) = {} /\ IsInjective(<<>>)
         /\ \A s \in Seq(S) : s = <<>> <=> Len(s) = 0
<1>1. <<>> \in Seq(S) /\ Len(<<>>) = 0 /\ \A s \in Seq(S) : s = <<>> <=> Len(s) = 0
  BY EmptySeq
<1>2. ToSet(<<>>) = {} /\ IsInjective(<<>>)
  BY DEF ToSet, IsInjective
<1> QED BY <1>1, <1>2

(* The messages of a batch are messages.                                    *)
LEMMA MessagesOf ==
  ASSUME NEW S, NEW s \in Seq(S)
  PROVE  /\ ToSet(s) = {s[i] : i \in 1..Len(s)} /\ ToSet(s) \subseteq S
         /\ DOMAIN s = 1..Len(s) /\ Len(s) \in Nat
BY LenProperties, ElementOfSeq DEF ToSet

(* What is added at the end of a sequence that does not hold it yet.        *)
LEMMA Appended ==
  ASSUME NEW S, NEW s \in Seq(S), NEW m \in S
  PROVE  /\ Append(s, m) \in Seq(S) /\ Len(Append(s, m)) = Len(s) + 1
         /\ ToSet(Append(s, m)) = ToSet(s) \cup {m}
         /\ IsInjective(s) /\ m \notin ToSet(s) => IsInjective(Append(s, m))
<1>1. /\ Append(s, m) \in Seq(S) /\ Len(Append(s, m)) = Len(s) + 1
      /\ \A i \in 1..Len(s) : Append(s, m)[i] = s[i]
      /\ Append(s, m)[Len(s) + 1] = m
  BY AppendProperties
<1> DEFINE longer == Append(s, m)
<1>2. DOMAIN longer = 1..(Len(s) + 1) /\ DOMAIN s = 1..Len(s) /\ Len(s) \in Nat
  BY <1>1, LenProperties
<1> HIDE DEF longer
<1>3. ToSet(longer) = ToSet(s) \cup {m}
  BY <1>1, <1>2 DEF ToSet, longer
<1>4. ASSUME IsInjective(s), m \notin ToSet(s) PROVE IsInjective(longer)
  <2>1. \A i, j \in DOMAIN s : s[i] = s[j] => i = j
    BY <1>4 DEF IsInjective
  <2>2. \A i \in DOMAIN s : s[i] # m
    BY <1>4 DEF ToSet
  <2>3. \A i \in DOMAIN longer : IF i = Len(s) + 1 THEN longer[i] = m
                                 ELSE i \in DOMAIN s /\ longer[i] = s[i]
    BY <1>1, <1>2 DEF longer
  <2> QED BY <2>1, <2>2, <2>3 DEF IsInjective
<1> QED BY <1>1, <1>3, <1>4 DEF longer

(* One element taken out of a sequence: the others stay, in their order.    *)
LEMMA Removed ==
  ASSUME NEW S, NEW s \in Seq(S), NEW i \in DOMAIN s
  PROVE  LET t == RemoveAt(s, i)
         IN /\ t \in Seq(S) /\ Len(t) = Len(s) - 1 /\ DOMAIN t = 1..(Len(s) - 1)
            /\ \A k \in DOMAIN t : t[k] = s[IF k < i THEN k ELSE k + 1]
<1>0. Len(s) \in Nat /\ DOMAIN s = 1..Len(s) /\ i \in 1..Len(s)
  BY LenProperties
<1> DEFINE front == SubSeq(s, 1, i - 1)
           back == SubSeq(s, i + 1, Len(s))
<1>1. \A k \in 1..Len(s) : s[k] \in S
  BY ElementOfSeq
<1>2. /\ front \in Seq(S) /\ Len(front) = i - 1
      /\ \A k \in 1..(i - 1) : front[k] = s[k]
  <2>1. 1 \in Int /\ i - 1 \in Int /\ \A k \in 1..(i - 1) : s[k] \in S
    BY <1>0, <1>1
  <2>2. /\ front \in Seq(S)
        /\ Len(front) = IF 1 <= i - 1 THEN i - 1 - 1 + 1 ELSE 0
        /\ \A k \in 1..i - 1 - 1 + 1 : front[k] = s[1 + k - 1]
    BY <2>1, SubSeqProperties
  <2> QED BY <2>2, <1>0
<1>3. /\ back \in Seq(S) /\ Len(back) = Len(s) - i
      /\ \A k \in 1..(Len(s) - i) : back[k] = s[i + k]
  <2>1. i + 1 \in Int /\ Len(s) \in Int /\ \A k \in (i + 1)..Len(s) : s[k] \in S
    BY <1>0, <1>1
  <2>2. /\ back \in Seq(S)
        /\ Len(back) = IF i + 1 <= Len(s) THEN Len(s) - (i + 1) + 1 ELSE 0
        /\ \A k \in 1..Len(s) - (i + 1) + 1 : back[k] = s[(i + 1) + k - 1]
    BY <2>1, SubSeqProperties
  <2> HIDE DEF back
  <2>3. Len(back) = Len(s) - i
    <3>1. CASE i + 1 <= Len(s)
      <4>1. Len(back) = Len(s) - (i + 1) + 1
        BY <2>2, <3>1
      <4> QED BY <4>1, <1>0
    <3>2. CASE ~(i + 1 <= Len(s))
      <4>1. Len(back) = 0
        BY <2>2, <3>2
      <4> QED BY <4>1, <3>2, <1>0
    <3> QED BY <3>1, <3>2
  <2>4. ASSUME NEW k \in 1..(Len(s) - i) PROVE back[k] = s[i + k]
    <3>1. k \in 1..Len(s) - (i + 1) + 1 /\ (i + 1) + k - 1 = i + k
      BY <1>0
    <3> QED BY <2>2, <3>1
  <2> QED BY <2>2, <2>3, <2>4
<1> HIDE DEF front, back
<1> DEFINE joined == front \o back
<1>4. /\ joined \in Seq(S) /\ Len(joined) = Len(front) + Len(back)
      /\ \A k \in 1..Len(front) + Len(back) :
           joined[k] = IF k <= Len(front) THEN front[k] ELSE back[k - Len(front)]
  BY <1>2, <1>3, ConcatProperties
<1> HIDE DEF joined
<1>5. Len(joined) = Len(s) - 1 /\ DOMAIN joined = 1..(Len(s) - 1)
  <2>1. Len(front) + Len(back) = Len(s) - 1
    BY <1>0, <1>2, <1>3
  <2> QED BY <1>4, <2>1, LenProperties
<1>6. ASSUME NEW k \in 1..(Len(s) - 1)
      PROVE  joined[k] = s[IF k < i THEN k ELSE k + 1]
  <2>0. k \in 1..Len(front) + Len(back)
    BY <1>0, <1>2, <1>3
  <2>1. CASE k < i
    <3>1. k \in 1..(i - 1) /\ k <= Len(front)
      BY <2>1, <1>0, <1>2
    <3>2. joined[k] = front[k]
      BY <2>0, <3>1, <1>4
    <3> QED BY <2>1, <3>1, <3>2, <1>2
  <2>2. CASE ~(k < i)
    <3>1. k - (i - 1) \in 1..(Len(s) - i) /\ i + (k - (i - 1)) = k + 1
      BY <2>2, <1>0
    <3>2. joined[k] = back[k - (i - 1)]
      BY <2>0, <2>2, <1>0, <1>2, <1>4
    <3> QED BY <2>2, <3>1, <3>2, <1>3
  <2> QED BY <2>1, <2>2
<1>7. RemoveAt(s, i) = joined
  BY DEF RemoveAt, front, back, joined
<1> QED BY <1>4, <1>5, <1>6, <1>7

(* What is held is in the buffer, in one of the flushes, or about to be     *)
(* appended.                                                                *)
LEMMA HeldMessages ==
  ASSUME ConsumerParts
  PROVE  /\ Held \subseteq Messages
         /\ \A m : m \in Held <=> \/ m \in ToSet(buffer) \/ m \in ToSet(flushing)
                                  \/ m \in ToSet(final)
                                  \/ \E i \in DOMAIN forced : m \in ToSet(forced[i].batch)
<1>1. \A m : m \in Held <=> \/ m \in ToSet(buffer) \/ m \in ToSet(flushing)
                            \/ m \in ToSet(final)
                            \/ \E i \in DOMAIN forced : m \in ToSet(forced[i].batch)
  BY DEF Held, Batches
<1>2. \A i \in DOMAIN forced : forced[i].batch \in Seq(Messages)
  <2>1. forced \in Seq(FlushTasks(session))
    BY DEF ConsumerParts
  <2>2. \A i \in DOMAIN forced : forced[i] \in FlushTasks(session)
    BY <2>1, ElementOfSeq, LenProperties
  <2> QED BY <2>2 DEF FlushTasks
<1>3. /\ ToSet(buffer) \subseteq Messages /\ ToSet(flushing) \subseteq Messages
      /\ ToSet(final) \subseteq Messages
      /\ \A i \in DOMAIN forced : ToSet(forced[i].batch) \subseteq Messages
  BY <1>2, MessagesOf DEF ConsumerParts
<1> QED BY <1>1, <1>3

(* The parts are what the type invariant says together.                     *)
LEMMA PartsGiveType == ConsumerParts => ConsumerTypeOK
<1> SUFFICES ASSUME ConsumerParts PROVE ConsumerTypeOK
  OBVIOUS
<1>1. Held \subseteq Messages /\ trained \subseteq Messages
  BY HeldMessages DEF ConsumerParts
<1> QED BY <1>1 DEF ConsumerParts, ConsumerTypeOK, Messages

-----------------------------------------------------------------------------
(* A flush takes the buffer and leaves it empty.                            *)
LEMMA BufferTaken ==
  ASSUME TakeBuffer
  PROVE  /\ buffer' = <<>> /\ total' = 0 /\ buffer' \in Seq(Messages) /\ ToSet(buffer') = {}
         /\ Len(buffer') = 0 /\ IsInjective(buffer')
BY EmptyBatch DEF TakeBuffer, Left

(* The forced flushes of a session are those of the next one too.           *)
LEMMA ForcedTasks ==
  ASSUME ConsumerParts
  PROVE  \A i \in DOMAIN forced : /\ forced[i].batch \in Seq(Messages)
                                  /\ forced[i].since \in 0..session
                                  /\ ToSet(forced[i].batch) \subseteq Messages
<1>1. forced \in Seq(FlushTasks(session))
  BY DEF ConsumerParts
<1>2. \A i \in DOMAIN forced : forced[i] \in FlushTasks(session)
  BY <1>1, ElementOfSeq, LenProperties
<1> QED BY <1>2, MessagesOf DEF FlushTasks

(* A callback that returns has taken messages or none.                      *)
LEMMA CallbackParts ==
  ASSUME ConsumerParts, NEW b \in Seq(Messages), CallbackReturns(b)
  PROVE  trained' \subseteq Messages
BY MessagesOf DEF CallbackReturns, ConsumerParts

(* Each step keeps the parts in range: start,                               *)
LEMMA StartParts == ConsumerParts /\ StopInv /\ StartConsumer => ConsumerParts'
<1> SUFFICES ASSUME ConsumerParts, StopInv, StartConsumer PROVE ConsumerParts'
  OBVIOUS
<1>1. forced' \in Seq(FlushTasks(session'))
  <2>1. FlushTasks(session)
          \subseteq FlushTasks(session')
    BY ConsumerBounds DEF ConsumerParts, StartConsumer, FlushTasks
  <2>2. forced' = forced /\ forced \in Seq(FlushTasks(session))
    BY DEF ConsumerParts, StartConsumer
  <2> QED BY <2>1, <2>2, SeqMonotonic
<1>2. flushing = <<>>
  BY DEF ConsumerParts, StopInv, StartConsumer
<1> QED BY <1>1, <1>2, ConsumerBounds DEF ConsumerParts, StartConsumer

(* the beginning of stop,                                                   *)
LEMMA StopParts == ConsumerParts /\ StopConsumer => ConsumerParts'
BY DEF ConsumerParts, StopConsumer, groupVars

(* the rest of stop,                                                        *)
LEMMA StoppingParts == ConsumerParts /\ Stopping => ConsumerParts'
<1> SUFFICES ASSUME ConsumerParts, Stopping PROVE ConsumerParts'
  OBVIOUS
<1>0. UNCHANGED <<session, active, groupVars, scheduled, forced, looping, flushing>>
  BY DEF Stopping
<1>1. CASE stopping = "loop"
  <2>1. /\ final' = buffer /\ buffer' = <<>> /\ buffer' \in Seq(Messages)
        /\ total' = Len(buffer') /\ total' = 0
        /\ recent' = (recent \/ buffer # <<>>) /\ UNCHANGED trained
    BY <1>1, BufferTaken DEF Stopping, Batch
  <2>2. /\ consuming' \in {consuming, "cancelled", "off"}
        /\ stopping' = IF buffer = <<>> THEN "task" ELSE "final"
    BY <1>1 DEF Stopping, CancelConsuming
  <2> QED BY <1>0, <2>1, <2>2, ConsumerBounds DEF ConsumerParts, groupVars
<1>2. CASE stopping = "final"
  <2>1. /\ trained' \subseteq Messages /\ final' = <<>> /\ stopping' = "task"
        /\ consuming' \in {"cancelled", "off"} /\ UNCHANGED <<buffer, total, recent>>
    BY <1>2, CallbackParts DEF ConsumerParts, Stopping, CancelConsuming
  <2> QED BY <1>0, <2>1, EmptyBatch DEF ConsumerParts, groupVars
<1>3. CASE stopping = "task"
  BY <1>3 DEF ConsumerParts, Stopping, groupVars
<1> QED BY <1>1, <1>2, <1>3 DEF Stopping

(* a crash,                                                                 *)
LEMMA CrashParts == ConsumerParts /\ Crash => ConsumerParts'
<1> SUFFICES ASSUME ConsumerParts, Crash PROVE ConsumerParts'
  OBVIOUS
<1>1. forced' \in Seq(FlushTasks(session'))
  BY EmptyBatch DEF Crash
<1>2. /\ buffer' \in Seq(Messages) /\ flushing' \in Seq(Messages) /\ final' \in Seq(Messages)
      /\ Len(buffer') = 0
  BY EmptyBatch DEF Crash
<1>3. total' = Len(buffer') /\ total' <= Backpressure
  BY <1>2, ConsumerBounds DEF Crash
<1>4. session' \in 0..Sessions /\ consumed' \in 0..(CommitEvery - 1) /\ scheduled' \in Nat
  BY ConsumerBounds DEF ConsumerParts, Crash
<1>5. trained' \subseteq Messages /\ position' \in 1..(LogEnd + 1) /\ committed' \in 1..(LogEnd + 1)
  BY DEF ConsumerParts, Crash
<1>6. flushing' = <<>> /\ final' = <<>> /\ looping' = "off" /\ stopping' = "no" /\ consuming' = "off"
   /\ active' = FALSE /\ recent' = FALSE
  BY DEF Crash
<1> QED BY <1>1, <1>2, <1>3, <1>4, <1>5, <1>6 DEF ConsumerParts

(* a message,                                                               *)
LEMMA ReceiveParts == ConsumerParts /\ Receive => ConsumerParts'
<1> SUFFICES ASSUME ConsumerParts, Receive PROVE ConsumerParts'
  OBVIOUS
<1>1. position \in Messages /\ position' \in 1..(LogEnd + 1)
  BY ConsumerBounds DEF ConsumerParts, Receive, Messages
<1>2. Append(buffer, position) \in Seq(Messages) /\ Len(Append(buffer, position)) = Len(buffer) + 1
  BY <1>1, Appended DEF ConsumerParts
<1>3. Len(buffer) \in Nat
  BY MessagesOf DEF ConsumerParts
<1>4. /\ buffer' \in Seq(Messages) /\ total' = Len(buffer') /\ total' <= Backpressure
      /\ scheduled' \in Nat
  BY <1>1, <1>2, <1>3, ConsumerBounds DEF ConsumerParts, Receive
<1> QED BY <1>1, <1>4 DEF ConsumerParts, Receive

(* what is done with it, and the commit,                                    *)
LEMMA ConsumptionParts ==
  ASSUME ConsumerParts,
         HandlerReturns \/ CommitReturns \/ PressureSleepEnds \/ PollRaises \/ ConsumeLoopEnds
  PROVE  ConsumerParts'
<1>1. ASSUME HandlerReturns PROVE ConsumerParts'
  <2>1. consumed' \in 0..(CommitEvery - 1)
    BY <1>1, ConsumerBounds DEF ConsumerParts, HandlerReturns
  <2> QED BY <1>1, <2>1 DEF ConsumerParts, HandlerReturns, flushVars
<1>2. ASSUME CommitReturns PROVE ConsumerParts'
  BY <1>2 DEF ConsumerParts, CommitReturns, CommitPoint, flushVars
<1>3. PressureSleepEnds \/ PollRaises \/ ConsumeLoopEnds => ConsumerParts'
  BY DEF ConsumerParts, PressureSleepEnds, PollRaises, ConsumeLoopEnds, groupVars, flushVars
<1> QED BY <1>1, <1>2, <1>3

(* the flush loop,                                                          *)
LEMMA LoopFlushParts ==
  ConsumerParts /\ (FlushLoopWakes \/ LoopCallbackReturns \/ FlushLoopEnds) => ConsumerParts'
<1> SUFFICES ASSUME ConsumerParts
             PROVE  FlushLoopWakes \/ LoopCallbackReturns \/ FlushLoopEnds => ConsumerParts'
  OBVIOUS
<1>1. ASSUME FlushLoopWakes PROVE ConsumerParts'
  <2>1. UNCHANGED <<looping, flushing, buffer, total>> => ConsumerParts'
    BY <1>1 DEF ConsumerParts, FlushLoopWakes, groupVars
  <2>2. CASE /\ looping' = IF buffer = <<>> THEN "sleeping" ELSE "flushing"
             /\ flushing' = Batch(buffer)
             /\ TakeBuffer
    <3>1. /\ buffer' \in Seq(Messages) /\ total' = Len(buffer') /\ total' <= Backpressure
          /\ flushing' = buffer /\ looping = "sleeping" /\ recent' = FALSE
      BY <1>1, <2>2, BufferTaken, ConsumerBounds DEF FlushLoopWakes, Batch
    <3>2. UNCHANGED <<session, active, consuming, groupVars, scheduled, forced, stopping, final,
                      trained>>
      BY <1>1 DEF FlushLoopWakes
    <3> QED BY <2>2, <3>1, <3>2 DEF ConsumerParts, groupVars
  <2> QED BY <1>1, <2>1, <2>2 DEF FlushLoopWakes
<1>2. ASSUME LoopCallbackReturns PROVE ConsumerParts'
  BY <1>2, CallbackParts, EmptyBatch
  DEF ConsumerParts, LoopCallbackReturns, groupVars
<1>3. FlushLoopEnds => ConsumerParts'
  BY EmptyBatch DEF ConsumerParts, FlushLoopEnds, groupVars
<1> QED BY <1>1, <1>2, <1>3

(* a forced flush,                                                          *)
LEMMA ForcedFlushParts == ConsumerParts /\ ForcedFlush => ConsumerParts'
<1> SUFFICES ASSUME ConsumerParts, ForcedFlush PROVE ConsumerParts'
  OBVIOUS
<1>1. [since |-> session, batch |-> Batch(buffer)] \in FlushTasks(session)
  BY DEF ConsumerParts, Batch, FlushTasks
<1>2. forced' \in Seq(FlushTasks(session))
  BY <1>1, AppendProperties DEF ConsumerParts, ForcedFlush
<1> QED BY <1>2, BufferTaken, ConsumerBounds, EmptyBatch
        DEF ConsumerParts, ForcedFlush, groupVars

(* and its return.                                                          *)
LEMMA ForcedReturnParts == ConsumerParts /\ ForcedCallbackReturns => ConsumerParts'
<1> SUFFICES ASSUME ConsumerParts, ForcedCallbackReturns PROVE ConsumerParts'
  OBVIOUS
<1>1. PICK i \in DOMAIN forced :
        /\ forced' = RemoveAt(forced, i)
        /\ CallbackReturns(forced[i].batch)
        /\ UNCHANGED <<session, active, consuming, groupVars, buffer, total, scheduled, looping,
                       flushing, recent, stopping, final>>
  BY DEF ForcedCallbackReturns
<1>2. forced' \in Seq(FlushTasks(session))
  BY <1>1, Removed DEF ConsumerParts
<1>3. trained' \subseteq Messages
  BY <1>1, ForcedTasks, CallbackParts
<1> QED BY <1>1, <1>2, <1>3 DEF ConsumerParts, groupVars

(* So each step keeps them.                                                 *)
LEMMA ConsumerPartsStep ==
  ConsumerParts /\ StopInv /\ [ConsumerNext]_consumerVars => ConsumerParts'
<1>1. ConsumerParts /\ UNCHANGED consumerVars => ConsumerParts'
  BY DEF ConsumerParts, consumerVars
<1> QED BY <1>1, StartParts, StopParts, StoppingParts, CrashParts, ReceiveParts,
           ConsumptionParts, LoopFlushParts, ForcedFlushParts, ForcedReturnParts
        DEF ConsumerNext, Consumption, Flushes

-----------------------------------------------------------------------------
(* Stopping. *)
LEMMA StopStepInv == ConsumerParts /\ StopInv /\ [ConsumerNext]_consumerVars => StopInv'
<1> SUFFICES ASSUME ConsumerParts, StopInv, [ConsumerNext]_consumerVars PROVE StopInv'
  OBVIOUS
<1>1. StartConsumer => StopInv'
  BY DEF StopInv, StartConsumer
<1>2. StopConsumer => StopInv'
  BY DEF StopInv, StopConsumer
<1>3. ASSUME Stopping PROVE StopInv'
  BY <1>3, BufferTaken DEF ConsumerParts, StopInv, Stopping, CancelConsuming
<1>4. Crash => StopInv'
  BY DEF StopInv, Crash
<1>5. Receive => StopInv'
  BY DEF ConsumerParts, StopInv, Receive, GivesUp
<1>6. HandlerReturns => StopInv'
  BY DEF StopInv, HandlerReturns, flushVars
<1>7. CommitReturns => StopInv'
  BY DEF StopInv, CommitReturns, flushVars
<1>8. PressureSleepEnds \/ PollRaises \/ ConsumeLoopEnds => StopInv'
  BY DEF StopInv, PressureSleepEnds, PollRaises, ConsumeLoopEnds, flushVars
<1>9. ASSUME FlushLoopWakes PROVE StopInv'
  BY <1>9, BufferTaken DEF ConsumerParts, StopInv, FlushLoopWakes
<1>10. LoopCallbackReturns \/ FlushLoopEnds => StopInv'
  BY DEF ConsumerParts, StopInv, LoopCallbackReturns, FlushLoopEnds
<1>11. ASSUME ForcedFlush PROVE StopInv'
  BY <1>11, BufferTaken DEF StopInv, ForcedFlush
<1>12. ForcedCallbackReturns => StopInv'
  BY DEF StopInv, ForcedCallbackReturns
<1>13. UNCHANGED consumerVars => StopInv'
  BY DEF StopInv, consumerVars
<1> QED BY <1>1, <1>2, <1>3, <1>4, <1>5, <1>6, <1>7, <1>8, <1>9, <1>10, <1>11, <1>12, <1>13
        DEF ConsumerNext, Consumption, Flushes

-----------------------------------------------------------------------------
(* Every message is in one place. *)
Disjoint(s, t) == ToSet(s) \cap ToSet(t) = {}
Older(s) == \A m \in ToSet(s) : m < position

(* A sequence holds messages once each, which were handed out before, and   *)
(* none that a forced flush of this session has.                           *)
Clean(s) == IsInjective(s) /\ Older(s) /\ \A i \in OwnBatches : Disjoint(s, forced[i].batch)

BatchesClean ==
  \A i, j \in DOMAIN forced :
    /\ IsInjective(forced[i].batch)
    /\ i # j /\ forced[i].since = forced[j].since => Disjoint(forced[i].batch, forced[j].batch)
OwnOlder == \A i \in OwnBatches : Older(forced[i].batch)

OlderNext(s) == \A m \in ToSet(s) : m < position'
CleanNext(s) ==
  IsInjective(s) /\ OlderNext(s) /\ \A i \in OwnBatches' : Disjoint(s, forced'[i].batch)

(* What is read once, in the terms above.                                   *)
LEMMA ReadInvIs ==
  ReadInv <=> /\ Clean(buffer) /\ Clean(flushing) /\ Clean(final)
              /\ Disjoint(buffer, flushing) /\ Disjoint(buffer, final) /\ Disjoint(flushing, final)
              /\ BatchesClean /\ OwnOlder
BY DEF ReadInv, FlushedOnce, OwnBatches, OwnOlder, Clean, Older, Disjoint, BatchesClean

(* The same after a step.                                                   *)
LEMMA ReadInvIsNext ==
  ReadInv' <=> /\ CleanNext(buffer') /\ CleanNext(flushing') /\ CleanNext(final')
               /\ Disjoint(buffer', flushing') /\ Disjoint(buffer', final')
               /\ Disjoint(flushing', final')
               /\ BatchesClean' /\ OwnOlder'
BY DEF ReadInv, FlushedOnce, OwnBatches, OwnOlder, CleanNext, OlderNext, Older, Disjoint,
       BatchesClean

(* Two batches without a common message.                                    *)
LEMMA DisjointIs ==
  /\ \A s : Disjoint(<<>>, s) /\ Disjoint(s, <<>>)
  /\ \A s, t : Disjoint(s, t) => Disjoint(t, s)
  /\ CleanNext(<<>>)
BY EmptyBatch DEF CleanNext, OlderNext, Disjoint

(* What is in the callbacks and what was handed out is as it was.           *)
LEMMA CleanStays ==
  ASSUME UNCHANGED <<session, forced, position>>
  PROVE  /\ \A s : Clean(s) => CleanNext(s)
         /\ BatchesClean => BatchesClean'
         /\ OwnOlder => OwnOlder'
BY DEF Clean, CleanNext, Older, OlderNext, OwnBatches, OwnOlder, BatchesClean

(* When the process or the session starts anew, no batch is of this one.    *)
LEMMA CleanStart ==
  ASSUME OwnBatches' = {}, buffer' = <<>>, flushing' = <<>>, final' = <<>>, BatchesClean'
  PROVE  ReadInv'
<1>1. OwnOlder'
  BY DEF OwnOlder
<1> QED BY <1>1, DisjointIs, ReadInvIsNext

(* A message is read after all the others.                                  *)
LEMMA ReceiveRead == ConsumerParts /\ ReadInv /\ Receive => ReadInv'
<1> SUFFICES ASSUME ConsumerParts, ReadInv, Receive PROVE ReadInv'
  OBVIOUS
<1>1. /\ UNCHANGED <<session, forced, flushing, final>> /\ position' = position + 1
      /\ buffer' \in {buffer, Append(buffer, position)}
  BY DEF Receive
<1>2. position \in Messages /\ position \in Nat
  BY ConsumerBounds DEF ConsumerParts, Receive, Messages
<1>3. \A m \in Messages : m < position => m < position'
  BY <1>1, <1>2, ConsumerBounds DEF Messages
<1>4. /\ ToSet(buffer) \subseteq Messages /\ ToSet(flushing) \subseteq Messages
      /\ ToSet(final) \subseteq Messages
      /\ \A i \in OwnBatches : ToSet(forced[i].batch) \subseteq Messages
  BY MessagesOf, ForcedTasks DEF ConsumerParts, OwnBatches
<1>5. OwnBatches' = OwnBatches
  BY <1>1 DEF OwnBatches
<1>6. CleanNext(buffer) /\ CleanNext(flushing) /\ CleanNext(final)
  BY <1>1, <1>3, <1>4, <1>5, ReadInvIs DEF Clean, CleanNext, Older, OlderNext
<1>7. BatchesClean' /\ OwnOlder'
  BY <1>1, <1>3, <1>4, <1>5, ReadInvIs DEF BatchesClean, OwnOlder, Older
<1>8. CASE buffer' = buffer
  BY <1>1, <1>6, <1>7, <1>8, ReadInvIs, ReadInvIsNext
<1>9. CASE buffer' = Append(buffer, position)
  <2>1. \A s : Older(s) => position \notin ToSet(s)
    BY <1>2 DEF Older
  <2>2. /\ ToSet(buffer') = ToSet(buffer) \cup {position}
        /\ position \notin ToSet(buffer) => (IsInjective(buffer) => IsInjective(buffer'))
    BY <1>2, <1>9, Appended DEF ConsumerParts
  <2>3. IsInjective(buffer')
    BY <2>1, <2>2, ReadInvIs DEF Clean
  <2>4. OlderNext(buffer')
    BY <1>1, <1>2, <1>6, <2>2 DEF CleanNext, OlderNext
  <2>5. \A s : Older(s) /\ Disjoint(buffer, s) => Disjoint(buffer', s)
    BY <2>1, <2>2 DEF Disjoint
  <2>6. CleanNext(buffer')
    BY <1>1, <1>5, <2>3, <2>4, <2>5, ReadInvIs DEF CleanNext, Clean, OwnOlder
  <2>7. Disjoint(buffer', flushing) /\ Disjoint(buffer', final)
    BY <2>5, ReadInvIs DEF Clean
  <2> QED BY <1>1, <1>6, <1>7, <2>6, <2>7, ReadInvIs, ReadInvIsNext
<1> QED BY <1>1, <1>8, <1>9

(* A forced flush takes the whole buffer.                                   *)
LEMMA ForcedFlushRead == ConsumerParts /\ ReadInv /\ ForcedFlush => ReadInv'
<1> SUFFICES ASSUME ConsumerParts, ReadInv, ForcedFlush PROVE ReadInv'
  OBVIOUS
<1>1. UNCHANGED <<session, position, flushing, final>> /\ buffer' = <<>>
  BY BufferTaken DEF ForcedFlush, groupVars
<1>2. CASE buffer = <<>>
  <2>1. forced' = forced
    BY <1>2 DEF ForcedFlush
  <2> QED BY <1>1, <2>1, CleanStays, DisjointIs, ReadInvIs, ReadInvIsNext
<1>3. CASE buffer # <<>>
  <2> DEFINE new == [since |-> session, batch |-> buffer]
             last == Len(forced) + 1
  <2>1. forced' = Append(forced, new) /\ new \in FlushTasks(session)
    BY <1>3 DEF ForcedFlush, Batch, FlushTasks, ConsumerParts
  <2>2. forced \in Seq(FlushTasks(session))
    BY DEF ConsumerParts
  <2>3. /\ DOMAIN forced = 1..Len(forced) /\ DOMAIN forced' = 1..last
        /\ Len(forced) \in Nat
        /\ \A i \in DOMAIN forced : forced'[i] = forced[i]
        /\ forced'[last] = new
    BY <2>1, <2>2, AppendProperties, LenProperties
  <2>4. last \notin DOMAIN forced /\ DOMAIN forced' = DOMAIN forced \cup {last}
    BY <2>3
  <2>5. forced'[last].since = session' /\ forced'[last].batch = buffer
    BY <1>1, <2>3
  <2> HIDE DEF new, last
  <2>6. /\ OwnBatches' = OwnBatches \cup {last} /\ last \notin OwnBatches
        /\ \A i \in OwnBatches : forced'[i].batch = forced[i].batch
    BY <1>1, <2>3, <2>4, <2>5 DEF OwnBatches
  <2>7. BatchesClean'
    <3> SUFFICES ASSUME NEW i \in DOMAIN forced', NEW j \in DOMAIN forced'
                 PROVE  /\ IsInjective(forced'[i].batch)
                        /\ i # j /\ forced'[i].since = forced'[j].since
                             => Disjoint(forced'[i].batch, forced'[j].batch)
      BY DEF BatchesClean
    <3>0. Clean(buffer) /\ BatchesClean
      BY ReadInvIs
    <3>1. CASE i = last
      BY <1>1, <2>3, <2>4, <2>5, <3>0, <3>1 DEF Clean, OwnBatches
    <3>2. CASE i # last /\ j # last
      BY <2>3, <2>4, <3>0, <3>2 DEF BatchesClean
    <3>3. CASE i # last /\ j = last
      BY <1>1, <2>3, <2>4, <2>5, <3>0, <3>3, DisjointIs DEF BatchesClean, Clean, OwnBatches
    <3> QED BY <3>1, <3>2, <3>3
  <2>9. OwnOlder'
    BY <1>1, <2>5, <2>6, ReadInvIs DEF OwnOlder, Clean, Older
  <2>8. \A s : Clean(s) /\ Disjoint(s, buffer) => CleanNext(s)
    BY <1>1, <2>5, <2>6 DEF Clean, CleanNext, Older, OlderNext
  <2> QED BY <1>1, <2>7, <2>8, <2>9, DisjointIs, ReadInvIs, ReadInvIsNext
<1> QED BY <1>2, <1>3

(* A forced flush that returns leaves the others.                           *)
LEMMA ForcedReturnRead == ConsumerParts /\ ReadInv /\ ForcedCallbackReturns => ReadInv'
<1> SUFFICES ASSUME ConsumerParts, ReadInv, ForcedCallbackReturns PROVE ReadInv'
  OBVIOUS
<1>1. PICK gone \in DOMAIN forced :
        /\ forced' = RemoveAt(forced, gone)
        /\ UNCHANGED <<session, position, buffer, flushing, final>>
  BY DEF ForcedCallbackReturns, groupVars
<1>2. forced \in Seq(FlushTasks(session)) /\ DOMAIN forced = 1..Len(forced) /\ Len(forced) \in Nat
  BY LenProperties DEF ConsumerParts
<1> DEFINE was(k) == IF k < gone THEN k ELSE k + 1
<1>3. DOMAIN forced' = 1..(Len(forced) - 1) /\ \A k \in DOMAIN forced' : forced'[k] = forced[was(k)]
  BY <1>1, <1>2, Removed
<1>4. \A k \in DOMAIN forced' : was(k) \in DOMAIN forced
  BY <1>1, <1>2, <1>3
<1>5. \A k, l \in DOMAIN forced' : k # l => was(k) # was(l)
  BY <1>1, <1>2, <1>3
<1> HIDE DEF was
<1>6. \A k \in OwnBatches' : /\ k \in DOMAIN forced' /\ was(k) \in OwnBatches
                             /\ forced'[k].batch = forced[was(k)].batch
  BY <1>1, <1>3, <1>4 DEF OwnBatches
<1>7. BatchesClean' /\ OwnOlder'
  <2>1. BatchesClean'
    <3> SUFFICES ASSUME NEW i \in DOMAIN forced', NEW j \in DOMAIN forced'
                 PROVE  /\ IsInjective(forced'[i].batch)
                        /\ i # j /\ forced'[i].since = forced'[j].since
                             => Disjoint(forced'[i].batch, forced'[j].batch)
      BY DEF BatchesClean
    <3> QED BY <1>3, <1>4, <1>5, ReadInvIs DEF BatchesClean
  <2>2. OwnOlder'
    BY <1>1, <1>6, ReadInvIs DEF OwnOlder, Older
  <2> QED BY <2>1, <2>2
<1>8. \A s : Clean(s) => CleanNext(s)
  BY <1>1, <1>6 DEF Clean, CleanNext, Older, OlderNext
<1> QED BY <1>1, <1>7, <1>8, ReadInvIs, ReadInvIsNext

(* Each step keeps what is read once.                                       *)
LEMMA ReadStepInv ==
  ConsumerParts /\ StopInv /\ ReadInv /\ [ConsumerNext]_consumerVars => ReadInv'
<1> SUFFICES ASSUME ConsumerParts, StopInv, ReadInv, [ConsumerNext]_consumerVars PROVE ReadInv'
  OBVIOUS
<1>1. ASSUME StartConsumer PROVE ReadInv'
  <2>1. session' = session + 1 /\ UNCHANGED <<buffer, flushing, final, forced>>
    BY <1>1 DEF StartConsumer
  <2>2. \A i \in DOMAIN forced : forced[i].since # session + 1
    BY ForcedTasks, ConsumerBounds DEF ConsumerParts
  <2>3. OwnBatches' = {}
    BY <2>1, <2>2 DEF OwnBatches
  <2>4. buffer = <<>> /\ flushing = <<>> /\ final = <<>>
    BY <1>1 DEF ConsumerParts, StopInv, StartConsumer
  <2>5. BatchesClean'
    BY <2>1, ReadInvIs DEF BatchesClean
  <2> QED BY <2>1, <2>3, <2>4, <2>5, CleanStart
<1>2. ASSUME StopConsumer PROVE ReadInv'
  BY <1>2, CleanStays, ReadInvIs, ReadInvIsNext DEF StopConsumer, groupVars
<1>3. ASSUME Stopping PROVE ReadInv'
  <2>0. UNCHANGED <<session, forced, position, flushing>>
    BY <1>3 DEF Stopping, groupVars
  <2>1. CASE stopping = "loop"
    <3>1. final' = buffer /\ buffer' = <<>>
      BY <1>3, <2>1, BufferTaken DEF Stopping, Batch
    <3> QED BY <2>0, <3>1, CleanStays, DisjointIs, ReadInvIs, ReadInvIsNext
  <2>2. CASE stopping = "final"
    <3>1. final' = <<>> /\ buffer' = buffer
      BY <1>3, <2>2 DEF Stopping
    <3> QED BY <2>0, <3>1, CleanStays, DisjointIs, ReadInvIs, ReadInvIsNext
  <2>3. CASE stopping = "task"
    BY <1>3, <2>0, <2>3, CleanStays, ReadInvIs, ReadInvIsNext DEF Stopping
  <2> QED BY <1>3, <2>1, <2>2, <2>3 DEF Stopping
<1>4. ASSUME Crash PROVE ReadInv'
  <2>1. OwnBatches' = {} /\ BatchesClean'
    BY <1>4 DEF Crash, OwnBatches, BatchesClean
  <2> QED BY <1>4, <2>1, CleanStart DEF Crash
<1>5. ASSUME \/ HandlerReturns \/ CommitReturns \/ PressureSleepEnds
             \/ PollRaises \/ ConsumeLoopEnds \/ UNCHANGED consumerVars
      PROVE  ReadInv'
  BY <1>5, CleanStays, ReadInvIs, ReadInvIsNext
  DEF HandlerReturns, CommitReturns, PressureSleepEnds, PollRaises, ConsumeLoopEnds, groupVars,
      flushVars, consumerVars
<1>6. ASSUME FlushLoopWakes PROVE ReadInv'
  <2>1. UNCHANGED <<session, forced, position, final>>
    BY <1>6 DEF FlushLoopWakes, groupVars
  <2>2. UNCHANGED <<flushing, buffer>> \/ (flushing' = buffer /\ buffer' = <<>>)
    BY <1>6, BufferTaken DEF FlushLoopWakes, Batch
  <2> QED BY <2>1, <2>2, CleanStays, DisjointIs, ReadInvIs, ReadInvIsNext
<1>7. ASSUME LoopCallbackReturns \/ FlushLoopEnds PROVE ReadInv'
  <2>1. UNCHANGED <<session, forced, position, final, buffer>> /\ flushing' = <<>>
    BY <1>7 DEF LoopCallbackReturns, FlushLoopEnds, groupVars
  <2> QED BY <2>1, CleanStays, DisjointIs, ReadInvIs, ReadInvIsNext
<1> QED BY <1>1, <1>2, <1>3, <1>4, <1>5, <1>6, <1>7, ReceiveRead, ForcedFlushRead,
           ForcedReturnRead
        DEF ConsumerNext, Consumption, Flushes

-----------------------------------------------------------------------------
(* The consumer starts with its invariant.                                  *)
LEMMA ConsumerInitInv == ConsumerInit => ConsumerInv
<1> SUFFICES ASSUME ConsumerInit PROVE ConsumerInv
  OBVIOUS
<1>1. ConsumerParts
  <2>1. /\ buffer \in Seq(Messages) /\ flushing \in Seq(Messages) /\ final \in Seq(Messages)
        /\ forced \in Seq(FlushTasks(session)) /\ total = Len(buffer)
    BY EmptyBatch DEF ConsumerInit
  <2>2. session \in 0..Sessions /\ consumed \in 0..(CommitEvery - 1) /\ scheduled \in Nat
    BY ConsumerBounds DEF ConsumerInit
  <2>3. position \in 1..(LogEnd + 1) /\ committed \in 1..(LogEnd + 1) /\ total <= Backpressure
    BY ConsumerBounds DEF ConsumerInit
  <2>4. /\ flushing = <<>> /\ final = <<>> /\ looping = "off" /\ stopping = "no"
        /\ consuming = "off" /\ active = FALSE /\ recent = FALSE /\ trained = {}
    BY DEF ConsumerInit
  <2> QED BY <2>1, <2>2, <2>3, <2>4 DEF ConsumerParts
<1>2. StopInv
  BY DEF ConsumerInit, StopInv
<1>3. OwnBatches = {}
  BY DEF ConsumerInit, OwnBatches
<1>4. ReadInv
  BY <1>3, EmptyBatch, ReadInvIs
  DEF ConsumerInit, Clean, Older, OwnOlder, Disjoint, BatchesClean
<1> QED BY <1>1, <1>2, <1>4 DEF ConsumerInv

(* Each step keeps it.                                                      *)
LEMMA ConsumerStepInv == ConsumerInv /\ [ConsumerNext]_consumerVars => ConsumerInv'
BY ConsumerPartsStep, StopStepInv, ReadStepInv DEF ConsumerInv

(* What the invariant says for the properties.                              *)
LEMMA ConsumerGives ==
  ConsumerInv => ConsumerTypeOK /\ FlushedOnce /\ StoppedLeavesNothing
<1> SUFFICES ASSUME ConsumerInv PROVE ConsumerTypeOK /\ FlushedOnce /\ StoppedLeavesNothing
  OBVIOUS
<1>1. ConsumerTypeOK
  BY PartsGiveType DEF ConsumerInv
<1>2. FlushedOnce
  BY DEF ConsumerInv, ReadInv
<1>3. StoppedLeavesNothing
  BY DEF ConsumerInv, StopInv, StoppedLeavesNothing
<1> QED BY <1>1, <1>2, <1>3

(* The invariant of the consumer.                                           *)
LEMMA ConsumerInvariant == ConsumerSpec => []ConsumerInv
<1> QED BY ConsumerInitInv, ConsumerStepInv, PTL DEF ConsumerSpec

(* The consumer is always in range, and counts the messages of its buffer,  *)
(* which never exceeds the bound at which it stops reading.                 *)
THEOREM ConsumerTypeCorrect == ConsumerSpec => []ConsumerTypeOK
<1> QED BY ConsumerInvariant, ConsumerGives, PTL

(* No message is in two batches of one session at once, nor twice in one:   *)
(* whatever the flush loop, the forced flushes and stop do at the same      *)
(* time, none takes a message that another of that session has.  Sessions   *)
(* share messages: the next one reads again what was not committed.         *)
THEOREM ConsumerFlushesOnce == ConsumerSpec => []FlushedOnce
<1> QED BY ConsumerInvariant, ConsumerGives, PTL

(* When stop has come to its end, nothing is left in the buffer, whether    *)
(* the consume loop was cancelled, gave up by itself or had ended long      *)
(* before because reading from Kafka raised.                                *)
THEOREM StopLeavesNothing == ConsumerSpec => []StoppedLeavesNothing
<1> QED BY ConsumerInvariant, ConsumerGives, PTL

-----------------------------------------------------------------------------
(* The queue of training jobs.                                              *)

JobStates == {"absent", "queued", "running", "completed", "failed", "cancelled"}

(* What the constants of the queue are.                                     *)
LEMMA QueueBounds ==
  /\ Jobs \in Seq(JobSet) /\ DOMAIN Jobs = 1..Len(Jobs) /\ Len(Jobs) \in Nat
  /\ JobSet = {Jobs[i] : i \in DOMAIN Jobs}
  /\ \A i, j \in DOMAIN Jobs : Jobs[i] = Jobs[j] => i = j
  /\ Gpus \in Seq(GpuSet) /\ GpuSet = {Gpus[k] : k \in DOMAIN Gpus} /\ NoGpu \notin GpuSet
  /\ DOMAIN Gpus = 1..Len(Gpus) /\ Len(Gpus) \in Nat
  /\ Room \in Nat /\ MaxPerGpu \in Nat /\ MaxPerGpu > 0
BY JobsAssumption, LenProperties DEF JobSet, GpuSet, ToSet, IsInjective

(* There are finitely many jobs.                                            *)
LEMMA JobsFinite == IsFiniteSet(JobSet)
<1>1. IsFiniteSet(DOMAIN Jobs)
  BY QueueBounds, FS_Interval
<1> DEFINE f == [i \in DOMAIN Jobs |-> Jobs[i]]
<1>2. f \in Surjection(DOMAIN Jobs, JobSet)
  BY QueueBounds DEF Surjection
<1> QED BY <1>1, <1>2, FS_Surjection

(* Where the scheduling of the queue has come to after k jobs. *)
PlacesOK(places, turns, k) ==
  /\ places \in [GpuSet -> SUBSET JobSet]
  /\ \A g \in GpuSet : assigned[g] \subseteq places[g] /\ Cardinality(places[g]) <= MaxPerGpu
  /\ \A g \in GpuSet : \A j \in places[g] \ assigned[g] : \E a \in 1..k : j = Jobs[turns[a]]
  /\ \A g, h \in GpuSet : g # h => (places[g] \ assigned[g]) \cap (places[h] \ assigned[h]) = {}

QueueInv == QueueTypeOK /\ AssignmentsMatchJobs /\ assigned \in [GpuSet -> SUBSET JobSet]

(* A place for one more job: on one device that has a slot, or nowhere. *)
LEMMA PlaceOne ==
  ASSUME NEW places, NEW i
  PROVE  \/ Place(places, i) = places
         \/ \E g \in GpuSet : HasSlot(places[g])
                              /\ Place(places, i) = [places EXCEPT ![g] = @ \cup {Jobs[i]}]
<1> DEFINE takes == {k \in DOMAIN Gpus : /\ Usable(health'[Gpus[k]])
                                         /\ HasSlot(places[Gpus[k]])
                                         /\ room'[Gpus[k]] >= Needs[Jobs[i]]}
<1>1. CASE takes = {}
  BY <1>1 DEF Place
<1>2. CASE takes # {}
  <2> DEFINE first == CHOOSE k \in takes : \A l \in takes : k <= l
  <2>1. takes \in SUBSET Nat
    BY QueueBounds
  <2>2. \E m \in takes : \A l \in takes : m <= l
    BY <1>2, <2>1, LeastNatural
  <2>3. first \in takes
    BY <2>2
  <2>5. Place(places, i) = [places EXCEPT ![Gpus[first]] = @ \cup {Jobs[i]}]
    BY <1>2 DEF Place
  <2>6. first \in DOMAIN Gpus /\ HasSlot(places[Gpus[first]])
    BY <2>3
  <2> HIDE DEF first
  <2>7. Gpus[first] \in GpuSet
    BY <2>6, QueueBounds
  <2> HIDE DEF takes
  <2> QED BY <2>5, <2>6, <2>7
<1> QED BY <1>1, <1>2

(* A job that finds its place leaves the others where they are.             *)
LEMMA PlaceKeeps ==
  ASSUME QueueInv, NEW places, NEW turns, NEW k \in Nat, PlacesOK(places, turns, k),
         turns[k + 1] \in Waiting,
         \A a \in 1..k : turns[a] \in Waiting /\ turns[a] # turns[k + 1]
  PROVE  PlacesOK(Place(places, turns[k + 1]), turns, k + 1)
<1> DEFINE i == turns[k + 1]
           j == Jobs[i]
<1>1. j \in JobSet /\ jobStatus[j] = "queued" /\ i \in DOMAIN Jobs
  BY QueueBounds DEF Waiting
<1>2. \A a \in 1..k : Jobs[turns[a]] # j
  BY <1>1, QueueBounds DEF Waiting
<1>3. \A g \in GpuSet : j \notin assigned[g]
  BY <1>1 DEF QueueInv, AssignmentsMatchJobs
<1>4. \A g \in GpuSet : j \notin places[g]
  BY <1>2, <1>3 DEF PlacesOK
<1>5. \A a \in 1..k : a \in 1..(k + 1)
  OBVIOUS
<1>6. CASE Place(places, i) = places
  BY <1>5, <1>6 DEF PlacesOK
<1>7. ASSUME NEW g \in GpuSet, HasSlot(places[g]),
             Place(places, i) = [places EXCEPT ![g] = @ \cup {j}]
      PROVE  PlacesOK(Place(places, i), turns, k + 1)
  <2> DEFINE new == Place(places, i)
  <2>1. /\ new \in [GpuSet -> SUBSET JobSet]
        /\ new[g] = places[g] \cup {j}
        /\ \A h \in GpuSet : h # g => new[h] = places[h]
    BY <1>1, <1>7 DEF PlacesOK
  <2> HIDE DEF new, i
  <2>2. Cardinality(new[g]) <= MaxPerGpu
    <3>1. IsFiniteSet(places[g])
      BY JobsFinite, FS_Subset DEF PlacesOK
    <3>2. Cardinality(places[g]) \in Nat /\ Cardinality(new[g]) = Cardinality(places[g]) + 1
      BY <1>4, <2>1, <3>1, FS_AddElement, FS_CardinalityType
    <3> QED BY <1>7, <3>2, QueueBounds DEF HasSlot
  <2>3. \A h \in GpuSet : assigned[h] \subseteq new[h] /\ Cardinality(new[h]) <= MaxPerGpu
    BY <2>1, <2>2 DEF PlacesOK
  <2>4. ASSUME NEW h \in GpuSet, NEW l \in new[h] \ assigned[h]
        PROVE  \E a \in 1..(k + 1) : l = Jobs[turns[a]]
    <3>1. CASE l \in places[h]
      BY <1>5, <2>4, <3>1 DEF PlacesOK
    <3>2. CASE l \notin places[h]
      BY <2>1, <2>4, <3>2 DEF i
    <3> QED BY <3>1, <3>2
  <2>5. \A h, l \in GpuSet : h # l => (new[h] \ assigned[h]) \cap (new[l] \ assigned[l]) = {}
    BY <1>4, <2>1 DEF PlacesOK
  <2>6. PlacesOK(new, turns, k + 1)
    BY <2>1, <2>3, <2>4, <2>5 DEF PlacesOK
  <2> QED BY <2>6 DEF new
<1> QED BY <1>6, <1>7, PlaceOne

(* The places after each job in turn, which exist and are what they say.    *)
LEMMA PlacesExist ==
  ASSUME NEW turns, NEW n \in Nat
  PROVE  LET places[k \in 0..n] ==
               IF k = 0 THEN assigned ELSE Place(places[k - 1], turns[k])
         IN /\ places[0] = assigned
            /\ \A k \in 1..n : places[k] = Place(places[k - 1], turns[k])
<1> DEFINE Walk(f, m) ==
             f = [k \in 0..m |-> IF k = 0 THEN assigned ELSE Place(f[k - 1], turns[k])]
           Missing == {m \in Nat : ~ \E f : Walk(f, m)}
<1>1. \E f : Walk(f, 0)
  <2> DEFINE f == [k \in 0..0 |-> assigned]
  <2>1. f = [k \in 0..0 |-> IF k = 0 THEN assigned ELSE Place(f[k - 1], turns[k])]
    <3>1. \A k \in 0..0 : k = 0
      OBVIOUS
    <3> HIDE DEF Place
    <3> QED BY <3>1
  <2> QED BY <2>1
<1>2. ASSUME NEW m \in Nat, \E f : Walk(f, m)
      PROVE  \E f : Walk(f, m + 1)
  <2>1. PICK f : Walk(f, m)
    BY <1>2
  <2> DEFINE g == [k \in 0..(m + 1) |-> IF k = m + 1 THEN Place(f[m], turns[m + 1]) ELSE f[k]]
  <2>2. \A k \in 0..m : k \in 0..(m + 1) /\ k # m + 1 /\ g[k] = f[k]
    OBVIOUS
  <2>3. ASSUME NEW k \in 0..(m + 1)
        PROVE  g[k] = IF k = 0 THEN assigned ELSE Place(g[k - 1], turns[k])
    <3>1. CASE k = 0
      <4>1. f[0] = assigned /\ g[0] = f[0]
        BY <2>1, <2>2
      <4> QED BY <3>1, <4>1
    <3>2. CASE k = m + 1
      <4>1. g[k] = Place(f[m], turns[m + 1]) /\ g[m] = f[m] /\ k - 1 = m /\ k # 0
        BY <2>2, <3>2
      <4> HIDE DEF g
      <4> QED BY <3>2, <4>1
    <3>3. CASE k # 0 /\ k # m + 1
      <4>1. k \in 0..m /\ k - 1 \in 0..m
        BY <3>3
      <4>2. f[k] = Place(f[k - 1], turns[k])
        <5> HIDE DEF g
        <5> QED BY <2>1, <3>3, <4>1
      <4>3. g[k] = f[k] /\ g[k - 1] = f[k - 1]
        BY <2>2, <4>1
      <4> HIDE DEF g
      <4> QED BY <3>3, <4>2, <4>3
    <3> QED BY <3>1, <3>2, <3>3
  <2>4. g = [k \in 0..(m + 1) |-> IF k = 0 THEN assigned ELSE Place(g[k - 1], turns[k])]
    <3>1. g = [k \in 0..(m + 1) |-> g[k]]
      OBVIOUS
    <3> HIDE DEF g
    <3> QED BY <2>3, <3>1
  <2> HIDE DEF g
  <2> QED BY <2>4
<1>3. Missing = {}
  <2> SUFFICES ASSUME Missing # {} PROVE FALSE
    OBVIOUS
  <2>1. PICK m \in Missing : \A l \in Missing : m <= l
    <3>1. Missing \in SUBSET Nat
      OBVIOUS
    <3> HIDE DEF Missing
    <3> QED BY <3>1, LeastNatural
  <2> HIDE DEF Walk
  <2>2. m \in Nat /\ m # 0
    BY <1>1
  <2>3. m - 1 \in Nat /\ (m - 1) + 1 = m /\ ~(m <= m - 1)
    BY <2>2
  <2>4. m - 1 \notin Missing
    BY <2>1, <2>3
  <2>5. \E f : Walk(f, m)
    BY <1>2, <2>3, <2>4
  <2> QED BY <2>5
<1>4. \E f : Walk(f, n)
  BY <1>3
<1> DEFINE places[k \in 0..n] == IF k = 0 THEN assigned ELSE Place(places[k - 1], turns[k])
<1>5. places = CHOOSE f : Walk(f, n)
  OBVIOUS
<1>6. Walk(places, n)
  <2> HIDE DEF places, Walk
  <2> QED BY <1>4, <1>5
<1>7. places[0] = assigned /\ \A k \in 1..n : places[k] = Place(places[k - 1], turns[k])
  <2> HIDE DEF places
  <2> QED BY <1>6
<1> QED BY <1>7

(* The turns are a sequence of the jobs that wait, each once.               *)
LEMMA TurnsAre ==
  ASSUME NEW turns \in QueueOrders
  PROVE  /\ Len(turns) \in Nat
         /\ \A a \in 1..Len(turns) : turns[a] \in Waiting
         /\ \A a, b \in 1..Len(turns) : a # b => turns[a] # turns[b]
<1>1. IsFiniteSet(Waiting)
  <2>1. IsFiniteSet(DOMAIN Jobs) /\ Waiting \subseteq DOMAIN Jobs
    BY QueueBounds, FS_Interval DEF Waiting
  <2> QED BY <2>1, FS_Subset
<1>2. Cardinality(Waiting) \in Nat
  BY <1>1, FS_CardinalityType
<1>3. /\ turns \in [1..Cardinality(Waiting) -> Waiting]
      /\ \A a, b \in 1..Cardinality(Waiting) : a # b => turns[a] # turns[b]
  BY DEF QueueOrders, SetToSeqs
<1>4. Len(turns) = Cardinality(Waiting)
  BY <1>2, <1>3, IsASeq, LenProperties
<1> QED BY <1>2, <1>3, <1>4

(* The places a pass goes through, one job at a time: a job is on a device  *)
(* only where its turn put it.                                              *)
LEMMA PlacedInTurn ==
  ASSUME QueueInv, Schedule
  PROVE  \E turns \in QueueOrders : \E places :
           /\ assigned' = places[Len(turns)]
           /\ \A k \in 0..Len(turns) : PlacesOK(places[k], turns, k)
           /\ \A k \in 1..Len(turns) : places[k] = Place(places[k - 1], turns[k])
<1>1. PICK turns \in QueueOrders :
        LET places[k \in 0..Len(turns)] ==
              IF k = 0 THEN assigned ELSE Place(places[k - 1], turns[k])
        IN assigned' = places[Len(turns)]
  BY DEF Schedule
<1> DEFINE n == Len(turns)
           places[k \in 0..n] == IF k = 0 THEN assigned ELSE Place(places[k - 1], turns[k])
<1>2. assigned' = places[n]
  BY <1>1
<1>3. n \in Nat
  BY TurnsAre
<1>4. places[0] = assigned /\ \A k \in 1..n : places[k] = Place(places[k - 1], turns[k])
  <2> HIDE DEF n
  <2> QED BY <1>3, PlacesExist
<1> HIDE DEF places
<1> DEFINE Wrong == {k \in Nat : k <= n /\ ~PlacesOK(places[k], turns, k)}
<1>5. PlacesOK(places[0], turns, 0)
  <2>1. \A g \in GpuSet : Cardinality(assigned[g]) <= MaxPerGpu
    BY DEF QueueInv, QueueTypeOK
  <2> QED BY <1>4, <2>1 DEF PlacesOK, QueueInv
<1>6. ASSUME NEW k \in Nat, k + 1 <= n, PlacesOK(places[k], turns, k)
      PROVE  PlacesOK(places[k + 1], turns, k + 1)
  <2>1. k + 1 \in 1..n /\ (k + 1) - 1 = k /\ \A a \in 1..k : a \in 1..n /\ a # k + 1
    BY <1>3, <1>6
  <2>2. turns[k + 1] \in Waiting /\ \A a \in 1..k : turns[a] \in Waiting /\ turns[a] # turns[k + 1]
    BY <2>1, TurnsAre
  <2>3. places[k + 1] = Place(places[k], turns[k + 1])
    BY <1>4, <2>1
  <2>4. PlacesOK(Place(places[k], turns[k + 1]), turns, k + 1)
    BY <1>6, <2>2, PlaceKeeps
  <2> QED BY <2>3, <2>4
<1>7. Wrong = {}
  <2> SUFFICES ASSUME Wrong # {} PROVE FALSE
    OBVIOUS
  <2>1. PICK k \in Wrong : \A l \in Wrong : k <= l
    <3>1. Wrong \in SUBSET Nat
      OBVIOUS
    <3> HIDE DEF Wrong
    <3> QED BY <3>1, LeastNatural
  <2>2. k \in Nat /\ k <= n /\ k # 0 /\ ~PlacesOK(places[k], turns, k)
    BY <1>5
  <2>3. k - 1 \in Nat /\ (k - 1) + 1 = k /\ ~(k <= k - 1) /\ k - 1 <= n
    BY <1>3, <2>2
  <2>4. PlacesOK(places[k - 1], turns, k - 1)
    BY <2>1, <2>3
  <2> HIDE DEF Wrong, n
  <2> QED BY <1>6, <2>2, <2>3, <2>4
<1>8. \A k \in 0..n : PlacesOK(places[k], turns, k)
  <2> HIDE DEF n
  <2> QED BY <1>3, <1>7
<1> QED BY <1>2, <1>4, <1>8

(* What a pass does to the jobs: some that were queued run, on one device   *)
(* each, and the others are what they were.                                *)
LEMMA ScheduleStarts ==
  ASSUME QueueInv, Schedule
  PROVE  /\ assigned' \in [GpuSet -> SUBSET JobSet]
         /\ \A g \in GpuSet : Cardinality(assigned'[g]) <= MaxPerGpu
         /\ AssignmentsMatchJobs'
         /\ jobStatus' \in [JobSet -> JobStates]
         /\ device' \in [JobSet -> GpuSet \cup {NoGpu}]
         /\ \A j \in JobSet : jobStatus'[j] = "running" => device'[j] # NoGpu /\ j \in working'
<1>1. PICK turns \in QueueOrders : PlacesOK(assigned', turns, Len(turns))
  <2>1. PICK turns \in QueueOrders : \E places :
          /\ assigned' = places[Len(turns)]
          /\ \A k \in 0..Len(turns) : PlacesOK(places[k], turns, k)
    BY PlacedInTurn
  <2>2. Len(turns) \in 0..Len(turns)
    BY TurnsAre
  <2> QED BY <2>1, <2>2
<1> DEFINE Started(j) == \E g \in GpuSet : j \in assigned'[g] \ assigned[g]
<1>2. /\ jobStatus' = [j \in JobSet |-> IF Started(j) THEN "running" ELSE jobStatus[j]]
      /\ device' = [j \in JobSet |-> IF Started(j)
                      THEN CHOOSE g \in GpuSet : j \in assigned'[g] ELSE device[j]]
      /\ working' = working \cup {j \in JobSet : Started(j)}
  BY DEF Schedule
<1>3. assigned' \in [GpuSet -> SUBSET JobSet] /\ \A g \in GpuSet : assigned[g] \subseteq assigned'[g]
  BY <1>1 DEF PlacesOK
<1>4. \A j : Started(j) => j \in JobSet /\ jobStatus[j] = "queued"
  <2> SUFFICES ASSUME NEW g \in GpuSet, NEW j \in assigned'[g] \ assigned[g]
               PROVE  j \in JobSet /\ jobStatus[j] = "queued"
    OBVIOUS
  <2>1. PICK a \in 1..Len(turns) : j = Jobs[turns[a]]
    BY <1>1 DEF PlacesOK
  <2>2. turns[a] \in Waiting
    BY TurnsAre
  <2> QED BY <2>1, <2>2, QueueBounds DEF Waiting
<1>5. \A g, h \in GpuSet : \A j : Started(j) /\ j \in assigned'[g] /\ j \in assigned'[h] => g = h
  <2>1. \A j, g : Started(j) /\ g \in GpuSet => j \notin assigned[g]
    BY <1>4 DEF QueueInv, AssignmentsMatchJobs
  <2> QED BY <1>1, <2>1 DEF PlacesOK
<1>6. \A j : Started(j) => /\ device'[j] \in GpuSet /\ j \in assigned'[device'[j]]
                           /\ jobStatus'[j] = "running" /\ j \in working'
  <2> SUFFICES ASSUME NEW j, Started(j)
               PROVE  /\ device'[j] \in GpuSet /\ j \in assigned'[device'[j]]
                      /\ jobStatus'[j] = "running" /\ j \in working'
    OBVIOUS
  <2>1. \E g \in GpuSet : j \in assigned'[g]
    OBVIOUS
  <2>2. j \in JobSet
    BY <1>4
  <2>3. device'[j] = CHOOSE g \in GpuSet : j \in assigned'[g]
    BY <1>2, <2>2
  <2>4. device'[j] \in GpuSet /\ j \in assigned'[device'[j]]
    <3> HIDE DEF Started
    <3> QED BY <2>1, <2>3
  <2> QED BY <1>2, <2>2, <2>4
<1>7. \A j \in JobSet : ~Started(j) => device'[j] = device[j] /\ jobStatus'[j] = jobStatus[j]
  BY <1>2
<1>8. \A g \in GpuSet : assigned[g] = {j \in JobSet : jobStatus[j] = "running" /\ device[j] = g}
  BY DEF QueueInv, AssignmentsMatchJobs
<1>9. AssignmentsMatchJobs'
  <2> SUFFICES ASSUME NEW g \in GpuSet
               PROVE  assigned'[g] = {j \in JobSet : jobStatus'[j] = "running" /\ device'[j] = g}
    BY DEF AssignmentsMatchJobs
  <2>1. ASSUME NEW j \in JobSet, Started(j)
        PROVE  j \in assigned'[g] <=> jobStatus'[j] = "running" /\ device'[j] = g
    <3> HIDE DEF Started
    <3> QED BY <1>5, <1>6, <2>1
  <2>2. ASSUME NEW j \in JobSet, ~Started(j)
        PROVE  j \in assigned'[g] <=> jobStatus'[j] = "running" /\ device'[j] = g
    <3>1. j \in assigned'[g] <=> j \in assigned[g]
      BY <1>3, <2>2
    <3>2. j \in assigned[g] <=> jobStatus[j] = "running" /\ device[j] = g
      BY <1>8
    <3> HIDE DEF Started
    <3> QED BY <1>7, <2>2, <3>1, <3>2
  <2>3. assigned'[g] \subseteq JobSet
    BY <1>3
  <2> QED BY <2>1, <2>2, <2>3
<1>10. \A j \in JobSet : Started(j) \/ (device'[j] = device[j] /\ jobStatus'[j] = jobStatus[j])
  BY <1>7
<1>11. working \subseteq working'
  BY <1>2
<1>12. DOMAIN jobStatus' = JobSet /\ DOMAIN device' = JobSet
       /\ jobStatus' = [j \in JobSet |-> jobStatus'[j]] /\ device' = [j \in JobSet |-> device'[j]]
  BY <1>2
<1> HIDE DEF Started
<1>13. jobStatus' \in [JobSet -> JobStates] /\ device' \in [JobSet -> GpuSet \cup {NoGpu}]
  <2>1. ASSUME NEW j \in JobSet
        PROVE  jobStatus'[j] \in JobStates /\ device'[j] \in GpuSet \cup {NoGpu}
    BY <1>6, <1>10 DEF QueueInv, QueueTypeOK, JobStates
  <2> QED BY <1>12, <2>1
<1>14. \A j \in JobSet : jobStatus'[j] = "running" => device'[j] # NoGpu /\ j \in working'
  BY <1>6, <1>10, <1>11, QueueBounds DEF QueueInv, QueueTypeOK
<1> QED BY <1>1, <1>3, <1>9, <1>13, <1>14 DEF PlacesOK

(* A job taken off its device.                                              *)
LEMMA UnassignedIs ==
  ASSUME QueueInv, NEW j \in JobSet
  PROVE  /\ Unassigned(j) \in [GpuSet -> SUBSET JobSet]
         /\ \A g \in GpuSet : Unassigned(j)[g] = assigned[g] \ {j}
         /\ \A g \in GpuSet : Cardinality(Unassigned(j)[g]) <= MaxPerGpu
<1>1. device[j] \in GpuSet \/ device[j] = NoGpu
  BY DEF QueueInv, QueueTypeOK
<1>2. \A g \in GpuSet : j \in assigned[g] <=> jobStatus[j] = "running" /\ device[j] = g
  BY DEF QueueInv, AssignmentsMatchJobs
<1>3. Unassigned(j) \in [GpuSet -> SUBSET JobSet] /\ \A g \in GpuSet : Unassigned(j)[g] = assigned[g] \ {j}
  <2>1. CASE device[j] = NoGpu
    <3>1. \A g \in GpuSet : j \notin assigned[g]
      BY <1>2, <2>1, QueueBounds
    <3> QED BY <2>1, <3>1 DEF Unassigned, QueueInv
  <2>2. CASE device[j] \in GpuSet
    <3>1. Unassigned(j) = [assigned EXCEPT ![device[j]] = @ \ {j}]
      BY <2>2, QueueBounds DEF Unassigned
    <3> QED BY <1>2, <2>2, <3>1 DEF QueueInv
  <2> QED BY <1>1, <2>1, <2>2
<1>4. ASSUME NEW g \in GpuSet PROVE Cardinality(Unassigned(j)[g]) <= MaxPerGpu
  <2>1. IsFiniteSet(assigned[g]) /\ Unassigned(j)[g] \subseteq assigned[g]
    BY <1>3, JobsFinite, FS_Subset DEF QueueInv
  <2>2. /\ Cardinality(Unassigned(j)[g]) <= Cardinality(assigned[g])
        /\ Cardinality(assigned[g]) \in Nat /\ Cardinality(Unassigned(j)[g]) \in Nat
    BY <2>1, FS_Subset, FS_CardinalityType
  <2>3. Cardinality(assigned[g]) <= MaxPerGpu /\ MaxPerGpu \in Nat
    BY QueueBounds DEF QueueInv, QueueTypeOK
  <2> HIDE DEF Unassigned
  <2> QED BY <2>2, <2>3
<1> QED BY <1>3, <1>4

(* Each step of the queue keeps its invariant.                              *)
LEMMA QueueStepInv == QueueInv /\ [QueueNext]_queueVars => QueueInv'
<1> SUFFICES ASSUME QueueInv, [QueueNext]_queueVars PROVE QueueInv'
  OBVIOUS
<1>1. ASSUME NEW i \in DOMAIN Jobs, Submit(i) PROVE QueueInv'
  <2>1. Jobs[i] \in JobSet
    BY QueueBounds
  <2>2. /\ jobStatus' = [jobStatus EXCEPT ![Jobs[i]] = "queued"] /\ jobStatus[Jobs[i]] = "absent"
        /\ UNCHANGED <<device, assigned, health, heat, room, readable, monitoring, working>>
    BY <1>1 DEF Submit, gpuVars
  <2>3. QueueTypeOK'
    BY <2>1, <2>2 DEF QueueInv, QueueTypeOK
  <2>4. AssignmentsMatchJobs'
    BY <2>1, <2>2 DEF QueueInv, QueueTypeOK, AssignmentsMatchJobs
  <2> QED BY <2>2, <2>3, <2>4 DEF QueueInv
<1>2. ASSUME NEW j \in JobSet, NEW s \in {"completed", "failed", "cancelled"},
             jobStatus' = [jobStatus EXCEPT ![j] = s], assigned' = Unassigned(j),
             UNCHANGED <<device, health, heat, room, readable, monitoring>>,
             working \ {j} \subseteq working'
      PROVE  QueueInv'
  <2>1. QueueTypeOK'
    <3>1. \A g \in GpuSet : Cardinality(assigned'[g]) <= MaxPerGpu
      BY <1>2, UnassignedIs
    <3>2. /\ jobStatus' \in [JobSet -> JobStates] /\ jobStatus'[j] = s
          /\ \A l \in JobSet : l # j => jobStatus'[l] = jobStatus[l]
      BY <1>2 DEF QueueInv, QueueTypeOK, JobStates
    <3>3. \A l \in JobSet : jobStatus'[l] = "running" => device'[l] # NoGpu /\ l \in working'
      BY <1>2, <3>2 DEF QueueInv, QueueTypeOK
    <3> QED BY <1>2, <3>1, <3>2, <3>3 DEF QueueInv, QueueTypeOK, JobStates
  <2>2. AssignmentsMatchJobs'
    BY <1>2, UnassignedIs DEF QueueInv, QueueTypeOK, AssignmentsMatchJobs
  <2> QED BY <1>2, <2>1, <2>2, UnassignedIs DEF QueueInv
<1>3. ASSUME NEW j \in JobSet, CompleteJob(j) \/ CancelJob(j) PROVE QueueInv'
  BY <1>2, <1>3 DEF CompleteJob, CancelJob, gpuVars
<1>4. ASSUME MonitorPass PROVE QueueInv'
  <2>1. Schedule
    BY <1>4 DEF MonitorPass
  <2>2. health' \in [GpuSet -> {"healthy", "warning", "critical", "offline"}]
    <3>1. ASSUME NEW old \in {"healthy", "warning", "critical", "offline"},
                 NEW h \in {"cool", "warm", "hot"}, NEW m
          PROVE  Checked(old, h, m) \in {"healthy", "warning", "critical", "offline"}
      BY DEF Checked
    <3>2. \A g \in GpuSet : (IF readable'[g] THEN health[g] ELSE "offline")
                              \in {"healthy", "warning", "critical", "offline"}
      BY DEF QueueInv, QueueTypeOK
    <3>3. /\ \A g \in GpuSet : heat'[g] \in {"cool", "warm", "hot"}
          /\ health' = [g \in GpuSet |-> Checked(IF readable'[g] THEN health[g] ELSE "offline",
                                                 heat'[g], room'[g])]
      BY <1>4 DEF MonitorPass
    <3> QED BY <3>1, <3>2, <3>3
  <2>3. /\ heat' \in [GpuSet -> {"cool", "warm", "hot"}] /\ room' \in [GpuSet -> 0..Room]
        /\ readable' \in [GpuSet -> BOOLEAN] /\ monitoring' \in BOOLEAN
    BY <1>4 DEF MonitorPass, QueueInv, QueueTypeOK
  <2> QED BY <2>1, <2>2, <2>3, ScheduleStarts DEF QueueInv, QueueTypeOK, JobStates
<1>5. ASSUME StartMonitor PROVE QueueInv'
  BY <1>5 DEF StartMonitor, jobVars, QueueInv, QueueTypeOK, AssignmentsMatchJobs
<1>6. ASSUME StopMonitor PROVE QueueInv'
  BY <1>6 DEF StopMonitor, jobVars, gpuVars, QueueInv, QueueTypeOK, AssignmentsMatchJobs
<1>7. ASSUME UNCHANGED queueVars PROVE QueueInv'
  BY <1>7 DEF queueVars, QueueInv, QueueTypeOK, AssignmentsMatchJobs
<1> QED BY <1>1, <1>3, <1>4, <1>5, <1>6, <1>7 DEF QueueNext

(* So does its start.                                                       *)
LEMMA QueueInitInv == QueueInit => QueueInv
<1> SUFFICES ASSUME QueueInit PROVE QueueInv
  OBVIOUS
<1>1. \A g \in GpuSet : Cardinality(assigned[g]) <= MaxPerGpu
  BY FS_EmptySet, QueueBounds DEF QueueInit
<1>2. /\ jobStatus \in [JobSet -> JobStates] /\ device \in [JobSet -> GpuSet \cup {NoGpu}]
      /\ \A j \in JobSet : jobStatus[j] = "absent"
  BY DEF QueueInit, JobStates
<1>3. room \in [GpuSet -> 0..Room]
  BY QueueBounds DEF QueueInit
<1>4. QueueTypeOK
  BY <1>1, <1>2, <1>3 DEF QueueInit, QueueTypeOK, JobStates
<1>5. AssignmentsMatchJobs /\ assigned \in [GpuSet -> SUBSET JobSet]
  BY <1>2 DEF QueueInit, AssignmentsMatchJobs
<1> QED BY <1>4, <1>5 DEF QueueInv

(* The queue of training jobs is always in range, and no device holds more  *)
(* than max_jobs_per_gpu jobs, however many are started in one pass.        *)
THEOREM QueueTypeCorrect == QueueSpec => []QueueTypeOK
<1>1. QueueInv => QueueTypeOK
  BY DEF QueueInv
<1> QED BY <1>1, QueueInitInv, QueueStepInv, PTL DEF QueueSpec

(* A job runs if and only if a device holds it, and that device is the one  *)
(* the job names, however jobs are submitted, started, completed and        *)
(* cancelled.                                                               *)
THEOREM QueueKeepsAssignments == QueueSpec => []AssignmentsMatchJobs
<1>1. QueueInv => AssignmentsMatchJobs
  BY DEF QueueInv
<1> QED BY <1>1, QueueInitInv, QueueStepInv, PTL DEF QueueSpec

-----------------------------------------------------------------------------
(* No fit job is left behind by a pass.                                     *)

(* A job's place takes none from another.                                   *)
LEMMA PlaceGrows ==
  ASSUME NEW places \in [GpuSet -> SUBSET JobSet], NEW i, NEW g \in GpuSet
  PROVE  places[g] \subseteq Place(places, i)[g]
<1>1. CASE Place(places, i) = places
  BY <1>1
<1>2. ASSUME NEW h \in GpuSet, Place(places, i) = [places EXCEPT ![h] = @ \cup {Jobs[i]}]
      PROVE  places[g] \subseteq Place(places, i)[g]
  <2> DEFINE new == Place(places, i)
  <2>1. new[h] = places[h] \cup {Jobs[i]} /\ \A l \in GpuSet : l # h => new[l] = places[l]
    BY <1>2
  <2> HIDE DEF new
  <2>2. places[g] \subseteq new[g]
    BY <2>1
  <2> QED BY <2>2 DEF new
<1> QED BY <1>1, <1>2, PlaceOne

(* A job whose turn finds a device that takes it gets a place.              *)
LEMMA PlaceTaken ==
  ASSUME NEW places \in [GpuSet -> SUBSET JobSet], NEW i, NEW g \in GpuSet,
         Usable(health'[g]), HasSlot(places[g]), room'[g] >= Needs[Jobs[i]]
  PROVE  \E h \in GpuSet : Jobs[i] \in Place(places, i)[h]
<1> DEFINE takes == {k \in DOMAIN Gpus : /\ Usable(health'[Gpus[k]])
                                         /\ HasSlot(places[Gpus[k]])
                                         /\ room'[Gpus[k]] >= Needs[Jobs[i]]}
           first == CHOOSE k \in takes : \A l \in takes : k <= l
<1>1. PICK k \in DOMAIN Gpus : Gpus[k] = g
  BY QueueBounds
<1>2. takes # {}
  BY <1>1
<1>3. takes \in SUBSET Nat
  BY QueueBounds
<1>4. \E m \in takes : \A l \in takes : m <= l
  BY <1>2, <1>3, LeastNatural
<1>5. first \in takes
  BY <1>4
<1>6. Place(places, i) = [places EXCEPT ![Gpus[first]] = @ \cup {Jobs[i]}]
  BY <1>2 DEF Place
<1>7. first \in DOMAIN Gpus
  BY <1>5
<1> HIDE DEF first
<1>8. Gpus[first] \in GpuSet
  BY <1>7, QueueBounds
<1> HIDE DEF takes
<1>9. Jobs[i] \in [places EXCEPT ![Gpus[first]] = @ \cup {Jobs[i]}][Gpus[first]]
  BY <1>8
<1> QED BY <1>6, <1>8, <1>9

(* Every job that waits has its turn.                                       *)
LEMMA TurnsCover ==
  ASSUME NEW turns \in QueueOrders, NEW i \in Waiting
  PROVE  \E a \in 1..Len(turns) : turns[a] = i
<1>1. IsFiniteSet(Waiting)
  <2>1. IsFiniteSet(DOMAIN Jobs) /\ Waiting \subseteq DOMAIN Jobs
    BY QueueBounds, FS_Interval DEF Waiting
  <2> QED BY <2>1, FS_Subset
<1>2. Cardinality(Waiting) \in Nat /\ turns \in SetToSeqs(Waiting)
  BY <1>1, FS_CardinalityType DEF QueueOrders
<1>3. turns \in [1..Cardinality(Waiting) -> Waiting]
  BY <1>2 DEF SetToSeqs
<1>4. Len(turns) = Cardinality(Waiting)
  BY <1>2, <1>3, IsASeq, LenProperties
<1> QED BY <1>1, <1>2, <1>4, SeqOfAll

(* A pass places every job that still fits when its turn comes, and what it *)
(* leaves fits nowhere.                                                     *)
LEMMA PassLeavesNoFitJob ==
  ASSUME QueueInv, Schedule, NEW j \in JobSet, NEW g \in GpuSet,
         jobStatus'[j] = "queued", Usable(health'[g]), room'[g] >= Needs[j],
         HasSlot(assigned'[g])
  PROVE  FALSE
<1> DEFINE Started(l) == \E h \in GpuSet : l \in assigned'[h] \ assigned[h]
<1>0. PICK turns \in QueueOrders :
        \E places :
          /\ assigned' = places[Len(turns)]
          /\ \A k \in 0..Len(turns) : PlacesOK(places[k], turns, k)
          /\ \A k \in 1..Len(turns) : places[k] = Place(places[k - 1], turns[k])
  BY PlacedInTurn
<1>1. PICK places :
        /\ assigned' = places[Len(turns)]
        /\ \A k \in 0..Len(turns) : PlacesOK(places[k], turns, k)
        /\ \A k \in 1..Len(turns) : places[k] = Place(places[k - 1], turns[k])
  BY <1>0
<1> DEFINE n == Len(turns)
<1>2. n \in Nat
  BY TurnsAre
<1>3. jobStatus' = [l \in JobSet |-> IF Started(l) THEN "running" ELSE jobStatus[l]]
  BY DEF Schedule
<1>4. ~Started(j) /\ jobStatus[j] = "queued"
  BY <1>3
<1>5. \A h \in GpuSet : j \notin assigned[h]
  BY <1>4 DEF QueueInv, AssignmentsMatchJobs
<1>6. PICK i \in Waiting : Jobs[i] = j
  BY <1>4, QueueBounds DEF Waiting
<1>7. PICK a \in 1..n : turns[a] = i
  BY <1>6, TurnsCover
<1> HIDE DEF n
<1>8. \A k \in 0..n : places[k] \in [GpuSet -> SUBSET JobSet]
  BY <1>1 DEF PlacesOK, n
<1> DEFINE Smaller(k) == \A h \in GpuSet : places[k][h] \subseteq places[n][h]
           Wrong == {d \in Nat : d <= n /\ ~Smaller(n - d)}
<1>9. Wrong = {}
  <2> SUFFICES ASSUME Wrong # {} PROVE FALSE
    OBVIOUS
  <2>1. PICK d \in Wrong : \A l \in Wrong : d <= l
    <3>1. Wrong \in SUBSET Nat
      OBVIOUS
    <3> HIDE DEF Wrong
    <3> QED BY <3>1, LeastNatural
  <2>2. d \in Nat /\ d <= n /\ ~Smaller(n - d)
    OBVIOUS
  <2>3. d # 0
    <3>1. n - 0 = n
      BY <1>2
    <3>2. Smaller(n)
      OBVIOUS
    <3> HIDE DEF Smaller, Wrong
    <3> QED BY <2>2, <3>1, <3>2
  <2> DEFINE k == n - d
  <2>4. d - 1 \in Nat /\ ~(d <= d - 1) /\ d - 1 <= n /\ n - (d - 1) = k + 1
        /\ k \in 0..n /\ k + 1 \in 1..n /\ (k + 1) - 1 = k
    BY <1>2, <2>2, <2>3
  <2>5. Smaller(n - (d - 1))
    <3> HIDE DEF Smaller, k
    <3> QED BY <2>1, <2>4
  <2> HIDE DEF Wrong, k
  <2>6. places[k + 1] = Place(places[k], turns[k + 1])
    BY <1>1, <2>4 DEF n
  <2>7. \A h \in GpuSet : places[k][h] \subseteq places[k + 1][h]
    BY <1>8, <2>4, <2>6, PlaceGrows
  <2>8. Smaller(k)
    BY <2>4, <2>5, <2>7
  <2> QED BY <2>2, <2>8 DEF k
<1>10. ASSUME NEW k \in 0..n PROVE Smaller(k)
  <2>1. n - k \in Nat /\ n - k <= n /\ n - (n - k) = k
    BY <1>2
  <2>2. n - k \notin Wrong
    BY <1>9
  <2> HIDE DEF Smaller
  <2> QED BY <2>1, <2>2
<1>11. a - 1 \in 0..n /\ a \in 0..n
  BY <1>2
<1>12. HasSlot(places[a - 1][g])
  <2>1. places[a - 1][g] \subseteq assigned'[g] /\ assigned'[g] \in SUBSET JobSet
    <3>1. n \in 0..n
      BY <1>2
    <3> QED BY <1>1, <1>8, <1>10, <1>11, <3>1 DEF n
  <2>2. IsFiniteSet(assigned'[g])
    BY <2>1, JobsFinite, FS_Subset
  <2>3. IsFiniteSet(places[a - 1][g])
        /\ Cardinality(places[a - 1][g]) <= Cardinality(assigned'[g])
    BY <2>1, <2>2, FS_Subset
  <2>4. Cardinality(places[a - 1][g]) \in Nat /\ Cardinality(assigned'[g]) \in Nat
    BY <2>2, <2>3, FS_CardinalityType
  <2> QED BY <2>3, <2>4, QueueBounds DEF HasSlot
<1>13. PICK h \in GpuSet : j \in Place(places[a - 1], i)[h]
  BY <1>6, <1>8, <1>11, <1>12, PlaceTaken
<1>14. j \in places[a][h]
  BY <1>1, <1>7, <1>13 DEF n
<1>15. j \in assigned'[h]
  BY <1>1, <1>10, <1>11, <1>14 DEF n
<1> QED BY <1>4, <1>5, <1>15

(* A pass of the monitor leaves no job in the queue that a device it could   *)
(* read has room and a slot for: a job that does not fit holds up none       *)
(* behind it, and no slot is passed over.                                    *)
THEOREM QueueLeavesNoFitJob == QueueSpec => LeavesNoFitJob
<1> DEFINE Step == MonitorPass =>
                     \A j \in JobSet, g \in GpuSet :
                       jobStatus'[j] = "queued" /\ Fit(g, j)' => ~HasSlot(assigned'[g])
<1>1. QueueInv /\ [QueueNext]_queueVars => [Step]_queueVars
  BY PassLeavesNoFitJob DEF MonitorPass, Fit
<1>2. QueueInv /\ [QueueNext]_queueVars => QueueInv'
  BY QueueStepInv
<1>3. QueueSpec => [][Step]_queueVars
  BY <1>1, <1>2, QueueInitInv, PTL DEF QueueSpec
<1> QED BY <1>3 DEF LeavesNoFitJob

-----------------------------------------------------------------------------
(* All of them together. *)
ServicesInv == IInv /\ ServerInv /\ BatchInv /\ ABTypeOK /\ ConsumerInv /\ QueueInv

(* A step of one program leaves the others as they are. *)
LEMMA ServicesStepInv == ServicesInv /\ [ServicesNext]_servicesVars => ServicesInv'
<1> SUFFICES ASSUME ServicesInv, [ServicesNext]_servicesVars PROVE ServicesInv'
  OBVIOUS
<1>1. [Next]_vars /\ [ServerNext]_modelServerVars /\ [BatchNext]_batchVars
      /\ [ABNext]_abVars /\ [ConsumerNext]_consumerVars /\ [QueueNext]_queueVars
  BY DEF ServicesNext, servicesVars
<1> QED BY <1>1, InvStep, ServerStepInv, BatchStepInv, ABStepInv, ConsumerStepInv, QueueStepInv
        DEF ServicesInv

(* What the invariant says for the properties. *)
LEMMA ServicesGive ==
  ServicesInv => /\ ServicesTypeOK
                 /\ PredictionsAligned
                 /\ FlushedOnce /\ StoppedLeavesNothing
                 /\ AssignmentsMatchJobs
BY ConsumerGives DEF ServicesInv, ServicesTypeOK, IInv, ServerInv, BatchInv, QueueInv

LEMMA ServicesInvariant == ServicesSpec => []ServicesInv
<1>1. ServicesInit => ServicesInv
  BY InvInit, ServerInitInv, BatchInitInv, ABInitInv, ConsumerInitInv, QueueInitInv
  DEF ServicesInit, ServicesInv
<1> QED BY <1>1, ServicesStepInv, PTL DEF ServicesSpec

(* With all of them there, every part of every program is in range. *)
THEOREM ServicesTypeCorrect == ServicesSpec => []ServicesTypeOK
<1> QED BY ServicesInvariant, ServicesGive, PTL

(* And what is proved of each alone holds of them together: batches are      *)
(* answered in order, no message is in two flushes of a session, stop leaves *)
(* nothing in the buffer, and jobs and devices agree.                        *)
THEOREM ServicesKeepTheirPromises ==
  ServicesSpec => [](/\ PredictionsAligned
                     /\ FlushedOnce /\ StoppedLeavesNothing
                     /\ AssignmentsMatchJobs)
<1> QED BY ServicesInvariant, ServicesGive, PTL

=============================================================================
