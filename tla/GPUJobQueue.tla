------------------------------ MODULE GPUJobQueue ------------------------------
(***************************************************************************)
(* Training jobs on GPUs, python/acms/ai/monitoring/gpu_monitor.py: the    *)
(* queue (TrainingJobQueue), and the monitor that reads the devices, rates *)
(* their health and starts queued jobs on them.  A pass of the monitor     *)
(* suspends nowhere, so it is one step; submissions, cancellations and     *)
(* reports of the workers come between passes.                             *)
(***************************************************************************)
EXTENDS Integers, Sequences, FiniteSets, SequencesExt

CONSTANTS
  Jobs,       \* in the order they are submitted
  Priority,   \* priority_value of each job
  Needs,      \* required_memory_mb of each, in the units of room
  Gpus,       \* device ids, in the order of _gpus
  Room,       \* total_memory_mb; with nothing free the memory is high
  MaxPerGpu,  \* max_concurrent_per_gpu
  NoGpu

JobSet == ToSet(Jobs)
GpuSet == ToSet(Gpus)

ASSUME JobsAssumption ==
  /\ Jobs \in Seq(JobSet) /\ IsInjective(Jobs)
  /\ Gpus \in Seq(GpuSet) /\ IsInjective(Gpus) /\ NoGpu \notin GpuSet
  /\ {Room, MaxPerGpu} \subseteq Nat \ {0}

VARIABLES
  jobStatus,  \* of each job, or "absent"
  device,     \* gpu_device_id
  assigned,   \* _gpu_assignments
  health,     \* of each GPU
  heat,       \* its temperature, when last read: "cool", "warm" or "hot"
  room,       \* its free memory, when last read
  readable,   \* the last pass could read it
  monitoring, \* the monitor's loop runs
  working     \* jobs some worker has yet to report on

gpuVars == <<health, heat, room, readable>>
jobVars == <<jobStatus, device, assigned, working>>
queueVars == <<jobStatus, device, assigned, health, heat, room, readable, monitoring, working>>

QueueInit ==
  /\ jobStatus = [j \in JobSet |-> "absent"]
  /\ device = [j \in JobSet |-> NoGpu]
  /\ assigned = [g \in GpuSet |-> {}]
  /\ health = [g \in GpuSet |-> "healthy"] /\ heat = [g \in GpuSet |-> "cool"]
  /\ room = [g \in GpuSet |-> Room] /\ readable = [g \in GpuSet |-> TRUE]
  /\ monitoring = FALSE
  /\ working = {}

-----------------------------------------------------------------------------
(* The queue.                                                              *)

Submit(i) ==
  /\ jobStatus[Jobs[i]] = "absent"
  /\ \A h \in 1..(i - 1) : jobStatus[Jobs[h]] # "absent"
  /\ jobStatus' = [jobStatus EXCEPT ![Jobs[i]] = "queued"]
  /\ UNCHANGED <<device, assigned, gpuVars, monitoring, working>>

(* The device of a job is free again.  Mutant: when it is cancelled, its   *)
(* place is kept.                                                          *)
Unassigned_IfReported(j) ==
  IF jobStatus[j] = "running" THEN assigned ELSE [assigned EXCEPT ![device[j]] = @ \ {j}]
Unassigned(j) == IF device[j] = NoGpu THEN assigned ELSE [assigned EXCEPT ![device[j]] = @ \ {j}]

(* complete_job, whatever the status is by now. *)
CompleteJob(j) ==
  /\ j \in working
  /\ working' = working \ {j}
  /\ \E s \in {"completed", "failed"} : jobStatus' = [jobStatus EXCEPT ![j] = s]
  /\ assigned' = Unassigned(j)
  /\ UNCHANGED <<device, gpuVars, monitoring>>

CancelJob(j) ==
  /\ jobStatus[j] \in {"queued", "running"}
  /\ jobStatus' = [jobStatus EXCEPT ![j] = "cancelled"]
  /\ assigned' = Unassigned(j)
  /\ UNCHANGED <<device, gpuVars, monitoring, working>>

-----------------------------------------------------------------------------
(* A pass of the monitor.                                                  *)

(* What _check_health makes of a device that was rated old and now has the *)
(* heat h and the free memory m.  A device that was OFFLINE is rated again *)
(* only by its heat.                                                       *)
Checked(old, h, m) ==
  IF old \in {"warning", "critical"} /\ h = "cool" /\ m > 0 THEN "healthy"
  ELSE CASE h = "hot" -> "critical"
         [] h = "warm" -> "warning"
         [] h = "cool" -> IF m = 0 /\ old = "healthy" THEN "warning" ELSE old

Usable(state) == state \in {"healthy", "warning"}

(* Whether a job may go to a device next to those that run there. *)
HasSlot(there) == Cardinality(there) < MaxPerGpu

(* The order of the queue: by priority, then by submission. *)
Before(i, j) ==
  Priority[Jobs[i]] > Priority[Jobs[j]] \/ (Priority[Jobs[i]] = Priority[Jobs[j]] /\ i < j)

Waiting == {i \in DOMAIN Jobs : jobStatus[Jobs[i]] = "queued"}
InOrder(turns) == \A a, b \in DOMAIN turns : a < b => Before(turns[a], turns[b])

(* The one sequence of the queued jobs in that order.  Mutant: the head of  *)
(* the queue blocks the rest.                                              *)
QueueOrders_Head == SetToSeqs({i \in Waiting : \A j \in Waiting : i = j \/ Before(i, j)})
QueueOrders == {turns \in SetToSeqs(Waiting) : InOrder(turns)}

(* _schedule_jobs: each job in turn goes to the first device that takes    *)
(* it.  What is free is what was read, whatever was started since.         *)
Place(places, i) ==
  LET j == Jobs[i]
      takes == {k \in DOMAIN Gpus : /\ Usable(health'[Gpus[k]])
                                    /\ HasSlot(places[Gpus[k]])
                                    /\ room'[Gpus[k]] >= Needs[j]}
  IN IF takes = {} THEN places
     ELSE LET first == Gpus[CHOOSE k \in takes : \A l \in takes : k <= l]
          IN [places EXCEPT ![first] = @ \cup {j}]

Schedule ==
  /\ \E turns \in QueueOrders :
       LET places[k \in 0..Len(turns)] ==
             IF k = 0 THEN assigned ELSE Place(places[k - 1], turns[k])
       IN assigned' = places[Len(turns)]
  /\ LET started(j) == \E g \in GpuSet : j \in assigned'[g] \ assigned[g]
     IN /\ jobStatus' = [j \in JobSet |-> IF started(j) THEN "running" ELSE jobStatus[j]]
        /\ device' = [j \in JobSet |-> IF started(j)
                        THEN CHOOSE g \in GpuSet : j \in assigned'[g] ELSE device[j]]
        /\ working' = working \cup {j \in JobSet : started(j)}

MonitorPass ==
  /\ monitoring
  /\ readable' \in [GpuSet -> BOOLEAN]
  /\ heat' \in [GpuSet -> {"cool", "warm", "hot"}]
  /\ room' \in [GpuSet -> 0..Room]
  /\ \A g \in GpuSet : ~readable'[g] => heat'[g] = heat[g] /\ room'[g] = room[g]
  /\ health' = [g \in GpuSet |-> Checked(IF readable'[g] THEN health[g] ELSE "offline",
                                         heat'[g], room'[g])]
  /\ Schedule
  /\ UNCHANGED monitoring

(* start detects the devices anew and takes them for healthy. *)
StartMonitor ==
  /\ ~monitoring
  /\ monitoring' = TRUE
  /\ health' = [g \in GpuSet |-> "healthy"] /\ heat' = [g \in GpuSet |-> "cool"]
  /\ readable' = [g \in GpuSet |-> TRUE]
  /\ room' \in [GpuSet -> 0..Room]
  /\ UNCHANGED jobVars

StopMonitor ==
  /\ monitoring
  /\ monitoring' = FALSE
  /\ UNCHANGED <<gpuVars, jobVars>>

-----------------------------------------------------------------------------
QueueNext ==
  \/ \E i \in DOMAIN Jobs : Submit(i)
  \/ \E j \in JobSet : CompleteJob(j) \/ CancelJob(j)
  \/ MonitorPass \/ StartMonitor \/ StopMonitor

QueueSpec == QueueInit /\ [][QueueNext]_queueVars

-----------------------------------------------------------------------------
(* Properties.                                                             *)

(* Every part of the state is in range, and no device is given more jobs   *)
(* than it may run.                                                        *)
QueueTypeOK ==
  /\ jobStatus \in
       [JobSet -> {"absent", "queued", "running", "completed", "failed", "cancelled"}]
  /\ device \in [JobSet -> GpuSet \cup {NoGpu}]
  /\ \A g \in GpuSet : Cardinality(assigned[g]) <= MaxPerGpu
  /\ health \in [GpuSet -> {"healthy", "warning", "critical", "offline"}]
  /\ heat \in [GpuSet -> {"cool", "warm", "hot"}]
  /\ room \in [GpuSet -> 0..Room]
  /\ readable \in [GpuSet -> BOOLEAN] /\ monitoring \in BOOLEAN
  /\ \A j \in JobSet : jobStatus[j] = "running" => device[j] # NoGpu /\ j \in working

(* A device lists exactly the jobs that run on it, however jobs were       *)
(* cancelled and reported on in between, so its slots are neither lost nor *)
(* given twice.                                                            *)
AssignmentsMatchJobs ==
  \A g \in GpuSet :
    assigned[g] = {j \in JobSet : jobStatus[j] = "running" /\ device[j] = g}

(* A pass of the monitor leaves no job in the queue that some device it    *)
(* could read has room and a slot for: one that is too large for what is   *)
(* free does not hold up those behind it, whatever those before it took.   *)
Fit(g, j) == readable[g] /\ Usable(health[g]) /\ room[g] >= Needs[j]

LeavesNoFitJob ==
  [][MonitorPass =>
       \A j \in JobSet, g \in GpuSet :
         jobStatus'[j] = "queued" /\ Fit(g, j)' => ~HasSlot(assigned'[g])]_queueVars

=============================================================================
