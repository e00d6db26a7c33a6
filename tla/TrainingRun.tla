---------------------------- MODULE TrainingRun -----------------------------
(* One training job on the cards of one machine: the split of the batch over
   unequal cards (service/poolPlanner.py), the devices it runs on
   (taskExecutor.py describe_pool, trainer.py resolve_devices), the optimiser
   steps, whose shards run in threads, and the three ways out: done, stopped by
   the submitter, stopped because a card is hot (thermalPolicy.py).  A gradient
   is the set of samples it was computed from, each with the version of the
   weights it was computed for. *)
EXTENDS Naturals, FiniteSets, Functions

CONSTANTS
  Cards,       \* number of cards NVML lists
  Speeds,      \* measured throughputs, in whole units; 0 when it failed
  Batches,     \* batch sizes a job may ask for
  Unlimited,   \* a capacity no batch reaches: its memory is not known
  Steps,       \* steps of the job
  CheckEvery   \* THERMAL_CHECK_EVERY

ASSUME TrainingAssumption ==
  /\ Cards \in Nat \ {0} /\ Speeds \subseteq Nat /\ Batches \subseteq 1..Unlimited
  /\ Unlimited \in Nat /\ Steps \in Nat \ {0} /\ CheckEvery \in Nat \ {0}

VARIABLES
  phase,     \* where the run is
  speed,     \* measured_tflops of the cards torch can address, 0 for the others
  capacity,  \* how many samples fit in the memory of each
  batch,     \* the batch size
  sizes,     \* the plan
  overflow,  \* samples taken from cards that cannot hold them
  shard,     \* shard_sizes, by device; device 0 is the processor
  version,   \* which weights each replica has
  grad,      \* what each replica's gradient was computed from
  ready,     \* shards of this step that are done
  step,      \* optimiser steps taken
  hot,       \* a card is at its stop temperature
  sensor,    \* the driver reports temperatures
  hotSteps,  \* steps taken since, while the driver reports it (history)
  stopFlag,  \* the submitter asked for a stop
  outcome

planVars == <<speed, capacity, batch, sizes, overflow>>
stepVars == <<shard, version, grad, ready, step>>
worldVars == <<hot, sensor, stopFlag>>
trainingVars == <<phase, planVars, stepVars, worldVars, hotSteps, outcome>>

CardIds == 1..Cards
Devices == 0..Cards
Nobody == [i \in CardIds |-> 0]
Total(f, S) == FoldFunctionOnSet(+, 0, f, S)
Workers == {i \in Devices : shard[i] > 0}
Master == CHOOSE i \in Workers : \A k \in Workers : i <= k

TrainingTypeOK ==
  /\ phase \in {"idle", "planned", "check", "sync", "shards", "reduce", "progress", "over"}
  /\ speed \in [CardIds -> Nat] /\ capacity \in [CardIds -> 0..Unlimited]
  /\ batch \in 0..Unlimited /\ overflow \in 0..Unlimited
  /\ sizes \in [CardIds -> 0..Unlimited]
  /\ shard \in [Devices -> 0..Unlimited]
  /\ version \in [Devices -> 0..Steps] /\ step \in 0..Steps
  /\ \A i \in Devices : grad[i] \subseteq (1..Unlimited) \X (0..Steps)
  /\ ready \subseteq Devices
  /\ hot \in BOOLEAN /\ sensor \in BOOLEAN /\ stopFlag \in BOOLEAN
  /\ hotSteps \in 0..Steps
  /\ outcome \in {"none", "completed", "cancelled", "failed", "hot"}
  /\ (outcome # "none") <=> (phase = "over")
  /\ phase \in {"check", "sync", "shards", "reduce"} => Workers # {} /\ step < Steps

TrainingInit ==
  /\ phase = "idle" /\ speed = Nobody /\ capacity = Nobody /\ batch = 0
  /\ sizes = Nobody /\ overflow = 0
  /\ shard = [i \in Devices |-> 0] /\ version = [i \in Devices |-> 0]
  /\ grad = [i \in Devices |-> {}] /\ ready = {} /\ step = 0
  /\ hot = FALSE /\ sensor = TRUE /\ stopFlag = FALSE /\ hotSteps = 0
  /\ outcome = "none"

-----------------------------------------------------------------------------
(* The plan. *)

Usable(t) == {i \in CardIds : t[i] > 0}

\* One of the cards comes before the other where a sample is left over.
FirstLeft(t, b, i, k) ==
  LET part(c) == (t[c] * b) % Total(t, Usable(t))
  IN \/ part(i) > part(k)
     \/ part(i) = part(k) /\ (t[i] > t[k] \/ (t[i] = t[k] /\ i < k))

\* (mutant) the parts that are cut off are not handed out.
RoundedDown(t, b) ==
  [i \in CardIds |-> IF i \in Usable(t) THEN (t[i] * b) \div Total(t, Usable(t)) ELSE 0]

\* plan_batch_split: by largest remainders, the faster card first.
Apportioned(t, b) ==
  LET down == [i \in CardIds |->
                 IF i \in Usable(t) THEN (t[i] * b) \div Total(t, Usable(t)) ELSE 0]
      left == b - Total(down, Usable(t))
      before(i) == {k \in Usable(t) \ {i} : FirstLeft(t, b, k, i)}
  IN [i \in CardIds |->
        IF i \in Usable(t) /\ Cardinality(before(i)) < left THEN down[i] + 1 ELSE down[i]]

\* The plan is made for a pool and a batch; what a card cannot hold is cut off.
Plan(t, b, c) ==
  LET first == Apportioned(t, b)
  IN /\ phase = "idle"
     /\ speed' = t /\ batch' = b /\ capacity' = c
     /\ sizes' = [i \in CardIds |-> IF first[i] > c[i] THEN c[i] ELSE first[i]]
     /\ overflow' = Total(first, CardIds) - Total(sizes', CardIds)
     /\ phase' = "planned"
     /\ UNCHANGED <<stepVars, worldVars, hotSteps, outcome>>

Room == {i \in Usable(speed) : sizes[i] < capacity[i]}

\* The fastest card with room takes the next sample.
TakeNext ==
  /\ phase = "planned" /\ overflow > 0
  /\ \E i \in Room :
       /\ \A k \in Room : speed[i] > speed[k] \/ (speed[i] = speed[k] /\ i <= k)
       /\ sizes' = [sizes EXCEPT ![i] = @ + 1]
       /\ overflow' = overflow - 1
  /\ UNCHANGED <<phase, speed, capacity, batch, stepVars, worldVars, hotSteps, outcome>>

Planned == phase = "planned" /\ (overflow = 0 \/ Room = {})

\* The devices of the plan, or the processor where there is no plan or torch has
\* no card any more; a plan for one card keeps its size there.
Resolve(cuda) ==
  LET parts == {i \in CardIds : sizes[i] > 0}
      onCards == cuda /\ parts # {}
      alone == IF Cardinality(parts) = 1 THEN Total(sizes, parts) ELSE batch
  IN /\ Planned
     /\ shard' = [i \in Devices |->
          IF i = 0 THEN (IF onCards THEN 0 ELSE alone) ELSE (IF onCards THEN sizes[i] ELSE 0)]
     /\ speed' = Nobody /\ capacity' = Nobody /\ sizes' = Nobody
     /\ batch' = 0 /\ overflow' = 0
     /\ phase' = "check"
     /\ UNCHANGED <<version, grad, ready, step, worldVars, hotSteps, outcome>>

-----------------------------------------------------------------------------
(* The steps. *)

Ends(how) == phase' = "over" /\ outcome' = how

\* (mutant) a card at its limit is only warned about.
CheckAndWarn ==
  /\ phase = "check"
  /\ phase' = "sync"
  /\ UNCHANGED <<planVars, stepVars, worldVars, hotSteps, outcome>>

\* Before every CheckEvery-th step the cards are read; a reading that fails
\* counts as cool.
Check ==
  /\ phase = "check"
  /\ IF (step + 1) % CheckEvery = 0 /\ hot /\ sensor
     THEN Ends("hot") ELSE phase' = "sync" /\ UNCHANGED outcome
  /\ UNCHANGED <<planVars, stepVars, worldVars, hotSteps>>

\* (mutant) the replicas keep the weights they have.
SyncNothing ==
  /\ phase = "sync"
  /\ phase' = "shards" /\ ready' = {}
  /\ UNCHANGED <<planVars, shard, version, grad, step, worldVars, hotSteps, outcome>>

\* _sync_replicas: the master's weights are loaded in the other replicas.
Sync ==
  /\ phase = "sync"
  /\ version' = [i \in Devices |-> IF i \in Workers THEN version[Master] ELSE version[i]]
  /\ phase' = "shards" /\ ready' = {}
  /\ UNCHANGED <<planVars, shard, grad, step, worldVars, hotSteps, outcome>>

\* The part of the batch that is this device's.
Chunk(i) ==
  LET offset == Total(shard, {k \in Workers : k < i})
  IN (offset + 1)..(offset + shard[i])

\* A thread runs its shard: gradients are cleared, and computed again.
RunShard(i) ==
  /\ phase = "shards" /\ i \in Workers \ ready
  /\ grad' = [grad EXCEPT ![i] = Chunk(i) \X {version[i]}]
  /\ ready' = ready \cup {i}
  /\ phase' = IF ready' = Workers THEN "reduce" ELSE phase
  /\ UNCHANGED <<planVars, shard, version, step, worldVars, hotSteps, outcome>>

\* A shard raises: out of memory, or data the model cannot read.
ShardFails ==
  /\ phase = "shards"
  /\ Ends("failed")
  /\ UNCHANGED <<planVars, stepVars, worldVars, hotSteps>>

\* The gradients, each by its share of the batch, move the master's weights.
Reduce ==
  /\ phase = "reduce"
  /\ version' = [version EXCEPT ![Master] = @ + 1]
  /\ grad' = [grad EXCEPT ![Master] = {}]
  /\ step' = step + 1
  /\ hotSteps' = IF hot /\ sensor THEN hotSteps + 1 ELSE 0
  /\ phase' = "progress"
  /\ UNCHANGED <<planVars, shard, ready, worldVars, outcome>>

\* (mutant) the last step does not end the run.
ProgressOn ==
  /\ phase = "progress"
  /\ IF stopFlag THEN Ends("cancelled")
     ELSE phase' = (IF step = Steps THEN "progress" ELSE "check") /\ UNCHANGED outcome
  /\ UNCHANGED <<planVars, stepVars, worldVars, hotSteps>>

\* on_progress raises when a stop was asked for; the last step ends the run.
Progress ==
  /\ phase = "progress"
  /\ IF stopFlag THEN Ends("cancelled")
     ELSE IF step = Steps THEN Ends("completed") ELSE phase' = "check" /\ UNCHANGED outcome
  /\ UNCHANGED <<planVars, stepVars, worldVars, hotSteps>>

-----------------------------------------------------------------------------
(* What happens meanwhile. *)

Running == phase \notin {"idle", "planned", "over"}
TemperatureChanges ==
  /\ Running
  /\ hot' = ~hot /\ hotSteps' = 0
  /\ UNCHANGED <<phase, planVars, stepVars, sensor, stopFlag, outcome>>
SensorFails ==
  /\ Running /\ sensor
  /\ sensor' = FALSE /\ hotSteps' = 0
  /\ UNCHANGED <<phase, planVars, stepVars, hot, stopFlag, outcome>>
StopIsAsked ==
  /\ Running /\ ~stopFlag
  /\ stopFlag' = TRUE
  /\ UNCHANGED <<phase, planVars, stepVars, hot, sensor, hotSteps, outcome>>

TrainStep ==
  \/ TakeNext \/ Check \/ Sync \/ Reduce \/ Progress
  \/ \E cuda \in BOOLEAN : Resolve(cuda)
  \/ \E i \in Devices : RunShard(i)
TrainingNext ==
  \/ \E t \in [CardIds -> Speeds], b \in Batches, c \in [CardIds -> 0..Unlimited] : Plan(t, b, c)
  \/ TrainStep \/ ShardFails
  \/ TemperatureChanges \/ SensorFails \/ StopIsAsked

TrainingSpec == TrainingInit /\ [][TrainingNext]_trainingVars
\* execute_task runs to its end in a thread of its own.
TrainingFairness == WF_trainingVars(TrainStep)
TrainingFairSpec == TrainingSpec /\ TrainingFairness

-----------------------------------------------------------------------------
\* The plan adds up to the batch, or to what the memory of the pool holds, and no
\* card gets more than fits; where everything fits each card is within one sample
\* of its share of the throughput (poolPlanner.py plan_batch_split).
PlanIsFair ==
  LET all == Total(speed, CardIds)
      held == Total(capacity, Usable(speed))
  IN Planned =>
       /\ Usable(speed) # {} => Total(sizes, CardIds) = IF held < batch THEN held ELSE batch
       /\ \A i \in CardIds : sizes[i] <= capacity[i] /\ (speed[i] = 0 => sizes[i] = 0)
       /\ (\A i \in CardIds : capacity[i] >= batch) =>
            \A i \in Usable(speed) :
              /\ sizes[i] * all < speed[i] * batch + all
              /\ speed[i] * batch < sizes[i] * all + all

\* Whatever order the threads finish in, a step is taken from every sample of the
\* batch exactly once, all for the weights the step changes - as if one device had
\* done the whole batch (trainer.py train_step, _sync_replicas).
StepIsOfTheWholeBatch ==
  phase = "reduce" =>
    /\ UNION {grad[i] : i \in Workers} = (1..Total(shard, Workers)) \X {version[Master]}
    /\ \A i, k \in Workers : i # k => grad[i] \cap grad[k] = {}

\* A run goes on for at most CheckEvery steps on a card that is at its limit and
\* says so (trainer.py train, thermalPolicy.py).
HeatIsNoticed == hotSteps <= CheckEvery

\* A run that was planned ends, whatever its threads do, however the cards heat up
\* and whatever the sensors say (taskExecutor.py execute_task).
TrainingEnds == phase = "planned" ~> phase = "over"
=============================================================================
