# Verification of the HelloWorldAi coordinator

HelloWorldAi lends contributors' GPUs to people who want a small model trained.
A *submitter* sends a dataset and a job; the *coordinator* (FastAPI over
MongoDB, `src/src/backend/coordinator.py` and `routes/`) queues it to a
*machine*; the agent on that machine (`src/src/backend/node.py`) polls for it,
trains, and reports. This directory models that system in TLA+, checks the
models with TLC on small instances and proves the core safety properties with
TLAPS for every instance.

Line numbers below are of files under `src/src/backend/` unless they say
otherwise.

## Inventory

| Component | State | Operations | Interacts with |
|---|---|---|---|
| Task lifecycle: `routes/tasks.py`, `service/nodePicker.py` | the `tasks` collection | submit (two ways), retry, next-task (claim, peek), task-result, redispatch, cancel, task-cancelled, the sweep `requeue_stale_tasks` | reads `nodes`; called by agents and submitters |
| Node registry: `routes/nodes.py`, `connectionService`, `authNodeService`, `tokenService` | `nodes` collection **and** `connected_nodes` in memory; challenges; tokens | register, challenge and verify, heartbeat, toggle, connect, `sync_nodes_with_db`, cleanup | agents; its two copies of a node's state are reconciled every 30 s |
| Node agent: `node.py`, `service/taskExecutor.py`, `shared/nodeState.py` | session, `pending_approval`, `current_task`, `self_test`, completed jobs | poll, peek and ask, approve, decline, run, watch for a cancellation, report, self-test, heartbeat | coordinator over HTTP, its owner through the local API |
| Dataset storage: `routes/artifacts.py`, `service/retention.py` | GridFS artifacts; ids on tasks | upload, append, split, download, retention sweep, orphan sweep, storage ceiling, verification's reads | tasks point at artifacts; retries share them |
| Quotas: `service/quota.py` | none of its own: counts tasks and artifacts | check before a job, check before an upload | submit, upload |
| Accounts: `routes/auth.py`, `accountService`, `submitterService` | accounts, linked digests, sessions | sign in, link a key | retention (how long data is kept), whom a job is filed under, whose jobs may be acted on |
| Policies: `poolPlanner`, `nodeLimits`, `thermalPolicy`, `jobSpec` | none | pure functions and readings | agent, submit |
| Numerics: `trainer`, `verification`, `artifacts`, `artifactCrypto` | none | train, score, pack, encrypt | agent, coordinator |
| Pages and proxy: `app.py`, `proxypage.py`, `static/js` | browser state, timers | poll and show | agent, coordinator |
| Hardware, deployment | none | read the machine; scripts | - |

What is hard here is that **nothing is locked**. The coordinator is one event
loop, so a handler runs alone until it awaits the database; but most handlers
read a job, decide, and write it by its id alone after one or more awaits. In
between, the job may be claimed, cancelled, reported, requeued or moved. On top
of that machines crash, lose reports, answer minutes late and come back, and a
sweep takes jobs from them by age. `hazards` in `PROJECT.json` lists each place
where this bites, with the properties that watch it.

What makes each component correct:

* task lifecycle: a job is with one machine per attempt; a submitter's choice
  of machine and request to stop survive everything; only jobs that were asked
  to stop end as cancelled; nothing waits for ever. `TaskLifecycle`, `JobBoard`.
* dataset storage: data a job still needs is not deleted, data nothing needs
  is, and the ceiling deletes no more than it has to. `DatasetRetention`.
* node agent: an owner answers an offer once and keeps the mode chosen; the
  state shown and the stop flag are those of the work in hand; offers and
  rejected tokens do not stay. `NodeAgent`.
* registry: a switch the owner made is not undone; both copies of a machine's
  state come to agree with the machine (`NodeRegistry`). A key keeps its id; only
  verifications that overlap turn one challenge into a session (`NodeIdentity`).
* quotas and accounts: the limits are passed by no more than what overlaps; what
  an account sent stays in its reach. `Submissions`.
* work splitting and training: the split adds up and is fair; a step is taken
  from the whole batch; a hot card is noticed; a run ends. `TrainingRun`.
* labelled data: an index stands for the same label from the spreadsheet to the
  verdict; the machine and the verifier build the same model. `LabelledData`.

## What is modelled

### `TaskLifecycle`

The coordinator's jobs, with the contributors' machines as their environment.

| Variable | In the code |
|---|---|
| `task` | the `tasks` collection: status, `node_id`, `placement`, `attempts`, `declined_by`, `cancel_requested`; `overdue` stands for a `started_at` older than `TASK_CLAIM_TIMEOUT_MINUTES` |
| `presence` | a row of `nodes`: *open* (connected and accepting), *closed* (heartbeats within `NODE_GONE_MINUTES`, but not both), *gone* |
| `work`, `stopping`, `shown` | jobs in machines' hands, machines whose stop flag is up, jobs shown to an owner without being claimed |
| `submits`, `cancels`, `reports`, `moves` | handlers between what they read and what they write |
| `sweep` | where `requeue_stale_tasks` is, and the three lists it reads |
| `replies` | history: what submitters were told of their cancellations |

A handler is one action when it has one database operation that matters
(`Claim` is one `find_one_and_update`), and two when it reads and later writes:
the first action records what was read in the handler's set, the second writes
exactly what the update does, under exactly its filter. `submit_task_result` is
`ReportWork`/`ReportOffer` (the read and the ownership test), then `PutBack`,
`Settle`, or `Redispatch` followed by `FinishMove`, because the choice of
another machine awaits the database again. A job reported as unanswered stays
`shown` until the agent has its answer (`LoseOffer`): the owner may decline it in
between, and both reports arrive. The sweep is split at each of its reads and
writes.

Abstractions: a job is its place in the order of submission; a machine's limits
are a nondeterministic subset of the open machines; ties in `pick_node` are
broken freely (the code's tie-break by throughput and name is one of the
choices); the checks a submission makes are one read of the database, followed
by `Insert` or by `Refuse`, whatever the reason; results, logs, metrics and
artifacts are left out. Verification writes fields no property here reads.

### `JobBoard`

What the coordinator promises about its jobs, in four actions: a job is put up
once, for one machine; taken only while it is up, each time as a new attempt;
ended; put up again, elsewhere only if it is not pinned. `TaskLifecycle`
implements it under the mapping `Board` (property `IsAJobBoard`). It does not
promise that an ended job stays ended: the code does not keep that (see
*Disagreements*).

### `MCTaskLifecycle`

The instance TLC runs, and the specification without cancellations used for
liveness.

### `DatasetRetention`

What submitters upload, the halves it is cut into, the jobs and retries that
point at the halves, and the sweep `forget_finished_datasets`.

| Variable | In the code |
|---|---|
| `store` | the GridFS bucket `artifacts`, datasets and holdouts only: not written, *fresh*, *old* (`uploaded_at` before the pass's cutoff) or deleted |
| `job` | the `tasks` collection as far as retention reads it: status, `dataset_id` and `holdout_artifact_id` (always set and unset together: `data`), `submitter_id`, `retry_of`; `finished_at` twice, as the window it falls in (`age`) and as the order jobs finished in (`place`); and whether a machine has run it (`ran`), which is what lets one report it completed |
| `ends` | the clock `finished_at` is read from: one tick for each end |
| `splits`, `retries` | `_queue_task` between the split's two writes and the insert; `retry_task` between its read and its insert |
| `accounts` | the keys linked to an account |
| `verifying` | completed jobs whose background verification has not read the holdout yet |
| `sweep` | where the pass is, and what it has read: its batch with each job's `finished_at`, the owners it has looked up, the references, what the ceiling still has to free, and the job whose data it is deleting |
| `squeezed`, `late`, `restarts` | history: jobs the ceiling took, and jobs written to after they had finished; a bound |

A pass is `ReadFinished`, then for each due job `LookUp` (once per owner),
`ForgetDue`, two `DeleteHalf` and `Mark`; `ReadReferenced` and `DeleteOrphans`;
`Measure`, then for each job it takes `ForgetForSpace`, the deletes and `Mark`;
`EndPass`. Submitters, machines and verifications take steps between any two of
these, and the coordinator may restart.

Abstractions. Every blob counts one byte, so a job's data is two. A pass reads
the clock once, when it begins, so ages advance between passes only; what
becomes due during a pass is seen by the next one, as in the code. The deletes
of orphans are one step: each is decided by the list read before and by an age
that does not change, and no job comes to point at an old blob meanwhile. An
upload is submitted once; a second submission is cut into halves of its own, as
another upload's would be. `owns` and `_still_held` are one read: they read
unrelated collections. The public endpoint that repeats a verification is left
out, and so are weights, which the sweep never deletes.

Late writes. `Complete`, `End` and `Requeue` write by the job's id, whatever its
status, as `submit_task_result`, `_redispatch` and the stale-job sweep do
(`routes/tasks.py:871-877, 891-903, 945, 1173, 1186`). So a finished job whose data
went already may be queued again, and is then trained without a dataset
(`node.py:988-989` skips the download); or it may complete a second time, and be
verified against a holdout that is gone. `Written` notes in `late` each job this
happens to, and `MaxLate` bounds them. `FirstRunKeepsItsData` promises nothing of
those jobs, because the code keeps nothing; what it does say is that they take
no data from any other job: neither a retry that is written to late from its
original, nor a job that finishes again while the sweep has it in its batch. A handler's read and write are one step here; `TaskLifecycle` has them
apart and shows how the late write comes about.

### `NodeAgent`

The agent of one machine: coroutines of one event loop that share `node_info`,
`current_task`, `pending_approval` and `self_test`. A step lasts from one await
to the next.

| Variable | In the code |
|---|---|
| `token`, `mode`, `disk` | `node_info["session_token"]`, `["approval_mode"]`, and the session file |
| `beat` | the heartbeat in flight, with the token it was sent with |
| `loop`, `click` | the poll loop, and an owner's approval, between a request and its answer |
| `offer` | `pending_approval` |
| `hand`, `stage`, `told` | the two places `_run_task` runs from (the poll loop awaits it, an approval starts it beside), how far it is, and whether its watcher saw the request to stop |
| `current`, `tests`, `testing` | `current_task`, the self-test requests, `self_test["running"]` |
| `queue`, `stopAsked`, `refusedTokens` | the coordinator, as far as this machine sees it |
| `choice`, `answered`, `shared`, `abandoned`, `issued`, `unseen` | history and bounds |

`LoopClaims`/`LoopPeeks`/`LoopExpires` send the poll loop's three requests and
`LoopStarts`, `LoopOffers`, `LoopNothing`, `LoopRefused`, `LoopExpired` are what
comes of the answers; `Approve` and `Decline` are the owner's;
`Fetched` ... `ReportSent` the awaits of a run. The offer is cleared after the
expiry's refusal was answered, as in the code, so an owner's approval fits in
between. What the coordinator does to the queue is the environment's: a job is
submitted, withdrawn, or comes back (`ComesBack`: requeued by the sweep or put back
unanswered), also while this machine still runs it. `tooHot` says that a card is
at the temperature that stops work; a pass of the poll loop then ends before it
looks at the queue or at the offer (`node.py:833-837`), in `MayPoll`. `Heats` turns
it on and off at any time; in the parts `jobs` and `tests` it stays off, where the
properties are about safety and a hot card would only forbid steps. The same return for
`accept_tasks` (`node.py:828`) is left out: no code sets it to anything but its
default (`shared/nodeState.py:24`). Left out: what a run logs
and reports as progress, the lists of finished work, usage and hardware
readings, all of which decide nothing.

### `NodeRegistry`

What the coordinator knows of the machines, twice: `row` (the `nodes`
collection) and `mem` (`connected_nodes`), each with connected, available and
whether the last heartbeat is within five minutes. `register_node`,
`node_heartbeat`, `toggle_availability` and `sync_nodes_with_db` are split at
each await (`register`, `report`, `toggle`, `sync`); the sync's loop over the
memory fails when the memory grew meanwhile (`grown`, `PassAborts`). `Crash`
and `Boot` are the coordinator's restarts. `wish` and `undone` are history: what
the owner last switched to, and that one of three causes has interfered since. A
registration wrote the row, always as unavailable; the coordinator restarted
while the row did not say what the switch said; or, when the switch was
answered, an entry that says something else was already on its way to the memory
(`OlderOnItsWay`: a registration, a heartbeat or a load of the sync between its
read and its write). The flag is raised by the cause, before anything is wrong
and whether or not anything becomes wrong; no write to `mem` by a heartbeat, a
pass or a registration touches it. `MemoryKeepsTheSwitch` says that nothing else
makes an entry differ from the switch.

### `NodeIdentity`

One machine's way to an id and a session: the agent's flows
(`finalize_connection`, `trigger_background_connection`,
`background_connection_handler`), which ask for the id of the key, post the
registration and repeat it; the calls at the coordinator (`posted`), also those
the agent gave up on, each a look-up and later a write; then
`generate_challenge`, `verify_node_challenge` and the cleanup. The handler awaits
the node's row, and the write to it, between reading the challenge and dropping
it (`nodes.py:483-512`), so verifications of one challenge may overlap and each
get a token. `verifying` counts them per challenge, at most `Overlap` at once, and
`tokens` counts what came of them. A challenge is therefore not used once; what
holds, `TokensOfOneRound`, is that none is read again after its first token, also
when what that token dropped was another, newer challenge. A second id for
one key is stopped by the unique index of `routes/deps.py:118-134`; the model
has that index, while the code only logs a failure to create it.

### `Submissions`

The keys an account has linked, whom a job is filed under, whose jobs somebody
may act on, and the two quotas. A submission (`sends`) is `Send`,
`CountActive`, `CountRecent`, then `SendQueued` or `SendRefused` after the split;
an upload is `UploadChecked`, then `UploadStored` with the size of what is
stored. `Rerun` is counted by neither quota; `JobChanges` is a job that ends, or
is reopened by a late write (`TaskLifecycle`). Sizes are coarse units.

### `TrainingRun`

One job on the cards of one machine: the plan (`Plan`, then `TakeNext` for each
sample a card has no memory for), the devices it runs on (`Resolve`), and the
steps: `Check`, `Sync`, one `RunShard` per device in any order, `Reduce`,
`Progress`. A gradient is the set of samples it was computed from, each with the
version of the weights. `ShardFails`, a stop, a hot card and the last step are
the ways out. Throughputs are whole numbers, so remainders and ties are exact
where the code compares fractions in floating point.

### `LabelledData`

What a classifier's numbers mean: `Parsed` (`parse_csv_dataset`), `Merged`
(`merge_datasets`), `SplitAndQueue` (`split_holdout`, `_queue_task`), `RerunOf`
(`retry_task`, `validate_job`), `TrainRun` and `ScoreRun`, which build the model
from the half they see (`Outputs`: `infer_spec_from_dataset`). A label is a number
or a name, names being numbered in their sorted order. `said` is history: what
the files said of each row. Joined files are never stored, because the endpoint
that would do it raises (below).

### `MCComponents`

The instance TLC runs of these six. They share no variable, so their steps
commute: the first state picks a part, which runs while the others keep still,
and the state space is the sum of the parts instead of their product. A module
with several parts (`jobs`, `tests`, `session`, `offers` of the agent; `identity`,
`challenge`; `quota`, `accounts`, `uploads`) is bounded in another way in each,
because its bounds multiply.

How the modules meet: `TaskLifecycle`'s machines are the agent seen from the
coordinator (claims, losses, reports, looks), and `NodeAgent`'s queue is the
coordinator seen from the agent; `TaskLifecycle`'s `presence` is what `NodeRegistry`
keeps. Each side leaves the other free to act at any time. They are not composed
into one state space, which TLC could not exhaust, and no refinement between them
is checked.

## Runs

| Run | Instance | Shows |
|---|---|---|
| `lifecycle_machines` | 1 job, 2 machines, one with an approving owner | types; every job in flight is known and placed; one holder per attempt; requests to stop are kept; an addressed job is never moved |
| `lifecycle_jobs` | 2 jobs, 1 machine | the machine's one stop flag never makes a job end as cancelled that was not asked to |
| `lifecycle_ends` | 1 job, 2 machines that come and go, 4 claims | the coordinator implements `JobBoard`; stranded jobs are resolved; every job ends |
| `retention` | 2 jobs over a ceiling, in three parts: 2 datasets; 1 dataset with an owner and a late write; 1 dataset with an owner and a restart | types; a first submission keeps its data; the ceiling stops at its target |
| `retention_ends` | 2 jobs, 1 dataset with an owner, no ceiling, in two parts: with a late write; with a restart | what nothing points at goes; what finished jobs point at goes, unless a late write has queued one again |
| `components` | each part by itself: the agent with 2 jobs, a test and a restart; a machine with 3 registrations, switches or restarts; 2 connecting flows of 2 posts; 2 submissions, 2 uploads, 2 keys, an account; 3 cards of unequal speed, 4 steps; 4 rows of 3 labels and a re-run | the safety of the six component modules |
| `components_live` | smaller instances of the agent, the registry, the identity and the training run | what they bring about in the end |
| `finished_is_final`, `stopped_is_stopped`, `taken_from_gone`, `data_never_goes`, `rerun_loses_data` | as small as shows it | the first five disagreements below |

Bounds. `MaxTasks`, `AttemptCap` and `MaxInFlight` stop counters the code does
not bound; with two machines, one handler in flight beside the sweep, the agents
and an owner, each pair of writers the code has can interleave. `MaxAttempts` is
2 where the code has 3: what matters is that there is a claim that is not the
last one. `AttemptCap` is 4 in the liveness run, more than `MaxAttempts`, so
that no job is left unclaimed by the bound. `StaleBatch` and `OrphanBatch`
are 2, as large as the number of jobs. `CHECK_DEADLOCK` is off: a model with a
bounded number of jobs stops when they have all ended.

For retention: two jobs are a job and its retry, or two jobs that compete for a
batch, a rank or the ceiling; one dataset more than the store may hold needs two
datasets. `MaxInFlight` is one submission or retry beside the sweep; two
submissions do not touch one another's data. `KeepPerOwner` is 1 where the code
has 10, `BatchSize` 2 where the code has 100: as large as the number of jobs,
except in `data_never_goes`, whose point is a batch that is full. `MaxLate` is 1:
one of the two jobs, the original or the retry, is written to once after its end,
and the other is the one whose data is at stake. The bounds multiply, so
`MCDatasetRetention` has parts, as `MCComponents` has: the first state picks one, and
a part is the set of what occurs in it (a second dataset, owners, late writes,
restarts). The two violation runs have parts without late writes, so that what they
show is due to the batch and to the retry. `Ceiling` and `Target` are both two blobs:
the 90 % of `RECLAIM_TO` is less than a blob below, and a pass may then stop with
jobs left, the boundary that matters. What two datasets, owners, late writes and
restarts do together is left to the proofs.

For the components: two works are enough to meet on one current task, and the
second job, the self-test and the approval are the three ways to start one.
Three events of the registry are a registration, a switch and a switch back or
a restart; one machine, since a pass treats them one after the other and other
machines matter only as newcomers in memory (`Newcomer`). Two flows of two posts
give four calls of `register_node`, more than the two that have to overlap, and
`NodeIds` is as large. `Overlap` is 2, the fewest verifications that meet on one
challenge. `ActiveJobs` and `JobsPerHour` are 1 and two submissions
overlap: the limit is passed by exactly the one that the property allows.
Three cards have a remainder to hand out between two others; `Unlimited` is the
largest batch, so a capacity below it does bind. Four steps with a check every
second one are two checks. Four rows are the fewest that are split.
`MaxLabel` 2 gives a class that is in one half only.

Fairness, in `lifecycle_ends`, `retention_ends` and
`data_never_goes` only. The sweep's steps are weakly fair: it is a loop that catches its errors and sleeps (`routes/tasks.py:1163-1246`). A handler
in flight gets its answer from the database. A machine that is open polls
(`node.py:1119-1127`), strongly fair because a machine that keeps dropping out
polls every few seconds between its heartbeats. This assumes more than the loop
does: that such a machine does not find a card too hot, or a self-test running,
at each of its polls (`node.py:830-837`). `EveryJobEnds` rests on it;
`StrandedIsResolved` is checked under the sweep's fairness alone. A job in a
machine's hands is reported or lost. Nothing makes a machine come back, an owner answer, or a
submitter do anything. In `DatasetRetention` the sweep is the same kind of loop
(`routes/artifacts.py:272-322`), a submission being prepared and a verification
get their answers, and time passes whenever the sweep sleeps: strongly fair,
since between two passes it does not sleep long enough every time. A restart
may happen once.

In `components_live`: the agent's coroutines are not starved, what it awaits has a
timeout, a run and a test end, a heartbeat is sent every minute and answered now
and then (strongly fair, since any one of them may be lost). The registry's
handlers and sync go on while the coordinator runs, a coordinator that ran once
is started again, and time passes (strongly fair: a machine's row ages whenever
nothing renews it). A flow's waits have timeouts. Training runs in a thread of
its own. Of the registry, each kind of handler is fair by
itself: a machine's heartbeats go on whatever its owner's switches do. Nothing
makes an owner answer or switch, a machine be on, a call reach the coordinator, a
sensor work or a card cool down. The poll loop's steps are fair only while they are
possible, which is while no card is too hot; so `OfferIsWithdrawn` is stated of
an agent that is not too hot again and again, and an unanswered offer does stay
with one that is.

Each property has a mutant of a definition of its module (named `Mutant:` or
marked `(mutant)` in the module) under which its run fails.

## Disagreements between the code and what it says

* **Finished is not final** (`finished_is_final`). `routes/deps.py:349` says of
  the finished states that nothing more will happen to a task in one of them. A
  machine is shown a job, its submitter cancels it, and the machine's late
  "nobody answered" writes `pending` over `cancelled`: it runs after all.
* **Told stopped, still running** (`stopped_is_stopped`). `cancel_task` answers
  `stopped: True` without looking at whether its filtered update matched. If
  the job was claimed meanwhile, it runs to its end and nothing on it says its
  submitter wanted otherwise.
* **Taken from machines that did not go away** (`taken_from_gone`). The sweep
  looks only at `started_at`, which nothing renews: a job longer than ten
  minutes is requeued, and then failed with "node stopped responding", while
  its machine is connected and works on it.
* **Data that never goes** (`data_never_goes`). `_forget_dataset` marks a job
  only if it deleted something (`artifacts.py:89`). A job whose halves are gone
  already - a restart fell between the deletes and the mark, or a retry that
  shares them went first - is never marked, and is read again by every pass. The
  batch of 100 is unsorted: a hundred such jobs, and the due jobs behind them
  are never reached. `retention_ends` shows that with room in the batch the data
  does go.
* **A re-run loses its data** (`rerun_loses_data`). The sweep deletes the halves
  of a finished job without asking whether a retry waits for them
  (`artifacts.py:62-97`); the retry then fails on the machine. What the code does
  keep, and `FirstRunKeepsItsData` states, is the data of first submissions that no
late write has reached.

Five more were met while modelling; no run is about them, since the models
have them as the code does and the properties are stated beside them:

* **A spreadsheet dataset cannot grow.** `parse_csv_dataset` returns five values;
  `_convert_upload` (`routes/artifacts.py:343`) takes three and raises an error
  nothing catches. Appending a CSV answers 500. `LabelledData` joins files as
  `merge_datasets` and its tests do, and never stores the result.
* **A self-test takes no CSV.** `run_self_test` (`node.py:613`) does the same, and
  answers 400 to any body, against its docstring (`node.py:587`).
* **A changed re-run forgets how many classes there are.** `_queue_task` counts
  them "on the whole dataset before it is split" so that "the two sides agree"
  (`routes/tasks.py:261-263`). `retry_task` with changes goes through
  `validate_job`, which drops the number, and puts back only `seq_len` and
  `vocab_size` (`tasks.py:657`): the two sides count their halves. Numeric labels
  are never counted. `NamedWorkFits` is about named labels and unchanged re-runs.
* **A restart may turn asking off.** `load_session` restores the approval mode
  only together with a token (`node.py:135`), against "nothing starts without
  you" (`src/src/frontend/template/setup.html:114`).
* **Another job than the approved one.** `approve_task` claims the oldest job of
  that moment (`node.py:329-331`); the one that was shown may be gone, or an older
  one may have come back.

Smaller ones, where the code is modelled as it is: after a failed fetch
`current_task` says running until the next job (`abandoned`); a late answer to an
old token's heartbeat drops the new token (`BeatAnswered`); a machine that
registers again becomes unavailable, whatever its owner had switched (`undone`); a
challenge answered twice at once gives two tokens (`Verified`); a finished job that
is queued again late may run without its data (`late`); a card's failed reading
hides the cards after it (`service/thermalPolicy.py:116-162`: one handler around the
whole loop), so `HeatIsNoticed` is about a sensor that reads the hot card; a
signed-in account without a key files its jobs under nobody; re-runs are not
counted by the quotas; the byte quota checks the size of the request, not of what
is stored.

## Proofs

`TaskLifecycleProofs` proves, for any set of machines and any value of the
other constants:

* `TypeCorrect`, `JobsAreKnown` - a job always has a machine, and whatever is in
  flight is about a job that was inserted;
* `OneHolder`, `StopRequestsAreKept`, `ChosenMachineIsKept`;
* `CancelledAreAsked` - from the assumption that no machine's owner approves
  jobs by hand (`Askers = {}`), which is the property's own scope;
* `ImplementsJobBoard` - every step is a step of the board or a stutter.

They assume what the module assumes of its constants (`NodeAssumption`,
`PresenceAssumption`, `BoundAssumption`) and nothing else.

The argument. `TypeOK` alone is not inductive: the sweep copies a pending job's
machine into its list, which is a machine only if every inserted job has one;
and that holds only if a redispatch in flight is of a job the coordinator may
move. `Known` is these three together (`TypeOK`, `JobsKnown`, `MovesAreAuto`),
and each is needed for the next. The other invariants rest on one
classification of what a step may do to a job (`StepWrites`): it is kept,
inserted, rewritten, marked or taken, and only `Claim` takes. `OneHolder` adds
that an attempt in some machine's hands has been counted (`AttemptsCounted`), so
a new claim's number is new. `CancelledAreAsked` adds a chain: a mark on a job
was asked for, hence a raised flag was (a machine has one job in hand), hence a
report that says cancelled was, hence the end was. `ImplementsJobBoard` adds
that a step writes to one job (`OneAtATime`) and that a job not yet inserted
has no attempts.

`DatasetRetentionProofs` proves, for any owners, any numbers of datasets and
jobs, and any limits (from `NameAssumption` and `BoundAssumption`):

* `RetentionTypeCorrect`. Types need one fact beside themselves: no job counts
  more than its two halves as removed (`RemovedBounded`).
* `CeilingStops`: from `CeilingCounts`, what is left to free is never more than
  what the store holds above the target, where a deletion that has happened but
  is not counted yet makes up for itself.
* `FirstRunsKeepTheirData`: the invariant `KeepInv`, with late writes to any
  number of jobs. Halves can be deleted for the job itself, for a retry that
  shares them, or as orphans. The first two need the job finished, and then in
  order: jobs age in the order they finish, and a job that finishes again comes
  last (`FinishedInOrder`); a retry exists only after its original's end
  (`SharedAfterTheEnd`); what the sweep has in hand is, or was when the batch was
  read, due or oldest for every first submission that shares the data
  (`SweepIsInOrder`, which speaks of the `finishedAt` the pass read, because the
  jobs may have finished again since); and a job being verified is young
  (`VerifyingIsYoung`). So a retry is never taken before the original could be,
  even if the retry is written to late. The third needs that halves being
  prepared are new and known to nobody (`SplitsAreNew`), and that a blob some
  first submission points at was listed or is fresh (`OrphansAreNobodys`). That a
  report is only of a job that was queued is `RunsWereQueued`. Each part is
  proved inductive from the others.

`NodeAgentProofs` (any jobs and bounds): `AgentTypeCorrect`,
`OwnerAnswersOnceCorrect`, `OwnersChoiceIsKeptCorrect`, `BusyIsOccupiedCorrect`,
`StopIsItsOwnCorrect`. A test that starts was waiting, so the requests never
outnumber those made (`TestsCounted`, without which the counters have no type). An
offer still there was not answered (`OfferInv`). The last two rest on
`MachineInv`: while no two works met, at most one has the machine (`OneHasIt`),
the flag is up exactly if its watcher saw a request, and what a watcher saw was
asked for.

`NodeProofs`, of `NodeRegistry` (any machines, any number of events): `RegistryTypeCorrect`
and `MemoryKeepsTheSwitchCorrect`, from `SwitchInv`: unless one of the causes above
has occurred, whatever is on its way to the memory says what the switch says, or is
of a switch still half way, and the row does so too where there is no entry. A
handler or a pass that writes a row or an entry read it before; that it still
exists is `RowsStay`: no step removes a row, so whoever waits with one waits with
one that is there.

The same module, of `NodeIdentity` (any flows, retries and bounds): `IdentityTypeCorrect`,
`IdentityIsKeptCorrect`, `TokensOfOneRoundCorrect`. A row, once there, is written
again only with its own id, because a second one breaks the index; challenges are
numbered as they are made, and none is read or has a token before it is made
(`ChallengeInv`); so the outstanding one has none, the first token of any challenge
removes whichever is outstanding, and from then on only verifications already in
flight can add to its tokens.

`SubmissionsProofs` (any keys, accounts and limits, any finite sets of senders and
uploaders): `SubmissionsTypeCorrect`; `SentWorkIsInReachCorrect`, from the lists of
keys only growing (`ReachInv`); `JobQuotaHoldsCorrect`, from `QuotaInv`: the jobs of a
key together with its submissions that were counted already are at most the
limit plus the other senders - a submission that passes the count adds itself
to those under way and the number of senders is what bounds them; and
`ByteQuotaHoldsCorrect`, the same with sizes.

`TrainingRunProofs` (any cards, throughputs, batches, steps and interval):

* `PlanIsFairCorrect`. The split gives every card the floor of its share and the
  samples left over one each, by largest remainder. That it adds up is the chain
  `TotalDivided` (quotients and remainders add up, so what is left is the
  remainders' sum over the throughput), `FewAreLeft` (hence fewer samples than
  usable cards), `LeftOversAreOrdered` (the order of the remainders, ties by
  speed and place, is total) and `FirstOnes` (so exactly that many cards have
  fewer than that many before them): `BatchIsApportioned`. `PlanInv` then carries
  the sum through the cut to the memory and each sample that is handed on: what
  is on the cards and what is still over are the batch.
* `StepIsOfTheWholeBatchCorrect`. `ChunksFillTheBatch`: the parts the devices
  take by their offsets follow one another without gap or overlap. `StepInv`:
  from `Sync` to `Reduce` every device that takes part has the master's version,
  and a device that is done has the gradients of its part for that version; the
  step begins when all are done.
* `TrainingTypeCorrect`, with both (`TrainingInv`); the version of the weights
  never passes the steps taken, which is what bounds it.
* `HeatIsNoticedCorrect`, from `HeatInv`: the steps taken on a hot card are at most
  one more than those since the last check, and none are left when a step that
  was checked begins.

Sums are folds over finite sets (`Total`), and what they add up to needs
induction. The library's induction rules take a predicate, which the provers
cannot instantiate; `NaturalsOneByOne` and `SubsetsOneByOne` state the same with a
*set* of good numbers or good subsets in its place, from the well-foundedness of
`<` and of strict inclusion (`WFMin`), and are proved and used like any other lemma.
`TotalEmpty`, `TotalTakeOne`, `TotalCompared` and `TotalWithOneMore` are all that the
rest knows of sums.

`LabelledDataProofs` (any labels, files, rows, caps and numbers of re-runs):

* `LabelsKeepTheirMeaningCorrect`. Every finite set of labels can be sorted
  (`SortedIsThere`: the number of smaller ones, plus one, is a bijection to its
  positions), so every name of a file has an index (`NameHasAnIndex`); names that
  are joined stay without repetition, with the old ones where they were
  (`JoinedNames`). `DataFits` is what a file that was read has (`ParsedFits`), what
  two joined ones keep (`MergedFits`), and implies the property.
* `NamedWorkFitsCorrect`, from `RunFits`: an unchanged run states as many outputs as
  there are names, no index asks for more, so whatever rows either side has, the
  largest of them is what was stated (`StatedIsEnough`).
* `LabelsTypeCorrect`, with both (`LabelsInv`): the holdout is neither empty nor
  everything (`SomeAreHeldBack`), there are no more names than labels
  (`NamesAreFew`).

TLC checked both inductive invariants on the instance of `components` before they
were proved. `Sorted` is chosen by what sorting promises rather than by the
library's `SetToSortSeq`, whose definition the provers cannot expand.

`ComponentsProofs` is about the instance itself: `PartsAreComponents` shows that
every behaviour of `ComponentsSpec` is one of each of the six specifications, so
the theorems above hold of what TLC runs - `ComponentsTypeCorrect` and
`ComponentsAreSafe` conclude every invariant of the run `components`, for every
value of the constants. `OneHolder` and its neighbours do the same for the runs of
`TaskLifecycle`, and the theorems of `DatasetRetentionProofs` for
`retention`.

Only model-checked: every liveness property (`StrandedIsResolved`, `EveryJobEnds`,
`UnusedDataGoes`, `FinishedDataGoes` and the seven of `components_live`), which
rest on fairness and so are out of TLAPS's reach. Every safety property of a
passing run is proved.

## Not modelled

* The arithmetic of training and scoring, text datasets, packing and
  encryption: data that TLC cannot enumerate usefully, with nothing to interleave.
* `nodeLimits` and the field-by-field checks of `jobSpec`: bounds on one number
  each, which the repository's tests enumerate. What `validate_job` drops is in
  `LabelledData`.
* Exporting and sampling a finished model (`modelops`, `modelBundle`,
  `modelManifest`): read-only. The listings and statistics of every route, likewise.
* The exchange with GitHub and the signatures and expiry of cookies and tokens: a
  session is an account, a token is valid until the coordinator rejects it.
* Hardware detection and usage: readings of the machine, and string matching.
* The proxy, the pages and their polling (`app.py`, `proxypage.py`, `static/js`):
  they keep no state that another part reads; two pages of one owner are two
  flows of `NodeIdentity` and overlapping answers in `NodeAgent`.
* The legacy `POST /receive-task-result` (`routes/tasks.py:97-133`): nothing in the
  repository calls it, and it inserts a document of its own, which only the
  listings would show unless it were made to look like a queued job.
* Deployment scripts, run by hand.
* Database errors: every operation happens, or its caller is lost with it. The one
  exception is the unique index, whose violation is an answer.
