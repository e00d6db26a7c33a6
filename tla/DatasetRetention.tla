-------------------------- MODULE DatasetRetention --------------------------
(***************************************************************************)
(* The data behind jobs: what submitters upload, the training and holdout  *)
(* halves the coordinator cuts it into, the jobs that point at the halves, *)
(* and the sweep that deletes what is no longer kept (routes/artifacts.py, *)
(* service/retention.py).                                                  *)
(*                                                                         *)
(* The sweep and the request handlers share one event loop and one         *)
(* database.  The sweep's pass is cut at its awaits: between two of its    *)
(* steps jobs are submitted, run, finish, are verified and run again.      *)
(*                                                                         *)
(* Time is only read when a pass begins (its "now" and its cutoff), so     *)
(* ages advance only between passes; what becomes due during a pass is     *)
(* seen by the next one.  Every stored blob counts one byte.               *)
(***************************************************************************)
EXTENDS Integers, FiniteSets

CONSTANTS
    MaxData,      \* bound: how many datasets are ever uploaded
    MaxJobs,      \* bound: how many jobs are ever queued
    Owner,        \* the submitters who sent a key
    NoOwner,      \* "no key": a job nobody can claim
    NoData,       \* what a job points at when its data has been forgotten
    NoJob,        \* "no job": a first submission is a retry of none
    BatchSize,    \* how many finished jobs a pass reads (100 in the code)
    KeepPerOwner, \* KEEP_PER_OWNER
    RankLimit,    \* how many of an owner's jobs are ranked (200 in the code)
    Ceiling,      \* STORAGE_CEILING_BYTES, 0 for none
    Target,       \* RECLAIM_TO of the ceiling
    MaxInFlight,  \* bound: how many submissions and retries are between two steps
    MaxLate,      \* bound: how many jobs are written to after they have finished
    MaxRestarts   \* bound: how often the coordinator restarts

ASSUME NameAssumption ==
    /\ NoOwner \notin Owner
    /\ NoData \notin Nat
    /\ NoJob \notin Nat
ASSUME BoundAssumption ==
    /\ {MaxData, MaxJobs} \subseteq Nat \ {0}
    /\ {BatchSize, KeepPerOwner, RankLimit, Ceiling, Target, MaxInFlight,
        MaxLate, MaxRestarts} \subseteq Nat
    /\ Target <= Ceiling

Data == 1..MaxData
Job == 1..MaxJobs           \* in the order they were inserted
Half == {"train", "holdout"}
Artifact == Data \X ({"upload"} \union Half)
HalvesOf(d) == {d} \X Half

(* How long ago a job finished: less than SHORT_MINUTES, less than         *)
(* LONG_MINUTES, or longer.                                                *)
Age == {"young", "short", "long"}
Unfinished == {"queued", "training"}
Finished == {"completed", "ended"}      \* ended: failed, rejected or cancelled

VARIABLES
    store,      \* the bucket: each blob, and whether it is past SHORT_MINUTES
    job,        \* the tasks collection
    ends,       \* the clock finished_at is read from
    splits,     \* submissions being prepared: what each has written so far
    retries,    \* retries between their read of the original and the insert
    accounts,   \* the owners whose key is linked to an account
    verifying,  \* completed jobs whose holdout has not been read yet
    sweep,      \* forget_finished_datasets
    squeezed,   \* history: jobs whose data the storage ceiling took
    late,       \* history: jobs written to after they had finished
    restarts

vars == <<store, job, ends, splits, retries, accounts, verifying, sweep, squeezed, late,
          restarts>>
tasks == <<job, ends, late>>
clients == <<splits, retries, accounts, verifying>>
notes == <<squeezed, restarts>>

JobRecord ==
    [status : {"absent"} \union Unfinished \union Finished, data : Data \union {NoData},
     owner : Owner \union {NoOwner}, of : Job \union {NoJob},
     age : Age, place : Nat, ran : BOOLEAN]
Retry == [of : Job, data : Data, owner : Owner \union {NoOwner}]
Forgetting == [job : Job, step : Half \union {"mark"}, removed : 0..2]
Sweep ==
    [at : {"asleep", "judging", "orphans", "measuring", "ceiling"},
     batch : SUBSET Job, finishedAt : [Job -> Age \X Nat],
     known : SUBSET (Owner \union {NoOwner}), referenced : SUBSET Artifact, toFree : Int, forget : SUBSET Forgetting]

TypeOK ==
    /\ store \in [Artifact -> {"unwritten", "fresh", "old", "deleted"}]
    /\ job \in [Job -> JobRecord]
    /\ ends \in Nat
    /\ splits \in [Data -> {"none", "train", "holdout"}]
    /\ retries \subseteq Retry
    /\ accounts \subseteq Owner
    /\ verifying \subseteq Job
    /\ sweep \in Sweep
    /\ squeezed \subseteq Job
    /\ late \subseteq Job
    /\ restarts \in 0..MaxRestarts

-----------------------------------------------------------------------------
(* Queries.                                                                *)

Held(a) == store[a] \in {"fresh", "old"}
Stored == Cardinality({a \in Artifact : Held(a)})
IsUnfinished(t) == job[t].status \in Unfinished
IsFinished(t) == job[t].status \in Finished
HasData(t) == IsFinished(t) /\ job[t].data # NoData

First(S) == {t \in S : \A u \in S : t <= u}
FirstOf(S, k) == {t \in S : Cardinality({u \in S : u < t}) < k}
Room == Cardinality({d \in Data : splits[d] # "none"}) + Cardinality(retries) < MaxInFlight
Unused == {t \in Job : job[t].status = "absent"}

(* _still_held: the owner's finished jobs that still have data, newest     *)
(* first, as far as the list goes; a job that is not on it ranks first.    *)
Newer(t) == {u \in Job : HasData(u) /\ job[u].owner = job[t].owner /\ job[u].place > job[t].place}
Rank(t) ==
    IF job[t].owner = NoOwner \/ ~ HasData(t) \/ Cardinality(Newer(t)) >= RankLimit
    THEN 0 ELSE Cardinality(Newer(t))

(* Mutant: an account keeps its data for good. *)
ForgetUnlessOwned(t) == Rank(t) >= KeepPerOwner \/ job[t].owner \notin accounts

(* should_forget.  Only jobs past SHORT_MINUTES are ever asked about, and   *)
(* when they finished is what the batch was read with.                     *)
ShouldForget(t) ==
    \/ Rank(t) >= KeepPerOwner
    \/ job[t].owner \notin accounts
    \/ sweep.finishedAt[t][1] = "long"

-----------------------------------------------------------------------------
NotQueued ==
    [status |-> "absent", data |-> NoData, owner |-> NoOwner, of |-> NoJob,
     age |-> "young", place |-> 0, ran |-> FALSE]

(* When the jobs of a batch had finished by the time it was read: a report *)
(* may since have written to one of them.                                  *)
FinishedAt(S) == [t \in Job |-> IF t \in S THEN <<job[t].age, job[t].place>> ELSE <<"young", 0>>]
Asleep ==
    [at |-> "asleep", batch |-> {}, finishedAt |-> FinishedAt({}), known |-> {},
     referenced |-> {}, toFree |-> 0, forget |-> {}]

Init ==
    /\ store = [a \in Artifact |-> "unwritten"]
    /\ job = [t \in Job |-> NotQueued]
    /\ splits = [d \in Data |-> "none"]
    /\ retries = {} /\ accounts = {} /\ verifying = {}
    /\ sweep = Asleep
    /\ ends = 0 /\ squeezed = {} /\ late = {} /\ restarts = 0

-----------------------------------------------------------------------------
(* Submitters.                                                             *)

(* upload_artifact and append_to_artifact: either way a new blob, and its  *)
(* id the next one.                                                        *)
Upload(d) ==
    /\ d \in First({e \in Data : store[<<e, "upload">>] = "unwritten"})
    /\ store' = [store EXCEPT ![<<d, "upload">>] = "fresh"]
    /\ UNCHANGED <<tasks, clients, sweep, notes>>

(* prepare_dataset_split reads the upload, without which the job is        *)
(* refused, and writes the training half.  An upload is submitted once: a  *)
(* second submission of it would be cut into halves of its own.            *)
WriteTrain(d) ==
    /\ Room
    /\ Held(<<d, "upload">>)
    /\ store[<<d, "train">>] = "unwritten"
    /\ store' = [store EXCEPT ![<<d, "train">>] = "fresh"]
    /\ splits' = [splits EXCEPT ![d] = "train"]
    /\ UNCHANGED <<tasks, retries, accounts, verifying, sweep, notes>>

WriteHoldout(d) ==
    /\ splits[d] = "train"
    /\ store' = [store EXCEPT ![<<d, "holdout">>] = "fresh"]
    /\ splits' = [splits EXCEPT ![d] = "holdout"]
    /\ UNCHANGED <<tasks, retries, accounts, verifying, sweep, notes>>

Queued(d, o, t) ==
    [status |-> "queued", data |-> d, owner |-> o, of |-> t, age |-> "young", place |-> 0,
     ran |-> FALSE]

(* The insert at the end of _queue_task. *)
InsertJob(d, o) ==
    /\ splits[d] = "holdout"
    /\ \E t \in First(Unused) : job' = [job EXCEPT ![t] = Queued(d, o, NoJob)]
    /\ splits' = [splits EXCEPT ![d] = "none"]
    /\ UNCHANGED <<store, ends, late, retries, accounts, verifying, sweep, notes>>

(* The split fails, or the data's format does not suit the model: what was *)
(* written stays, and nothing points at it.                                *)
Refuse(d) ==
    /\ splits[d] # "none"
    /\ splits' = [splits EXCEPT ![d] = "none"]
    /\ UNCHANGED <<store, tasks, retries, accounts, verifying, sweep, notes>>

(* retry_task: the original is read once, and the retry is given the same  *)
(* halves.                                                                 *)
ReadOriginal(t) ==
    /\ Room
    /\ HasData(t)
    /\ retries' = retries \union {[of |-> t, data |-> job[t].data, owner |-> job[t].owner]}
    /\ UNCHANGED <<store, tasks, splits, accounts, verifying, sweep, notes>>

InsertRetry(r) ==
    /\ \E t \in First(Unused) : job' = [job EXCEPT ![t] = Queued(r.data, r.owner, r.of)]
    /\ retries' = retries \ {r}
    /\ UNCHANGED <<store, ends, late, splits, accounts, verifying, sweep, notes>>

RefuseRetry(r) ==
    /\ retries' = retries \ {r}
    /\ UNCHANGED <<store, tasks, splits, accounts, verifying, sweep, notes>>

(* Signing in links the browser's key: its data is kept for longer. *)
Link(o) ==
    /\ accounts' = accounts \union {o}
    /\ UNCHANGED <<store, tasks, splits, retries, verifying, sweep, notes>>

-----------------------------------------------------------------------------
(* Machines.                                                               *)

(* A report, and a requeue from a list read before, are written by the     *)
(* job's id alone: they find the job whatever has become of it.  The bound *)
(* is on the jobs that had finished by then.                               *)
Written(t) ==
    /\ IsFinished(t) => t \notin late /\ Cardinality(late) < MaxLate
    /\ late' = IF IsFinished(t) THEN late \union {t} ELSE late

(* Which finished job is newest: finished_at. *)
Finish(t, status) ==
    /\ job' = [job EXCEPT ![t] =
                 [job[t] EXCEPT !.status = status, !.age = "young", !.place = ends + 1]]
    /\ ends' = ends + 1

(* The machine downloads the training half, or reports the job failed.  A  *)
(* job that points at no data is run without.                              *)
Fetch(t) ==
    /\ job[t].status = "queued"
    /\ IF job[t].data # NoData => Held(<<job[t].data, "train">>)
       THEN /\ job' = [job EXCEPT ![t] = [job[t] EXCEPT !.status = "training", !.ran = TRUE]]
            /\ UNCHANGED ends
       ELSE Finish(t, "ended")
    /\ UNCHANGED <<store, late, clients, sweep, notes>>

(* The machine was lost, gave the job back or did not answer.  When the    *)
(* job finished is left in place: only of finished jobs is it ever asked.  *)
Requeue(t) ==
    /\ job[t].status \notin {"absent", "queued"}
    /\ Written(t)
    /\ job' = [job EXCEPT ![t].status = "queued"]
    /\ UNCHANGED <<store, ends, clients, sweep, notes>>

(* A report with weights, of any machine that has had the job: the         *)
(* verification is started in the background if there is a holdout.        *)
Complete(t) ==
    /\ job[t].ran
    /\ Written(t)
    /\ Finish(t, "completed")
    /\ verifying' = IF job[t].data # NoData THEN verifying \union {t} ELSE verifying
    /\ UNCHANGED <<store, splits, retries, accounts, sweep, notes>>

(* Any other end: a failure, a refusal or a cancellation. *)
End(t) ==
    /\ job[t].status # "absent"
    /\ Written(t)
    /\ Finish(t, "ended")
    /\ UNCHANGED <<store, clients, sweep, notes>>

(* verify_task reads the holdout, and from then on needs it no more. *)
ReadHoldout(t) ==
    /\ t \in verifying
    /\ verifying' = verifying \ {t}
    /\ UNCHANGED <<store, tasks, splits, retries, accounts, sweep, notes>>

-----------------------------------------------------------------------------
(* Time.  Preparing a submission and beginning a verification take less    *)
(* than SHORT_MINUTES.                                                     *)

StoreAges(d) ==
    /\ sweep.at = "asleep"
    /\ splits[d] = "none"
    /\ \E a \in Artifact : a[1] = d /\ store[a] = "fresh"
    /\ store' = [a \in Artifact |-> IF a[1] = d /\ store[a] = "fresh" THEN "old" ELSE store[a]]
    /\ UNCHANGED <<tasks, clients, sweep, notes>>

(* Of two finished jobs the one that finished first is no younger, and a   *)
(* job's data was stored before it finished.  The long window is only ever *)
(* asked of a job with an owner.                                           *)
BecomesOlder(t, younger, older) ==
    /\ job[t].age = younger
    /\ older = "long" => job[t].owner # NoOwner
    /\ \A u \in Job : IsFinished(u) /\ job[u].place < job[t].place /\ job[u].age = younger
         => younger = "short" /\ job[u].owner = NoOwner
    /\ job' = [job EXCEPT ![t].age = older]

JobAges(t) ==
    /\ sweep.at = "asleep"
    /\ IsFinished(t) /\ t \notin verifying
    /\ job[t].data # NoData => \A a \in HalvesOf(job[t].data) : store[a] # "fresh"
    /\ BecomesOlder(t, "young", "short") \/ BecomesOlder(t, "short", "long")
    /\ UNCHANGED <<store, ends, late, clients, sweep, notes>>

-----------------------------------------------------------------------------
(* The sweep: finished jobs that are due.                                  *)

Idle == sweep.forget = {}

ReadFinished ==
    /\ sweep.at = "asleep"
    /\ LET due == FirstOf({t \in Job : HasData(t) /\ job[t].age # "young"}, BatchSize)
       IN  sweep' = [sweep EXCEPT !.at = "judging", !.batch = due, !.finishedAt = FinishedAt(due)]
    /\ UNCHANGED <<store, tasks, clients, notes>>

(* The first job of an owner in the batch: whether the owner has an        *)
(* account and how the owner's jobs rank is asked once, and decides about  *)
(* all of them.                                                            *)
LookUp(t) ==
    /\ sweep.at = "judging" /\ Idle
    /\ t \in First(sweep.batch)
    /\ job[t].owner \notin sweep.known
    /\ sweep' = [sweep EXCEPT
         !.known = @ \union {job[t].owner},
         !.batch = {u \in @ : job[u].owner = job[t].owner => ShouldForget(u)}]
    /\ UNCHANGED <<store, tasks, clients, notes>>

Forget(t) == {[job |-> t, step |-> "train", removed |-> 0]}

ForgetDue(t) ==
    /\ sweep.at = "judging" /\ Idle
    /\ t \in First(sweep.batch)
    /\ job[t].owner \in sweep.known
    /\ sweep' = [sweep EXCEPT !.batch = @ \ {t}, !.forget = Forget(t)]
    /\ UNCHANGED <<store, tasks, clients, notes>>

-----------------------------------------------------------------------------
(* _forget_dataset.                                                        *)

NextStep(step) == IF step = "train" THEN "holdout" ELSE "mark"

(* One of the two deletes.  Deleting what is not there raises, and is      *)
(* passed over.                                                            *)
DeleteHalf(f) ==
    /\ f.step \in Half
    /\ LET d == job[f.job].data
           a == <<d, f.step>>
           there == Held(a)
       IN  /\ store' = IF there THEN [store EXCEPT ![a] = "deleted"] ELSE store
           /\ sweep' = [sweep EXCEPT !.forget =
                {[job |-> f.job, step |-> NextStep(f.step),
                  removed |-> IF there THEN f.removed + 1 ELSE f.removed]}]
    /\ UNCHANGED <<tasks, clients, notes>>

(* Mutant: that the data is gone is written over how the job ended. *)
MarkAsStatus(f) ==
    /\ f.step = "mark"
    /\ job' = IF f.removed > 0 THEN [job EXCEPT ![f.job].status = "forgotten"] ELSE job
    /\ sweep' = [sweep EXCEPT !.forget = {},
         !.toFree = IF sweep.at = "ceiling" THEN @ - f.removed ELSE @]
    /\ UNCHANGED <<store, ends, late, clients, notes>>

(* Mutant: what was freed is not counted. *)
MarkUncounted(f) ==
    /\ f.step = "mark"
    /\ job' = IF f.removed > 0 THEN [job EXCEPT ![f.job].data = NoData] ELSE job
    /\ sweep' = [sweep EXCEPT !.forget = {}]
    /\ UNCHANGED <<store, ends, late, clients, notes>>

(* The job is marked only if something was deleted.  On behalf of the      *)
(* ceiling, what was deleted counts towards what it has to free.           *)
Mark(f) ==
    /\ f.step = "mark"
    /\ job' = IF f.removed > 0 THEN [job EXCEPT ![f.job].data = NoData] ELSE job
    /\ sweep' = [sweep EXCEPT !.forget = {},
         !.toFree = IF sweep.at = "ceiling" THEN @ - f.removed ELSE @]
    /\ UNCHANGED <<store, ends, late, clients, notes>>

-----------------------------------------------------------------------------
(* The sweep: blobs nothing points at, and the storage ceiling.            *)

Referenced == UNION {HalvesOf(job[t].data) : t \in {u \in Job : job[u].data # NoData}}

ReadReferenced ==
    /\ sweep.at = "judging" /\ Idle /\ sweep.batch = {}
    /\ sweep' = [sweep EXCEPT !.at = "orphans", !.known = {}, !.finishedAt = FinishedAt({}),
         !.referenced = Referenced]
    /\ UNCHANGED <<store, tasks, clients, notes>>

(* Mutant: a blob nothing points at is deleted however new it is. *)
OrphanedAnyAge(a) == Held(a) /\ a \notin sweep.referenced
(* Mutant: originals are not looked at. *)
OrphanedHalf(a) == store[a] = "old" /\ a \notin sweep.referenced /\ a[2] # "upload"
Orphaned(a) == store[a] = "old" /\ a \notin sweep.referenced

DeleteOrphans ==
    /\ sweep.at = "orphans"
    /\ store' = [a \in Artifact |-> IF Orphaned(a) THEN "deleted" ELSE store[a]]
    /\ sweep' = [sweep EXCEPT !.at = "measuring", !.referenced = {}]
    /\ UNCHANGED <<tasks, clients, notes>>

(* _retained_dataset_bytes and bytes_to_reclaim, then the finished jobs    *)
(* that still have data.                                                   *)
Measure ==
    /\ sweep.at = "measuring"
    /\ sweep' = IF Ceiling > 0 /\ Stored > Ceiling
                THEN [sweep EXCEPT !.at = "ceiling", !.toFree = Stored - Target,
                                   !.batch = {t \in Job : HasData(t)},
                                   !.finishedAt = FinishedAt({t \in Job : HasData(t)})]
                ELSE Asleep
    /\ UNCHANGED <<store, tasks, clients, notes>>

(* Mutant: the sort is the other way round. *)
NewestFinished(S) ==
    {t \in S : \A u \in S : sweep.finishedAt[t][2] >= sweep.finishedAt[u][2]}
OldestFinished(S) ==
    {t \in S : \A u \in S : sweep.finishedAt[t][2] <= sweep.finishedAt[u][2]}

ForgetForSpace(t) ==
    /\ sweep.at = "ceiling" /\ Idle
    /\ sweep.toFree > 0
    /\ t \in OldestFinished(sweep.batch)
    /\ sweep' = [sweep EXCEPT !.batch = @ \ {t}, !.forget = Forget(t)]
    /\ squeezed' = squeezed \union {t}
    /\ UNCHANGED <<store, tasks, clients, restarts>>

EndPass ==
    /\ sweep.at = "ceiling" /\ Idle
    /\ sweep.toFree <= 0 \/ sweep.batch = {}
    /\ sweep' = Asleep
    /\ UNCHANGED <<store, tasks, clients, notes>>

-----------------------------------------------------------------------------
(* Everything in flight is forgotten; the database is not. *)
Restart ==
    /\ restarts < MaxRestarts
    /\ restarts' = restarts + 1
    /\ splits' = [d \in Data |-> "none"]
    /\ retries' = {} /\ verifying' = {}
    /\ sweep' = Asleep
    /\ UNCHANGED <<store, tasks, accounts, squeezed>>

-----------------------------------------------------------------------------
Submitters ==
    \/ \E d \in Data : \/ Upload(d) \/ WriteTrain(d) \/ WriteHoldout(d)
                       \/ Refuse(d) \/ \E o \in Owner \union {NoOwner} : InsertJob(d, o)
    \/ \E t \in Job : ReadOriginal(t)
    \/ \E r \in retries : InsertRetry(r) \/ RefuseRetry(r)
    \/ \E o \in Owner : Link(o)

Machines ==
    \E t \in Job : Fetch(t) \/ Requeue(t) \/ Complete(t) \/ End(t) \/ ReadHoldout(t)

Time == (\E d \in Data : StoreAges(d)) \/ (\E t \in Job : JobAges(t))

Deleting == \E f \in sweep.forget : DeleteHalf(f) \/ Mark(f)

Sweeping ==
    \/ ReadFinished \/ ReadReferenced \/ DeleteOrphans \/ Measure \/ EndPass
    \/ \E t \in Job : LookUp(t) \/ ForgetDue(t) \/ ForgetForSpace(t)
    \/ Deleting

Next == Submitters \/ Machines \/ Time \/ Sweeping \/ Restart

Spec == Init /\ [][Next]_vars

(* The sweep is a loop that catches its errors and sleeps; handlers and    *)
(* background tasks get their answers.  Time passes whenever the sweep is  *)
(* asleep long enough, which it is again and again.                        *)
Fairness ==
    /\ WF_vars(Sweeping)
    /\ WF_vars(\E d \in Data : WriteHoldout(d) \/ Refuse(d))
    /\ WF_vars(\E t \in Job : ReadHoldout(t))
    /\ SF_vars(Time)
FairSpec == Spec /\ Fairness

-----------------------------------------------------------------------------
(* Safety.                                                                 *)

HasBothHalves(t) == job[t].data # NoData /\ \A a \in HalvesOf(job[t].data) : Held(a)

(* A first submission's data stays in the store until the job has ended,   *)
(* whatever the pass read before the job was queued, and until its verdict *)
(* has read the holdout, unless the storage ceiling took it.  Nothing is   *)
(* promised of a job that was written to after it had finished: it may be  *)
(* queued again, or verified, when its data is gone.                       *)
FirstRunKeepsItsData ==
    \A t \in Job \ late :
        /\ job[t].of = NoJob
        /\ IsUnfinished(t) \/ (t \in verifying /\ t \notin squeezed)
        => HasBothHalves(t)

(* The ceiling never takes a job's data when the store is already down to  *)
(* its target: what it counts as freed is what was deleted, also where a   *)
(* sibling's deletion or a crash has left a job pointing at nothing.       *)
CeilingStopsAtTarget ==
    [][squeezed' # squeezed => Stored > Target]_vars

-----------------------------------------------------------------------------
(* Liveness.                                                               *)

(* What no job points at does not stay: originals that were cut, uploads   *)
(* never submitted, halves of a refused submission or of one that a        *)
(* restart interrupted.                                                    *)
Unpointed(a) == Held(a) /\ a \notin Referenced
UnusedDataGoes ==
    \A a \in Artifact : Unpointed(a) ~> ~ Unpointed(a)

(* "A completed task drops" its data: the data a finished job points at is *)
(* deleted, whoever owns the job, if not now then when its window is over, *)
(* unless a late write has put the job back in the queue.                  *)
QueuedAgain(d) == \E t \in late : IsUnfinished(t) /\ job[t].data = d
FinishedDataGoes ==
    \A d \in Data :
        (\E t \in Job : IsFinished(t) /\ job[t].data = d)
            ~> ((~ \E a \in HalvesOf(d) : Held(a)) \/ QueuedAgain(d))

-----------------------------------------------------------------------------
(* What the source says of the program and the code does not do.           *)

(* The sweep deletes the copies "a finished job no longer needs": a job    *)
(* that has not finished finds its data where it was queued with it.       *)
UnfinishedKeepsItsData ==
    \A t \in Job : IsUnfinished(t) => HasBothHalves(t)

=============================================================================
