---------------------- MODULE DatasetRetentionProofs ----------------------
(***************************************************************************)
(* Proofs about DatasetRetention, for any owners, numbers of datasets and  *)
(* jobs, limits and bounds.                                                *)
(***************************************************************************)
EXTENDS DatasetRetention, FiniteSetTheorems, TLAPS

-----------------------------------------------------------------------------
(* Counting.                                                               *)

(* The blobs are finitely many: as many kinds of blob as datasets. *)
LEMMA ArtifactsAreFinite ==
    IsFiniteSet(Artifact) /\ \A S \in SUBSET Artifact : IsFiniteSet(S) /\ Cardinality(S) \in Nat
<1> DEFINE Of(k) == {<<d, k>> : d \in Data}
<1>1. IsFiniteSet(Data)
  BY FS_Interval, BoundAssumption DEF Data
<1>2. \A k : IsFiniteSet(Of(k))
  <2> TAKE k
  <2> DEFINE g == [d \in Data |-> <<d, k>>]
  <2>1. g \in Surjection(Data, Of(k))
    BY DEF Surjection
  <2>2. QED
    BY <1>1, <2>1, FS_Surjection
<1>3. Artifact = (Of("upload") \union Of("train")) \union Of("holdout")
  BY DEF Artifact, Half
<1>4. IsFiniteSet(Artifact)
  BY <1>2, <1>3, FS_Union
<1>5. QED
  BY <1>4, FS_Subset, FS_CardinalityType

LEMMA QueriesSelect ==
    ASSUME NEW S, NEW k
    PROVE  /\ First(S) \subseteq S /\ FirstOf(S, k) \subseteq S
           /\ OldestFinished(S) \subseteq S
BY DEF First, FirstOf, OldestFinished

LEMMA ArtifactsAreNamed ==
    /\ \A d \in Data : /\ <<d, "upload">> \in Artifact /\ HalvesOf(d) \subseteq Artifact
                       /\ HalvesOf(d) = {<<d, "train">>, <<d, "holdout">>}
    /\ NoData \notin Data /\ NoJob \notin Job
BY NameAssumption, BoundAssumption DEF Artifact, HalvesOf, Half, Data, Job

-----------------------------------------------------------------------------
(* Types.  How often a job's deletions have succeeded is bounded by how    *)
(* many have been tried.                                                   *)

LEMMA BatchIsTyped ==
    ASSUME TypeOK \/ job \in [Job -> JobRecord]
    PROVE  \A S : FinishedAt(S) \in [Job -> Age \X Nat]
BY DEF FinishedAt, TypeOK, JobRecord, Age

LEMMA AsleepIsTyped == Asleep \in Sweep /\ Asleep.forget = {} /\ Asleep.batch = {}
<1>1. FinishedAt({}) \in [Job -> Age \X Nat]
  BY DEF FinishedAt, Age
<1>2. QED
  BY <1>1 DEF Asleep, Sweep

LEMMA TypeInit == Init => TypeOK
<1>1. ASSUME Init PROVE TypeOK
  <2>1. NotQueued \in JobRecord
    BY BoundAssumption DEF NotQueued, JobRecord, Age
  <2>2. Asleep \in Sweep
    BY AsleepIsTyped
  <2>3. QED
    BY <1>1, <2>1, <2>2, BoundAssumption, SMTT(30) DEF Init, TypeOK
<1>2. QED
  BY <1>1

(* A write to one job leaves the collection well typed. *)
LEMMA OneWrite ==
    ASSUME TypeOK, NEW t \in Job, NEW r \in JobRecord,
           job' = [job EXCEPT ![t] = r]
    PROVE  /\ job' \in [Job -> JobRecord]
           /\ \A u \in Job : job'[u] = IF u = t THEN r ELSE job[u]
BY DEF TypeOK

(* What a write to a job's document may contain. *)
LEMMA JobWrites ==
    ASSUME NEW r \in JobRecord
    PROVE  /\ \A status \in Finished, n \in Nat :
                [r EXCEPT !.status = status, !.age = "young", !.place = n] \in JobRecord
           /\ [r EXCEPT !.data = NoData] \in JobRecord
           /\ \A status \in Unfinished : /\ [r EXCEPT !.status = status] \in JobRecord
                                          /\ [r EXCEPT !.status = status, !.ran = TRUE] \in JobRecord
           /\ \A age \in Age : [r EXCEPT !.age = age] \in JobRecord
BY DEF JobRecord, Age

LEMMA FinishedIsAJob ==
    ASSUME TypeOK, NEW t \in Job, NEW status \in Finished, Finish(t, status)
    PROVE  job' \in [Job -> JobRecord] /\ ends' \in Nat
<1>1. ends + 1 \in Nat /\ job[t] \in JobRecord
  BY DEF TypeOK
<1>2. [job[t] EXCEPT !.status = status, !.age = "young", !.place = ends + 1] \in JobRecord
  BY <1>1, JobWrites
<1>3. QED
  BY <1>1, <1>2, OneWrite DEF Finish

LEMMA TypeSubmitters == TypeOK /\ Submitters => TypeOK'
<1> SUFFICES ASSUME TypeOK, Submitters
             PROVE  TypeOK'
  OBVIOUS
<1> USE DEF clients, tasks, notes
<1>1. ASSUME NEW d \in Data, Upload(d)
      PROVE  TypeOK'
  BY <1>1, ArtifactsAreNamed DEF Upload, TypeOK
<1>2. ASSUME NEW d \in Data, WriteTrain(d) \/ WriteHoldout(d)
      PROVE  TypeOK'
  BY <1>2, ArtifactsAreNamed DEF WriteTrain, WriteHoldout, TypeOK
<1>3. ASSUME NEW d \in Data, Refuse(d)
      PROVE  TypeOK'
  BY <1>3 DEF Refuse, TypeOK
<1>4. ASSUME NEW d \in Data, NEW o \in Owner \union {NoOwner}, InsertJob(d, o)
      PROVE  TypeOK'
  <2>1. Queued(d, o, NoJob) \in JobRecord
    BY BoundAssumption DEF Queued, JobRecord, Age, Unfinished
  <2>2. PICK t \in Job : job' = [job EXCEPT ![t] = Queued(d, o, NoJob)]
    BY <1>4, QueriesSelect DEF InsertJob, Unused
  <2>3. QED
    BY <1>4, <2>1, <2>2, OneWrite DEF InsertJob, TypeOK
<1>5. ASSUME NEW t \in Job, ReadOriginal(t)
      PROVE  TypeOK'
  <2>1. [of |-> t, data |-> job[t].data, owner |-> job[t].owner] \in Retry
    BY <1>5 DEF ReadOriginal, TypeOK, JobRecord, Retry, HasData
  <2>2. QED
    BY <1>5, <2>1 DEF ReadOriginal, TypeOK
<1>6. ASSUME NEW r \in retries, InsertRetry(r)
      PROVE  TypeOK'
  <2>1. Queued(r.data, r.owner, r.of) \in JobRecord
    BY BoundAssumption DEF Queued, JobRecord, Age, Unfinished, TypeOK, Retry
  <2>2. PICK t \in Job : job' = [job EXCEPT ![t] = Queued(r.data, r.owner, r.of)]
    BY <1>6, QueriesSelect DEF InsertRetry, Unused
  <2>3. QED
    BY <1>6, <2>1, <2>2, OneWrite DEF InsertRetry, TypeOK
<1>7. ASSUME NEW r \in retries, RefuseRetry(r)
      PROVE  TypeOK'
  BY <1>7 DEF RefuseRetry, TypeOK
<1>8. ASSUME NEW o \in Owner, Link(o)
      PROVE  TypeOK'
  BY <1>8 DEF Link, TypeOK
<1>9. QED
  BY <1>1, <1>2, <1>3, <1>4, <1>5, <1>6, <1>7, <1>8 DEF Submitters

LEMMA TypeMachines == TypeOK /\ Machines => TypeOK'
<1> SUFFICES ASSUME TypeOK, NEW t \in Job,
                    Fetch(t) \/ Requeue(t) \/ Complete(t) \/ End(t) \/ ReadHoldout(t)
             PROVE  TypeOK'
  BY DEF Machines
<1> USE DEF clients, tasks, notes
<1>1. CASE Fetch(t)
  <2>1. job' \in [Job -> JobRecord] /\ ends' \in Nat
    <3>1. CASE job[t].data # NoData => Held(<<job[t].data, "train">>)
      <4>1. [job[t] EXCEPT !.status = "training", !.ran = TRUE] \in JobRecord
        BY JobWrites DEF TypeOK, Unfinished
      <4>2. job' = [job EXCEPT ![t] = [job[t] EXCEPT !.status = "training", !.ran = TRUE]]
        BY <1>1, <3>1 DEF Fetch
      <4>3. ends' = ends
        BY <1>1, <3>1 DEF Fetch
      <4>4. QED
        BY <4>1, <4>2, <4>3, OneWrite DEF TypeOK
    <3>2. CASE ~ (job[t].data # NoData => Held(<<job[t].data, "train">>))
      BY <1>1, <3>2, FinishedIsAJob DEF Fetch, Finished
    <3>3. QED
      BY <3>1, <3>2
  <2>2. QED
    BY <1>1, <2>1 DEF Fetch, TypeOK
<1>2. CASE Requeue(t)
  <2>1. [job[t] EXCEPT !.status = "queued"] \in JobRecord
    BY JobWrites DEF TypeOK, Unfinished
  <2>2. job' \in [Job -> JobRecord]
    BY <1>2, <2>1, OneWrite DEF Requeue
  <2>3. QED
    BY <1>2, <2>2 DEF Requeue, Written, TypeOK
<1>3. CASE Complete(t)
  <2>1. job' \in [Job -> JobRecord] /\ ends' \in Nat
    BY <1>3, FinishedIsAJob DEF Complete, Finished
  <2>2. QED
    BY <1>3, <2>1 DEF Complete, Written, TypeOK
<1>4. CASE End(t)
  <2>1. job' \in [Job -> JobRecord] /\ ends' \in Nat
    BY <1>4, FinishedIsAJob DEF End, Finished
  <2>2. QED
    BY <1>4, <2>1 DEF End, Written, TypeOK
<1>5. CASE ReadHoldout(t)
  BY <1>5 DEF ReadHoldout, TypeOK
<1>6. QED
  BY <1>1, <1>2, <1>3, <1>4, <1>5

LEMMA TypeTime == TypeOK /\ Time => TypeOK'
<1> SUFFICES ASSUME TypeOK, Time
             PROVE  TypeOK'
  OBVIOUS
<1> USE DEF clients, tasks, notes
<1>1. ASSUME NEW d \in Data, StoreAges(d)
      PROVE  TypeOK'
  BY <1>1 DEF StoreAges, TypeOK
<1>2. ASSUME NEW t \in Job, JobAges(t)
      PROVE  TypeOK'
  BY <1>2 DEF JobAges, BecomesOlder, TypeOK, JobRecord, Age
<1>3. QED
  BY <1>1, <1>2 DEF Time

(* Deletions tried so far, and where in a pass they are tried. *)
RemovedAtMost(f) ==
    /\ f.step = "train" => f.removed = 0
    /\ f.step = "holdout" => f.removed \in 0..1
RemovedBounded ==
    /\ \A f \in sweep.forget : RemovedAtMost(f)
    /\ sweep.forget # {} => sweep.at \in {"judging", "ceiling"}

LEMMA TypeSweeping ==
    TypeOK /\ RemovedBounded /\ Sweeping => TypeOK' /\ RemovedBounded'
<1> SUFFICES ASSUME TypeOK, RemovedBounded, Sweeping
             PROVE  TypeOK' /\ RemovedBounded'
  OBVIOUS
<1> USE DEF clients, tasks, notes, RemovedBounded, RemovedAtMost
<1>1. CASE ReadFinished
  <2> DEFINE due == FirstOf({t \in Job : HasData(t) /\ job[t].age # "young"}, BatchSize)
  <2>1. due \in SUBSET Job
    BY QueriesSelect
  <2>2. FinishedAt(due) \in [Job -> Age \X Nat] /\ sweep \in Sweep
    BY BatchIsTyped DEF TypeOK
  <2>3. sweep' = [sweep EXCEPT !.at = "judging", !.batch = due, !.finishedAt = FinishedAt(due)]
    BY <1>1 DEF ReadFinished
  <2> HIDE DEF due
  <2>4. sweep' \in Sweep /\ sweep'.forget = sweep.forget /\ sweep'.at = "judging"
    BY <2>1, <2>2, <2>3 DEF Sweep
  <2>5. QED
    BY <1>1, <2>4 DEF ReadFinished, TypeOK
<1>2. CASE ReadReferenced
  <2>1. \A t \in Job : job[t].data # NoData => job[t].data \in Data
    BY DEF TypeOK, JobRecord
  <2>2. Referenced \subseteq Artifact
    BY <2>1, ArtifactsAreNamed DEF Referenced
  <2>3. FinishedAt({}) \in [Job -> Age \X Nat]
    BY BatchIsTyped
  <2>4. sweep' \in Sweep /\ sweep'.forget = {}
    BY <1>2, <2>2, <2>3 DEF ReadReferenced, Idle, TypeOK, Sweep
  <2>5. QED
    BY <1>2, <2>4 DEF ReadReferenced, TypeOK
<1>3. CASE DeleteOrphans
  BY <1>3 DEF DeleteOrphans, TypeOK, Sweep
<1>4. CASE Measure
  <2>1. Stored \in Int
    BY ArtifactsAreFinite DEF Stored
  <2>2. Stored - Target \in Int
    BY <2>1, BoundAssumption
  <2>3. Asleep \in Sweep /\ Asleep.forget = {}
    BY AsleepIsTyped
  <2>4. sweep \in Sweep /\ {t \in Job : HasData(t)} \in SUBSET Job
    BY DEF TypeOK
  <2>5. sweep' \in Sweep /\ (sweep'.forget = sweep.forget \/ sweep'.forget = {})
    <3> DEFINE at == FinishedAt({t \in Job : HasData(t)})
               S == {t \in Job : HasData(t)}
    <3>1. at \in [Job -> Age \X Nat] /\ S \in SUBSET Job
      BY BatchIsTyped
    <3>2. \/ sweep' = Asleep
          \/ sweep' = [sweep EXCEPT !.at = "ceiling", !.toFree = Stored - Target,
                                    !.batch = S, !.finishedAt = at]
      BY <1>4 DEF Measure
    <3> HIDE DEF at, S
    <3>3. QED
      BY <2>2, <2>3, <2>4, <3>1, <3>2 DEF Sweep
  <2>6. QED
    BY <1>4, <2>5 DEF Measure, TypeOK
<1>5. CASE EndPass
  BY <1>5, AsleepIsTyped DEF EndPass, TypeOK
<1>6. ASSUME NEW t \in Job, LookUp(t)
      PROVE  TypeOK' /\ RemovedBounded'
  <2>1. job[t].owner \in Owner \union {NoOwner}
    BY DEF TypeOK, JobRecord
  <2>2. sweep' \in Sweep
    BY <1>6, <2>1 DEF LookUp, TypeOK, Sweep
  <2>3. sweep'.forget = sweep.forget
    BY <1>6 DEF LookUp, TypeOK, Sweep
  <2>4. QED
    BY <1>6, <2>2, <2>3 DEF LookUp, TypeOK
<1>7. ASSUME NEW t \in Job, ForgetDue(t) \/ ForgetForSpace(t)
      PROVE  TypeOK' /\ RemovedBounded'
  <2>1. Forget(t) \subseteq Forgetting
    BY DEF Forget, Forgetting, Half
  <2>2. sweep \in Sweep /\ sweep.batch \ {t} \in SUBSET Job
    BY DEF TypeOK, Sweep
  <2>3. sweep' = [sweep EXCEPT !.batch = sweep.batch \ {t}, !.forget = Forget(t)]
    BY <1>7, <2>2 DEF ForgetDue, ForgetForSpace, Sweep
  <2>4. sweep' \in Sweep /\ sweep'.forget = Forget(t)
    BY <2>1, <2>2, <2>3 DEF Sweep
  <2>5. sweep'.at \in {"judging", "ceiling"}
    BY <1>7, <2>2, <2>3 DEF ForgetDue, ForgetForSpace, Sweep
  <2>6. RemovedBounded'
    BY <2>4, <2>5 DEF Forget
  <2>7. QED
    BY <1>7, <2>4, <2>6 DEF ForgetDue, ForgetForSpace, TypeOK
<1>8. ASSUME NEW f \in sweep.forget, DeleteHalf(f)
      PROVE  TypeOK' /\ RemovedBounded'
  <2>1. f \in Forgetting
    BY DEF TypeOK, Sweep
  <2> DEFINE g(n) == [job |-> f.job, step |-> NextStep(f.step), removed |-> n]
  <2>2. \E n \in {f.removed, f.removed + 1} : sweep' = [sweep EXCEPT !.forget = {g(n)}]
    BY <1>8 DEF DeleteHalf
  <2>3. \A n \in {f.removed, f.removed + 1} : g(n) \in Forgetting /\ RemovedAtMost(g(n))
    BY <1>8, <2>1 DEF DeleteHalf, NextStep, Forgetting, Half
  <2>4. sweep' \in Sweep /\ \E n \in {f.removed, f.removed + 1} : sweep'.forget = {g(n)}
    BY <2>2, <2>3 DEF TypeOK, Sweep
  <2>5. store' \in [Artifact -> {"unwritten", "fresh", "old", "deleted"}]
    BY <1>8 DEF DeleteHalf, TypeOK
  <2>6. QED
    BY <1>8, <2>3, <2>4, <2>5 DEF DeleteHalf, TypeOK
<1>9. ASSUME NEW f \in sweep.forget, Mark(f)
      PROVE  TypeOK' /\ RemovedBounded'
  <2>1. f.removed \in Int
    BY DEF TypeOK, Sweep, Forgetting
  <2>2. sweep \in Sweep /\ sweep.toFree \in Int /\ f.job \in Job
    BY DEF TypeOK, Sweep, Forgetting
  <2>3. sweep' \in Sweep /\ sweep'.forget = {}
    <3>1. PICK n \in Int : sweep' = [sweep EXCEPT !.forget = {}, !.toFree = n]
      <4>1. CASE sweep.at = "ceiling"
        <5>1. sweep.toFree - f.removed \in Int
          BY <2>1, <2>2
        <5>2. sweep' = [sweep EXCEPT !.forget = {}, !.toFree = sweep.toFree - f.removed]
          BY <1>9, <2>2, <4>1 DEF Mark, Sweep
        <5>3. QED
          BY <5>1, <5>2
      <4>2. CASE sweep.at # "ceiling"
        <5>1. sweep' = [sweep EXCEPT !.forget = {}, !.toFree = sweep.toFree]
          BY <1>9, <2>2, <4>2 DEF Mark, Sweep
        <5>2. QED
          BY <2>2, <5>1
      <4>3. QED
        BY <4>1, <4>2
    <3>2. QED
      BY <2>2, <3>1 DEF Sweep
  <2>4. job' \in [Job -> JobRecord]
    BY <1>9, <2>2, JobWrites DEF Mark, TypeOK
  <2>5. QED
    BY <1>9, <2>3, <2>4 DEF Mark, TypeOK
<1>10. QED
  BY <1>1, <1>2, <1>3, <1>4, <1>5, <1>6, <1>7, <1>8, <1>9 DEF Sweeping, Deleting
LEMMA TypeRestart == TypeOK /\ Restart => TypeOK' /\ RemovedBounded'
<1> SUFFICES ASSUME TypeOK, Restart
             PROVE  TypeOK' /\ RemovedBounded'
  OBVIOUS
<1>1. Asleep \in Sweep /\ Asleep.forget = {}
  BY AsleepIsTyped
<1>2. restarts' \in 0..MaxRestarts
  BY BoundAssumption DEF Restart, TypeOK
<1>3. QED
  BY <1>1, <1>2 DEF Restart, TypeOK, RemovedBounded, tasks, notes

Typed == TypeOK /\ RemovedBounded

LEMMA TypedStep == Typed /\ [Next]_vars => Typed'
<1> SUFFICES ASSUME Typed, [Next]_vars
             PROVE  Typed'
  OBVIOUS
<1> USE DEF Typed
<1>1. CASE Submitters
  <2>1. sweep' = sweep
    BY <1>1 DEF Submitters, Upload, WriteTrain, WriteHoldout, Refuse, InsertJob,
                ReadOriginal, InsertRetry, RefuseRetry, Link
  <2>2. QED
    BY <1>1, <2>1, TypeSubmitters DEF RemovedBounded
<1>2. CASE Machines
  <2>1. sweep' = sweep
    BY <1>2 DEF Machines, Fetch, Requeue, Complete, End, ReadHoldout
  <2>2. QED
    BY <1>2, <2>1, TypeMachines DEF RemovedBounded
<1>3. CASE Time
  <2>1. sweep' = sweep
    BY <1>3 DEF Time, StoreAges, JobAges
  <2>2. QED
    BY <1>3, <2>1, TypeTime DEF RemovedBounded
<1>4. CASE Sweeping
  BY <1>4, TypeSweeping
<1>5. CASE Restart
  BY <1>5, TypeRestart
<1>6. CASE UNCHANGED vars
  BY <1>6 DEF vars, clients, notes, TypeOK, RemovedBounded
<1>7. QED
  BY <1>1, <1>2, <1>3, <1>4, <1>5, <1>6 DEF Next

LEMMA AlwaysTyped == Spec => []Typed
<1>1. Init => Typed
  BY TypeInit DEF Typed, Init, Asleep, RemovedBounded
<1>2. QED
  BY <1>1, TypedStep, PTL DEF Spec

(* Every variable of the store, the jobs and the sweep keeps its type: a   *)
(* pass never counts more than the two halves of a job as removed, however *)
(* often other jobs' deletions and restarts come in between.               *)
THEOREM RetentionTypeCorrect == Spec => []TypeOK
<1>1. Typed => TypeOK
  BY DEF Typed
<1>2. QED
  BY <1>1, AlwaysTyped, PTL

-----------------------------------------------------------------------------
(* The storage ceiling.                                                    *)

HeldBlobs == {a \in Artifact : Held(a)}

(* What the ceiling still has to free is never more than what the store    *)
(* holds above the target; a deletion not yet counted makes up for itself. *)
CeilingCounts ==
    sweep.at = "ceiling" =>
        /\ sweep.forget = {} => Stored >= Target + sweep.toFree
        /\ \A f \in sweep.forget : Stored + f.removed >= Target + sweep.toFree

LEMMA StoredIsANumber == Stored \in Nat /\ Stored' \in Nat
<1>1. HeldBlobs \in SUBSET Artifact /\ HeldBlobs' \in SUBSET Artifact
  BY DEF HeldBlobs
<1>2. QED
  BY <1>1, ArtifactsAreFinite DEF Stored, HeldBlobs

LEMMA StoredGrows ==
    ASSUME \A a \in Artifact : Held(a) => Held(a)'
    PROVE  Stored' >= Stored
<1>1. HeldBlobs \in SUBSET Artifact /\ HeldBlobs' \in SUBSET Artifact
  BY DEF HeldBlobs
<1>2. HeldBlobs \subseteq HeldBlobs'
  BY DEF HeldBlobs
<1>3. Cardinality(HeldBlobs) <= Cardinality(HeldBlobs')
  BY <1>1, <1>2, ArtifactsAreFinite, FS_Subset
<1>4. QED
  BY <1>3 DEF Stored, HeldBlobs

(* Deleting one blob leaves one less. *)
LEMMA StoredShrinksByOne ==
    ASSUME TypeOK, NEW a \in Artifact, Held(a), store' = [store EXCEPT ![a] = "deleted"]
    PROVE  Stored' = Stored - 1
<1>1. HeldBlobs \in SUBSET Artifact /\ a \in HeldBlobs
  BY DEF HeldBlobs
<1>2. HeldBlobs' = HeldBlobs \ {a}
  BY DEF HeldBlobs, Held, TypeOK
<1>3. IsFiniteSet(HeldBlobs)
  BY <1>1, ArtifactsAreFinite
<1>4. Cardinality(HeldBlobs \ {a}) = Cardinality(HeldBlobs) - 1
  BY <1>1, <1>3, FS_RemoveElement
<1>5. QED
  BY <1>2, <1>4 DEF Stored, HeldBlobs

(* Deleting one half frees one blob, and adds one to what was removed. *)
LEMMA DeletionIsCounted ==
    ASSUME Typed, CeilingCounts, NEW f \in sweep.forget, DeleteHalf(f)
    PROVE  CeilingCounts'
<1> SUFFICES ASSUME sweep'.at = "ceiling"
             PROVE  \A g \in sweep'.forget : Stored' + g.removed >= Target + sweep'.toFree
  <2>1. sweep'.forget # {}
    BY DEF DeleteHalf, Typed, TypeOK, Sweep
  <2>2. QED
    BY <2>1 DEF CeilingCounts
<1> DEFINE a == <<job[f.job].data, f.step>>
<1>1. sweep.at = "ceiling" /\ sweep'.toFree = sweep.toFree
  BY DEF DeleteHalf, Typed, TypeOK, Sweep
<1>2. /\ f \in Forgetting /\ f.removed \in Int
      /\ sweep.toFree \in Int /\ Target \in Int /\ Stored \in Int
  BY BoundAssumption, StoredIsANumber DEF Typed, TypeOK, Sweep, Forgetting
<1>3. Stored + f.removed >= Target + sweep.toFree
  BY <1>1 DEF CeilingCounts
<1>4. CASE Held(a) /\ a \in Artifact
  <2>1. store' = [store EXCEPT ![a] = "deleted"]
    BY <1>4 DEF DeleteHalf
  <2>2. Stored' = Stored - 1
    BY <1>4, <2>1, StoredShrinksByOne DEF Typed
  <2>3. \A g \in sweep'.forget : g.removed = f.removed + 1
    BY <1>4 DEF DeleteHalf, Typed, TypeOK, Sweep
  <2>4. QED
    BY <1>1, <1>2, <1>3, <2>2, <2>3
<1>5. CASE ~ (Held(a) /\ a \in Artifact)
  <2>1. store' = store
    BY <1>5 DEF DeleteHalf, Typed, TypeOK
  <2>2. Stored' = Stored
    BY <2>1 DEF Stored, Held
  <2>3. \A g \in sweep'.forget : g.removed \in {f.removed, f.removed + 1}
    BY DEF DeleteHalf, Typed, TypeOK, Sweep
  <2>4. QED
    BY <1>1, <1>2, <1>3, <2>2, <2>3
<1>6. QED
  BY <1>4, <1>5

LEMMA CeilingStep ==
    Typed /\ CeilingCounts /\ [Next]_vars
      => CeilingCounts' /\ (squeezed' # squeezed => Stored > Target)
<1> SUFFICES ASSUME Typed, CeilingCounts, [Next]_vars
             PROVE  CeilingCounts' /\ (squeezed' # squeezed => Stored > Target)
  OBVIOUS
<1> USE DEF clients, tasks, notes
<1>1. CASE Submitters \/ Machines
  <2>1. sweep' = sweep /\ squeezed' = squeezed
    BY <1>1 DEF Submitters, Upload, WriteTrain, WriteHoldout, Refuse, InsertJob,
                ReadOriginal, InsertRetry, RefuseRetry, Link,
                Machines, Fetch, Requeue, Complete, End, ReadHoldout
  <2>2. store' = store \/ \E a \in Artifact : store' = [store EXCEPT ![a] = "fresh"]
    BY <1>1, ArtifactsAreNamed
       DEF Submitters, Upload, WriteTrain, WriteHoldout, Refuse, InsertJob,
           ReadOriginal, InsertRetry, RefuseRetry, Link,
           Machines, Fetch, Requeue, Complete, End, ReadHoldout
  <2>3. \A a \in Artifact : Held(a) => Held(a)'
    BY <2>2 DEF Held, Typed, TypeOK
  <2>4. Stored' >= Stored /\ Stored \in Nat /\ Stored' \in Nat
    BY <2>3, StoredGrows, StoredIsANumber
  <2>5. \A f \in sweep.forget : f.removed \in Int
    BY DEF Typed, TypeOK, Sweep, Forgetting
  <2>6. sweep.toFree \in Int /\ Target \in Int
    BY BoundAssumption DEF Typed, TypeOK, Sweep
  <2>7. QED
    BY <2>1, <2>4, <2>5, <2>6 DEF CeilingCounts
<1>2. CASE Time
  BY <1>2 DEF Time, StoreAges, JobAges, CeilingCounts
<1>3. CASE ReadFinished \/ ReadReferenced \/ DeleteOrphans \/ EndPass
  <2>1. sweep \in Sweep
    BY DEF Typed, TypeOK
  <2>2. sweep'.at # "ceiling"
    <3>1. CASE ReadFinished
      BY <2>1, <3>1 DEF ReadFinished, Sweep
    <3>2. CASE ReadReferenced
      BY <2>1, <3>2 DEF ReadReferenced, Sweep
    <3>3. CASE DeleteOrphans
      BY <2>1, <3>3 DEF DeleteOrphans, Sweep
    <3>4. CASE EndPass
      BY <3>4 DEF EndPass, Asleep
    <3>5. QED
      BY <1>3, <3>1, <3>2, <3>3, <3>4
  <2>3. squeezed' = squeezed
    BY <1>3 DEF ReadFinished, ReadReferenced, DeleteOrphans, EndPass
  <2>4. QED
    BY <2>2, <2>3 DEF CeilingCounts
<1>4. CASE Measure
  <2>1. squeezed' = squeezed /\ Stored' = Stored
    BY <1>4 DEF Measure, Stored, Held
  <2>2. Stored \in Int /\ Target \in Int
    BY BoundAssumption, StoredIsANumber
  <2>3. CASE sweep' = Asleep
    BY <2>1, <2>3 DEF Asleep, CeilingCounts
  <2>4. CASE sweep' # Asleep
    <3>1. sweep'.toFree = Stored - Target /\ sweep'.forget = sweep.forget
      BY <1>4, <2>4 DEF Measure, Typed, TypeOK, Sweep
    <3>2. sweep.forget = {}
      BY <1>4 DEF Measure, Typed, RemovedBounded
    <3>3. QED
      BY <2>1, <2>2, <3>1, <3>2 DEF CeilingCounts
  <2>5. QED
    BY <2>3, <2>4
<1>5. ASSUME NEW t \in Job, LookUp(t) \/ ForgetDue(t)
      PROVE  CeilingCounts' /\ (squeezed' # squeezed => Stored > Target)
  <2>1. sweep'.at # "ceiling" /\ squeezed' = squeezed
    BY <1>5 DEF LookUp, ForgetDue, Typed, TypeOK, Sweep
  <2>2. QED
    BY <2>1 DEF CeilingCounts
<1>6. ASSUME NEW t \in Job, ForgetForSpace(t)
      PROVE  CeilingCounts' /\ (squeezed' # squeezed => Stored > Target)
  <2>1. Stored \in Int /\ Target \in Int /\ sweep.toFree \in Int
    BY BoundAssumption, StoredIsANumber DEF Typed, TypeOK, Sweep
  <2>2. Stored >= Target + sweep.toFree /\ sweep.toFree > 0
    BY <1>6 DEF ForgetForSpace, Idle, CeilingCounts
  <2>3. Stored' = Stored
    BY <1>6 DEF ForgetForSpace, Stored, Held
  <2>4. sweep'.toFree = sweep.toFree /\ sweep'.forget = Forget(t)
    BY <1>6 DEF ForgetForSpace, Typed, TypeOK, Sweep
  <2>5. QED
    BY <2>1, <2>2, <2>3, <2>4 DEF CeilingCounts, Forget
<1>7. ASSUME NEW f \in sweep.forget, DeleteHalf(f)
      PROVE  CeilingCounts' /\ (squeezed' # squeezed => Stored > Target)
  BY <1>7, DeletionIsCounted DEF DeleteHalf
<1>8. ASSUME NEW f \in sweep.forget, Mark(f)
      PROVE  CeilingCounts' /\ (squeezed' # squeezed => Stored > Target)
  <2>1. /\ f.removed \in Int /\ sweep.toFree \in Int
        /\ Stored \in Int /\ Target \in Int
    BY BoundAssumption, StoredIsANumber DEF Typed, TypeOK, Sweep, Forgetting
  <2>2. sweep'.forget = {} /\ sweep'.at = sweep.at /\ Stored' = Stored
    BY <1>8 DEF Mark, Typed, TypeOK, Sweep, Stored, Held
  <2>3. sweep.at = "ceiling" => sweep'.toFree = sweep.toFree - f.removed
    BY <1>8 DEF Mark, Typed, TypeOK, Sweep
  <2>4. QED
    BY <1>8, <2>1, <2>2, <2>3 DEF CeilingCounts, Mark
<1>9. CASE Restart
  BY <1>9 DEF Restart, Asleep, CeilingCounts
<1>10. CASE UNCHANGED vars
  BY <1>10 DEF vars, CeilingCounts, Stored, Held
<1>11. QED
  BY <1>1, <1>2, <1>3, <1>4, <1>5, <1>6, <1>7, <1>8, <1>9, <1>10
     DEF Next, Sweeping, Deleting

(* The ceiling takes a job's data only while the store holds more than its *)
(* target, whatever other deletions have gone on underneath.               *)
THEOREM CeilingStops == Spec => CeilingStopsAtTarget
<1>1. Init => CeilingCounts
  BY DEF Init, Asleep, CeilingCounts
<1>2. Typed /\ CeilingCounts /\ [Next]_vars
        => CeilingCounts' /\ [squeezed' # squeezed => Stored > Target]_vars
  BY CeilingStep
<1>3. QED
  BY <1>1, <1>2, AlwaysTyped, PTL DEF Spec, CeilingStopsAtTarget

-----------------------------------------------------------------------------
(* A first submission keeps its data.                                      *)
(*                                                                         *)
(* Its halves can be deleted on behalf of the job itself, on behalf of a   *)
(* retry that shares them, or as blobs nothing points at.  The first needs *)
(* the job finished; the second needs it finished too, because a retry is  *)
(* only made of a finished job, and the retry finishes after it, so the    *)
(* job is due, or in the ceiling's way, before the retry is; the third     *)
(* needs old blobs that no job had when the pass looked.                   *)
(*                                                                         *)
(* A late write may break all this for the job it is written to, which is  *)
(* then in late.  That it breaks it for no other, the retry written to     *)
(* late included, is what is proved: what the sweep holds is related to    *)
(* the jobs as it read them, and a job that finishes again comes last.     *)

FirstRun(t) == job[t].of = NoJob
Before(t, u) == job[t].place < job[u].place
DataOfJobs == {job[t].data : t \in Job}
DataOfRetries == {r.data : r \in retries}

(* The job u points at the data that t, a first submission, was given. *)
SharesDataOf(u, t) ==
    FirstRun(t) /\ job[t].data # NoData /\ job[u].data = job[t].data

(* Only a job that was queued has been run. *)
RunsWereQueued == \A t \in Job : job[t].ran => job[t].status # "absent"

(* Jobs finish one after the other, and age in that order. *)
FinishedInOrder ==
    /\ \A t \in Job : job[t].place <= ends
    /\ \A t, u \in Job : /\ IsFinished(t) /\ job[t].age # "young"
                         /\ IsFinished(u) /\ Before(u, t)
                         => job[u].age # "young"

(* Until the job is inserted its halves are fresh, and known to nobody. *)
SplitsAreNew ==
    \A d \in Data :
        /\ splits[d] # "none" => store[<<d, "train">>] = "fresh"
        /\ splits[d] = "holdout" => store[<<d, "holdout">>] = "fresh"
        /\ splits[d] # "none" \/ store[<<d, "train">>] = "unwritten"
             => d \notin DataOfJobs \union DataOfRetries

(* Only retries share a first submission's halves, and only once it has    *)
(* finished.                                                               *)
SharedAfterTheEnd ==
    /\ \A t, u \in Job : t # u /\ SharesDataOf(u, t) =>
         /\ ~ FirstRun(u)
         /\ t \notin late => IsFinished(t) /\ (IsFinished(u) => Before(t, u))
    /\ \A t \in Job \ late : FirstRun(t) /\ job[t].data \in DataOfRetries => IsFinished(t)

VerifyingIsYoung ==
    \A t \in verifying \ late : IsFinished(t) /\ job[t].age = "young"

InHand == {f.job : f \in sweep.forget}
Taken == sweep.batch \union InHand

(* What the sweep is about to forget was due, or is taken oldest first:    *)
(* and so it was, or is, for the first submission that shares the data.    *)
SweepIsInOrder ==
    /\ sweep.at \in {"judging", "ceiling"} =>
         \A u \in Taken : job[u].status # "absent"
    /\ sweep.at = "judging" =>
         \A u \in Taken, t \in Job \ late : SharesDataOf(u, t) =>
             IsFinished(t) /\ job[t].age # "young"
    /\ sweep.at = "ceiling" =>
         /\ \A u \in InHand, t \in Job \ late : SharesDataOf(u, t) =>
              IsFinished(t) /\ t \in squeezed
         /\ \A u \in sweep.batch, t \in Job \ late : SharesDataOf(u, t) =>
              /\ IsFinished(t)
              /\ \/ t \in squeezed
                 \/ t \in sweep.batch
                    /\ (t # u => sweep.finishedAt[t][2] < sweep.finishedAt[u][2])

(* A blob that a first submission points at was listed, or is still fresh. *)
OrphansAreNobodys ==
    sweep.at = "orphans" =>
        \A t \in Job : FirstRun(t) /\ job[t].data # NoData =>
            \A a \in HalvesOf(job[t].data) : ~ Orphaned(a)

KeepInv ==
    /\ RunsWereQueued /\ FinishedInOrder /\ SplitsAreNew /\ SharedAfterTheEnd /\ VerifyingIsYoung
    /\ SweepIsInOrder /\ OrphansAreNobodys /\ FirstRunKeepsItsData

-----------------------------------------------------------------------------
(* What a step may write to the jobs.                                      *)

NotedIfLate(t) == late' = IF IsFinished(t) THEN late \union {t} ELSE late
Inserted(t) ==
    /\ job[t].status = "absent" /\ ends' = ends /\ late' = late
    /\ \E d \in Data, o \in Owner \union {NoOwner}, x \in Job \union {NoJob} :
         job' = [job EXCEPT ![t] = Queued(d, o, x)]
Ended(t) ==
    /\ job[t].status # "absent" /\ NotedIfLate(t)
    /\ \E status \in Finished : Finish(t, status)
Moved(t) ==
    /\ job[t].status # "absent" /\ NotedIfLate(t) /\ ends' = ends
    /\ \E status \in Unfinished, ran \in BOOLEAN :
         job' = [job EXCEPT ![t] = [job[t] EXCEPT !.status = status, !.ran = ran]]
OthersSame(t) == \A u \in Job : u # t => job'[u] = job[u]

(* Every step but the submitters'. *)
Elsewhere == Machines \/ Time \/ Sweeping \/ Restart \/ UNCHANGED vars

LEMMA JobStepsElsewhere ==
    ASSUME TypeOK, RunsWereQueued, Elsewhere
    PROVE  \/ UNCHANGED tasks
           \/ \E t \in Job : Ended(t) \/ Moved(t) \/ JobAges(t)
           \/ \E f \in sweep.forget : Mark(f)
<1>1. ASSUME NEW t \in Job, Fetch(t)
      PROVE  Ended(t) \/ Moved(t)
  <2>1. job[t].status # "absent" /\ NotedIfLate(t)
    BY <1>1 DEF Fetch, NotedIfLate, IsFinished, Finished
  <2>2. CASE job[t].data # NoData => Held(<<job[t].data, "train">>)
    BY <1>1, <2>1, <2>2 DEF Fetch, Moved, Unfinished
  <2>3. CASE ~ (job[t].data # NoData => Held(<<job[t].data, "train">>))
    BY <1>1, <2>1, <2>3 DEF Fetch, Ended, Finished
  <2>4. QED
    BY <2>2, <2>3
<1>2. ASSUME NEW t \in Job, Requeue(t)
      PROVE  Moved(t)
  <2>1. job[t].status # "absent" /\ NotedIfLate(t) /\ ends' = ends
    BY <1>2 DEF Requeue, Written, NotedIfLate
  <2>2. job[t] \in JobRecord /\ job' = [job EXCEPT ![t] = [job[t] EXCEPT !.status = "queued"]]
    BY <1>2 DEF Requeue, TypeOK
  <2>3. [job[t] EXCEPT !.status = "queued"] =
          [job[t] EXCEPT !.status = "queued", !.ran = job[t].ran]
    BY <2>2 DEF JobRecord
  <2>4. job[t].ran \in BOOLEAN
    BY <2>2 DEF JobRecord
  <2>5. QED
    BY <2>1, <2>2, <2>3, <2>4 DEF Moved, Unfinished
<1>3. ASSUME NEW t \in Job, Complete(t)
      PROVE  Ended(t)
  BY <1>3 DEF Complete, Written, NotedIfLate, Ended, Finished, RunsWereQueued
<1>4. ASSUME NEW t \in Job, End(t)
      PROVE  Ended(t)
  BY <1>4 DEF End, Written, NotedIfLate, Ended, Finished
<1>5. ASSUME NEW t \in Job, ReadHoldout(t)
      PROVE  UNCHANGED tasks
  BY <1>5 DEF ReadHoldout, tasks
<1>6. CASE Sweeping
  BY <1>6 DEF Sweeping, Deleting, ReadFinished, ReadReferenced, DeleteOrphans, Measure, EndPass,
              LookUp, ForgetDue, ForgetForSpace, DeleteHalf, tasks
<1>7. QED
  BY <1>1, <1>2, <1>3, <1>4, <1>5, <1>6
     DEF Elsewhere, Machines, Time, StoreAges, Restart, vars, tasks

LEMMA JobSteps ==
    ASSUME TypeOK, RunsWereQueued, [Next]_vars
    PROVE  \/ UNCHANGED tasks
           \/ \E t \in Job : Inserted(t) \/ Ended(t) \/ Moved(t) \/ JobAges(t)
           \/ \E f \in sweep.forget : Mark(f)
<1>1. ASSUME NEW d \in Data, NEW o \in Owner \union {NoOwner}, InsertJob(d, o)
      PROVE  \E t \in Job : Inserted(t)
  <2>1. PICK t \in Unused : job' = [job EXCEPT ![t] = Queued(d, o, NoJob)]
    BY <1>1, QueriesSelect DEF InsertJob
  <2>2. QED
    BY <1>1, <2>1 DEF InsertJob, Inserted, Unused
<1>2. ASSUME NEW r \in retries, InsertRetry(r)
      PROVE  \E t \in Job : Inserted(t)
  <2>1. PICK t \in Unused : job' = [job EXCEPT ![t] = Queued(r.data, r.owner, r.of)]
    BY <1>2, QueriesSelect DEF InsertRetry
  <2>2. r \in Retry
    BY DEF TypeOK
  <2>3. QED
    BY <1>2, <2>1, <2>2 DEF InsertRetry, Inserted, Unused, Retry
<1>3. CASE Submitters
  BY <1>1, <1>2, <1>3
     DEF Submitters, Upload, WriteTrain, WriteHoldout, Refuse, ReadOriginal, RefuseRetry, Link, tasks
<1>4. CASE Elsewhere
  BY <1>4, JobStepsElsewhere
<1>5. QED
  BY <1>3, <1>4 DEF Next, Elsewhere

LEMMA Inserting ==
    ASSUME TypeOK, NEW t \in Job, job[t].status = "absent", NEW d, NEW o, NEW x,
           job' = [job EXCEPT ![t] = Queued(d, o, x)]
    PROVE  /\ OthersSame(t)
           /\ job'[t].status = "queued" /\ job'[t].age = "young" /\ job'[t].place = 0
           /\ job'[t].data = d /\ job'[t].of = x /\ ~ job'[t].ran
           /\ ~ IsFinished(t) /\ ~ IsFinished(t)' /\ ~ IsUnfinished(t)
BY DEF TypeOK, OthersSame, Queued, IsFinished, IsUnfinished, Finished, Unfinished

LEMMA Insertion ==
    ASSUME TypeOK, NEW t \in Job, Inserted(t)
    PROVE  /\ OthersSame(t) /\ job[t].status = "absent" /\ ends' = ends /\ late' = late
           /\ job'[t].status = "queued" /\ job'[t].age = "young" /\ job'[t].place = 0
           /\ ~ job'[t].ran
           /\ ~ IsFinished(t) /\ ~ IsFinished(t)' /\ ~ IsUnfinished(t)
<1>1. PICK d \in Data, o \in Owner \union {NoOwner}, x \in Job \union {NoJob} :
        job' = [job EXCEPT ![t] = Queued(d, o, x)]
  BY DEF Inserted
<1>2. job[t].status = "absent" /\ ends' = ends /\ late' = late
  BY DEF Inserted
<1>3. QED
  BY <1>1, <1>2, Inserting

LEMMA Finishing ==
    ASSUME TypeOK, NEW t \in Job, Ended(t)
    PROVE  /\ OthersSame(t)
           /\ job'[t].data = job[t].data /\ job'[t].of = job[t].of
           /\ job'[t].age = "young" /\ job'[t].place = ends + 1 /\ ends' = ends + 1
           /\ ends \in Nat /\ job'[t].status # "absent"
           /\ IsFinished(t)' /\ ~ IsUnfinished(t)'
<1>1. PICK status \in Finished : Finish(t, status)
  BY DEF Ended
<1>2. job[t] \in JobRecord /\ ends \in Nat
  BY DEF TypeOK
<1>3. job'[t] = [job[t] EXCEPT !.status = status, !.age = "young", !.place = ends + 1]
  BY <1>1 DEF Finish, TypeOK
<1>4. OthersSame(t) /\ ends' = ends + 1
  BY <1>1 DEF Finish, TypeOK, OthersSame
<1>5. /\ job'[t].data = job[t].data /\ job'[t].of = job[t].of
      /\ job'[t].age = "young" /\ job'[t].place = ends + 1 /\ job'[t].status = status
  BY <1>2, <1>3 DEF JobRecord
<1>6. QED
  BY <1>1, <1>2, <1>4, <1>5 DEF IsFinished, IsUnfinished, Finished, Unfinished

LEMMA Moving ==
    ASSUME TypeOK, NEW t \in Job, Moved(t)
    PROVE  /\ OthersSame(t)
           /\ job'[t].data = job[t].data /\ job'[t].of = job[t].of
           /\ job'[t].age = job[t].age /\ job'[t].place = job[t].place
           /\ job'[t].status # "absent" /\ ~ IsFinished(t)' /\ ends' = ends
<1>1. PICK status \in Unfinished, ran \in BOOLEAN :
        job' = [job EXCEPT ![t] = [job[t] EXCEPT !.status = status, !.ran = ran]]
  BY DEF Moved
<1>2. job[t] \in JobRecord /\ ends' = ends
  BY DEF TypeOK, Moved
<1>3. OthersSame(t) /\ job'[t] = [job[t] EXCEPT !.status = status, !.ran = ran]
  BY <1>1 DEF TypeOK, OthersSame
<1>4. /\ job'[t].data = job[t].data /\ job'[t].of = job[t].of /\ job'[t].status = status
      /\ job'[t].age = job[t].age /\ job'[t].place = job[t].place
  BY <1>2, <1>3 DEF JobRecord
<1>5. QED
  BY <1>1, <1>2, <1>3, <1>4 DEF IsFinished, Finished, Unfinished

LEMMA Aging ==
    ASSUME TypeOK, NEW t \in Job, JobAges(t)
    PROVE  /\ OthersSame(t) /\ ends' = ends /\ late' = late
           /\ job'[t].data = job[t].data /\ job'[t].of = job[t].of /\ job'[t].ran = job[t].ran
           /\ job'[t].status = job[t].status /\ job'[t].place = job[t].place
           /\ IsFinished(t) /\ IsFinished(t)' /\ t \notin verifying
           /\ job'[t].age # "young"
           /\ job[t].age # "young" \/ \A u \in Job : IsFinished(u) /\ job[u].place < job[t].place
                                                      => job[u].age # "young"
BY DEF JobAges, BecomesOlder, TypeOK, JobRecord, OthersSame, IsFinished

LEMMA Marking ==
    ASSUME TypeOK, NEW f \in sweep.forget, Mark(f)
    PROVE  /\ \A u \in Job : /\ job'[u].of = job[u].of /\ job'[u].status = job[u].status
                             /\ job'[u].age = job[u].age /\ job'[u].place = job[u].place
                             /\ job'[u].ran = job[u].ran
                             /\ job'[u].data \in {job[u].data, NoData}
                             /\ u # f.job => job'[u].data = job[u].data
                             /\ IsFinished(u)' <=> IsFinished(u)
           /\ ends' = ends /\ late' = late
BY DEF Mark, TypeOK, JobRecord, IsFinished

LEMMA RunsStep == TypeOK /\ RunsWereQueued /\ [Next]_vars => RunsWereQueued'
<1> SUFFICES ASSUME TypeOK, RunsWereQueued, [Next]_vars
             PROVE  RunsWereQueued'
  OBVIOUS
<1> USE DEF RunsWereQueued
<1>1. ASSUME NEW t \in Job, Inserted(t) \/ Ended(t) \/ Moved(t) \/ JobAges(t)
      PROVE  RunsWereQueued'
  <2>1. OthersSame(t) /\ (job'[t].ran => job'[t].status # "absent")
    <3>1. CASE Inserted(t)
      BY <3>1, Insertion
    <3>2. CASE Ended(t)
      BY <3>2, Finishing
    <3>3. CASE Moved(t)
      BY <3>3, Moving
    <3>4. CASE JobAges(t)
      BY <3>4, Aging
    <3>5. QED
      BY <1>1, <3>1, <3>2, <3>3, <3>4
  <2>2. QED
    BY <2>1 DEF OthersSame
<1>2. ASSUME NEW f \in sweep.forget, Mark(f)
      PROVE  RunsWereQueued'
  BY <1>2, Marking
<1>3. QED
  BY <1>1, <1>2, JobSteps DEF tasks

(* What a step leaves alone: a finished job that is not written to late    *)
(* stays where it is, and any job that finishes comes after all that had.  *)
Stays(u) ==
    /\ job[u].status # "absent" =>
         /\ job'[u].status # "absent" /\ job'[u].of = job[u].of
         /\ job'[u].data \in {job[u].data, NoData}
    /\ IsFinished(u) /\ u \notin late' =>
         /\ IsFinished(u)' /\ job'[u].place = job[u].place
         /\ job[u].age # "young" => job'[u].age # "young"
    /\ IsFinished(u)' => \/ IsFinished(u) /\ job'[u].place = job[u].place
                         \/ job'[u].place = ends + 1
    /\ IsUnfinished(u)' /\ u \notin late' => IsUnfinished(u) \/ job[u].status = "absent"

LEMMA JobsStay ==
    ASSUME TypeOK, RunsWereQueued, [Next]_vars
    PROVE  late \subseteq late' /\ \A u \in Job : Stays(u)
<1>0. \A u \in Job : job[u].status = "absent" \/ IsFinished(u) \/ IsUnfinished(u)
  BY DEF TypeOK, JobRecord, IsFinished, IsUnfinished
<1>1. CASE UNCHANGED tasks
  BY <1>1 DEF tasks, Stays, IsFinished, IsUnfinished
<1>2. ASSUME NEW t \in Job, Inserted(t) \/ Ended(t) \/ Moved(t) \/ JobAges(t)
      PROVE  late \subseteq late' /\ \A u \in Job : Stays(u)
  <2>1. OthersSame(t) /\ late \subseteq late'
    BY <1>2, Insertion, Finishing, Moving, Aging DEF Ended, Moved, NotedIfLate
  <2>2. \A u \in Job \ {t} : Stays(u)
    BY <2>1 DEF OthersSame, Stays, IsFinished, IsUnfinished
  <2>3. CASE Inserted(t)
    BY <2>1, <2>2, <2>3, Insertion DEF Stays
  <2>4. CASE Ended(t)
    <3>1. IsFinished(t) => t \in late'
      BY <2>4 DEF Ended, NotedIfLate
    <3>2. QED
      BY <2>1, <2>2, <2>4, <3>1, Finishing DEF Stays
  <2>5. CASE Moved(t)
    <3>1. IsFinished(t) => t \in late'
      BY <2>5 DEF Moved, NotedIfLate
    <3>2. QED
      BY <1>0, <2>1, <2>2, <2>5, <3>1, Moving DEF Stays
  <2>6. CASE JobAges(t)
    BY <2>1, <2>2, <2>6, Aging DEF Stays, IsFinished, IsUnfinished, Finished, Unfinished
  <2>7. QED
    BY <1>2, <2>3, <2>4, <2>5, <2>6
<1>3. ASSUME NEW f \in sweep.forget, Mark(f)
      PROVE  late \subseteq late' /\ \A u \in Job : Stays(u)
  BY <1>3, Marking DEF Stays, IsUnfinished
<1>4. QED
  BY <1>1, <1>2, <1>3, JobSteps

-----------------------------------------------------------------------------
LEMMA OrderStep ==
    TypeOK /\ RunsWereQueued /\ FinishedInOrder /\ [Next]_vars => FinishedInOrder'
<1> SUFFICES ASSUME TypeOK, RunsWereQueued, FinishedInOrder, [Next]_vars
             PROVE  FinishedInOrder'
  OBVIOUS
<1> USE DEF FinishedInOrder, Before
<1>0. ends \in Nat /\ \A u \in Job : job[u].place \in Nat
  BY DEF TypeOK, JobRecord
<1>1. CASE UNCHANGED tasks
  BY <1>1 DEF tasks, IsFinished
<1>2. ASSUME NEW t \in Job, Inserted(t) \/ Moved(t)
      PROVE  FinishedInOrder'
  <2>1. OthersSame(t) /\ ~ IsFinished(t)' /\ ends' = ends /\ job'[t].place \in {0, job[t].place}
    BY <1>2, Insertion, Moving
  <2>2. \A u \in Job \ {t} : job'[u] = job[u] /\ (IsFinished(u)' <=> IsFinished(u))
    BY <2>1 DEF OthersSame, IsFinished
  <2>3. QED
    BY <1>0, <2>1, <2>2
<1>3. ASSUME NEW t \in Job, Ended(t)
      PROVE  FinishedInOrder'
  <2>1. /\ OthersSame(t) /\ job'[t].age = "young" /\ job'[t].place = ends + 1
        /\ ends' = ends + 1
    BY <1>3, Finishing
  <2>2. \A u \in Job \ {t} : job'[u] = job[u] /\ (IsFinished(u)' <=> IsFinished(u))
    BY <2>1 DEF OthersSame, IsFinished
  <2>3. \A u \in Job \ {t} : ~ (ends + 1 < job[u].place) /\ job[u].place <= ends + 1
    BY <1>0
  <2>4. QED
    BY <1>0, <2>1, <2>2, <2>3
<1>4. ASSUME NEW t \in Job, JobAges(t)
      PROVE  FinishedInOrder'
  <2>1. /\ OthersSame(t) /\ job'[t].place = job[t].place /\ ends' = ends
        /\ IsFinished(t) /\ IsFinished(t)' /\ job'[t].age # "young"
        /\ job[t].age # "young" \/ \A u \in Job : IsFinished(u) /\ Before(u, t)
                                                   => job[u].age # "young"
    BY <1>4, Aging
  <2>2. \A u \in Job \ {t} : job'[u] = job[u] /\ (IsFinished(u)' <=> IsFinished(u))
    BY <2>1 DEF OthersSame, IsFinished
  <2>3. QED
    BY <2>1, <2>2
<1>5. ASSUME NEW f \in sweep.forget, Mark(f)
      PROVE  FinishedInOrder'
  BY <1>5, Marking
<1>6. QED
  BY <1>1, <1>2, <1>3, <1>4, <1>5, JobSteps

(* The jobs point at nothing new unless a submitter takes a step. *)
LEMMA PointersShrink ==
    ASSUME TypeOK, RunsWereQueued, Elsewhere
    PROVE  /\ \A u \in Job : job'[u].of = job[u].of /\ job'[u].data \in {job[u].data, NoData}
           /\ DataOfJobs' \subseteq DataOfJobs \union {NoData}
<1> DEFINE Kept(u) == job'[u].of = job[u].of /\ job'[u].data \in {job[u].data, NoData}
<1>1. ASSUME UNCHANGED tasks
      PROVE  \A u \in Job : Kept(u)
  BY <1>1 DEF tasks
<1>2. ASSUME NEW t \in Job, Ended(t) \/ Moved(t) \/ JobAges(t)
      PROVE  \A u \in Job : Kept(u)
  BY <1>2, Finishing, Moving, Aging DEF OthersSame
<1>3. ASSUME NEW f \in sweep.forget, Mark(f)
      PROVE  \A u \in Job : Kept(u)
  BY <1>3, Marking
<1>4. \A u \in Job : Kept(u)
  BY <1>1, <1>2, <1>3, JobStepsElsewhere
<1>5. QED
  BY <1>4 DEF DataOfJobs

LEMMA SplitsInsert ==
    ASSUME TypeOK, SplitsAreNew, NEW t \in Job, job[t].status = "absent",
           NEW e, NEW o, NEW x, job' = [job EXCEPT ![t] = Queued(e, o, x)],
           store' = store, DataOfRetries' \subseteq DataOfRetries,
           \/ e \in DataOfRetries /\ splits' = splits
           \/ e \in Data /\ splits[e] = "holdout" /\ splits' = [splits EXCEPT ![e] = "none"]
    PROVE  SplitsAreNew'
<1>1. OthersSame(t) /\ job'[t].data = e
  BY Inserting
<1>2. DataOfJobs' \subseteq DataOfJobs \union {e}
  BY <1>1 DEF DataOfJobs, OthersSame
<1>3. CASE e \in DataOfRetries /\ splits' = splits
  BY <1>2, <1>3 DEF SplitsAreNew
<1>4. CASE e \in Data /\ splits[e] = "holdout" /\ splits' = [splits EXCEPT ![e] = "none"]
  <2>1. store[<<e, "train">>] = "fresh"
    BY <1>4 DEF SplitsAreNew
  <2>2. \A d \in Data : d # e => splits'[d] = splits[d]
    BY <1>4 DEF TypeOK
  <2>3. splits'[e] = "none"
    BY <1>4 DEF TypeOK
  <2>4. \A d \in Data : d # e /\ d \notin DataOfJobs \union DataOfRetries
                          => d \notin DataOfJobs' \union DataOfRetries'
    BY <1>2
  <2>5. store' = store
    OBVIOUS
  <2>6. ASSUME NEW d \in Data
        PROVE  /\ splits'[d] # "none" => store'[<<d, "train">>] = "fresh"
               /\ splits'[d] = "holdout" => store'[<<d, "holdout">>] = "fresh"
               /\ splits'[d] # "none" \/ store'[<<d, "train">>] = "unwritten"
                    => d \notin DataOfJobs' \union DataOfRetries'
    <3>1. CASE d = e
      BY <2>1, <2>3, <2>5, <3>1
    <3>2. CASE d # e
      BY <2>2, <2>4, <2>5, <3>2 DEF SplitsAreNew
    <3>3. QED
      BY <3>1, <3>2
  <2>7. QED
    BY <2>6 DEF SplitsAreNew
<1>5. QED
  BY <1>3, <1>4

(* Away from the submitters, blobs only age and go, and none of a job that *)
(* is being prepared.                                                      *)
LEMMA StoreElsewhere ==
    ASSUME TypeOK, SplitsAreNew, Elsewhere
    PROVE  \A d \in Data, k \in Half :
             LET a == <<d, k>> IN
             \/ store'[a] = store[a]
             \/ /\ store[a] # "unwritten" /\ store'[a] # "unwritten"
                /\ store[a] = "old" \/ splits[d] = "none"
<1> DEFINE Goes(d, k) ==
        LET a == <<d, k>> IN
        \/ store'[a] = store[a]
        \/ /\ store[a] # "unwritten" /\ store'[a] # "unwritten"
           /\ store[a] = "old" \/ splits[d] = "none"
<1> SUFFICES ASSUME NEW d \in Data, NEW k \in Half
             PROVE  Goes(d, k)
  OBVIOUS
<1>0. <<d, k>> \in Artifact
  BY ArtifactsAreNamed DEF Artifact
<1> USE DEF clients, tasks, notes
<1>1. CASE Machines \/ Restart \/ UNCHANGED vars \/ \E t \in Job : JobAges(t)
  BY <1>1 DEF Machines, Fetch, Requeue, Complete, End, ReadHoldout, Restart, vars, JobAges
<1>2. ASSUME NEW e \in Data, StoreAges(e)
      PROVE  Goes(d, k)
  <2>1. store'[<<d, k>>] = IF d = e /\ store[<<d, k>>] = "fresh" THEN "old" ELSE store[<<d, k>>]
    BY <1>0, <1>2 DEF StoreAges
  <2>2. splits[e] = "none"
    BY <1>2 DEF StoreAges
  <2>3. QED
    BY <2>1, <2>2
<1>3. CASE DeleteOrphans
  <2>1. store'[<<d, k>>] = IF Orphaned(<<d, k>>) THEN "deleted" ELSE store[<<d, k>>]
    BY <1>0, <1>3 DEF DeleteOrphans
  <2>2. QED
    BY <2>1 DEF Orphaned
<1>4. ASSUME NEW f \in sweep.forget, DeleteHalf(f)
      PROVE  Goes(d, k)
  <2>1. f.job \in Job
    BY DEF TypeOK, Sweep, Forgetting
  <2>2. CASE store'[<<d, k>>] # store[<<d, k>>]
    <3>1. <<d, k>> = <<job[f.job].data, f.step>> /\ Held(<<d, k>>)
      BY <1>0, <1>4, <2>2 DEF DeleteHalf, TypeOK
    <3>2. splits[d] = "none"
      BY <2>1, <3>1 DEF SplitsAreNew, DataOfJobs
    <3>3. store'[<<d, k>>] = "deleted"
      BY <1>0, <1>4, <3>1 DEF DeleteHalf, TypeOK
    <3>4. QED
      BY <3>1, <3>2, <3>3 DEF Held
  <2>3. QED
    BY <2>2
<1>5. CASE Sweeping
  BY <1>3, <1>4, <1>5 DEF Sweeping, Deleting, ReadFinished, ReadReferenced, Measure, EndPass,
                          LookUp, ForgetDue, ForgetForSpace, Mark
<1>6. QED
  BY <1>1, <1>2, <1>5 DEF Elsewhere, Time

LEMMA OthersKeepSplits ==
    ASSUME Elsewhere
    PROVE  /\ DataOfRetries' \subseteq DataOfRetries
           /\ \A d \in Data : splits'[d] \in {splits[d], "none"}
<1> USE DEF clients, tasks, notes
<1>1. CASE Machines \/ Time
  BY <1>1 DEF Machines, Fetch, Requeue, Complete, End, ReadHoldout,
              Time, StoreAges, JobAges, DataOfRetries
<1>2. CASE Sweeping
  BY <1>2 DEF Sweeping, Deleting, ReadFinished, ReadReferenced, DeleteOrphans, Measure,
              EndPass, LookUp, ForgetDue, ForgetForSpace, DeleteHalf, Mark, DataOfRetries
<1>3. CASE Restart \/ UNCHANGED vars
  BY <1>3 DEF Restart, vars, DataOfRetries
<1>4. QED
  BY <1>1, <1>2, <1>3 DEF Elsewhere

LEMMA SplitsStep ==
    TypeOK /\ RunsWereQueued /\ SplitsAreNew /\ [Next]_vars => SplitsAreNew'
<1> SUFFICES ASSUME TypeOK, RunsWereQueued, SplitsAreNew, [Next]_vars
             PROVE  SplitsAreNew'
  OBVIOUS
<1> USE DEF clients, tasks, notes
<1>1. ASSUME NEW d \in Data, NEW o \in Owner \union {NoOwner}, InsertJob(d, o)
      PROVE  SplitsAreNew'
  <2>1. PICK t \in Unused : job' = [job EXCEPT ![t] = Queued(d, o, NoJob)]
    BY <1>1, QueriesSelect DEF InsertJob
  <2>2. QED
    BY <1>1, <2>1, SplitsInsert DEF InsertJob, Unused, DataOfRetries
<1>2. ASSUME NEW r \in retries, InsertRetry(r)
      PROVE  SplitsAreNew'
  <2>1. PICK t \in Unused : job' = [job EXCEPT ![t] = Queued(r.data, r.owner, r.of)]
    BY <1>2, QueriesSelect DEF InsertRetry
  <2>2. r.data \in DataOfRetries /\ DataOfRetries' \subseteq DataOfRetries
    BY <1>2 DEF InsertRetry, DataOfRetries
  <2>3. QED
    BY <1>2, <2>1, <2>2, SplitsInsert DEF InsertRetry, Unused
<1>3. ASSUME NEW d \in Data, Upload(d) \/ WriteTrain(d) \/ WriteHoldout(d) \/ Refuse(d)
      PROVE  SplitsAreNew'
  <2>1. /\ \A e \in Data, k \in Half : e # d => store'[<<e, k>>] = store[<<e, k>>]
        /\ \A e \in Data : e # d => splits'[e] = splits[e]
    <3>1. store' = store \/ \E k \in {"upload"} \union Half : store' = [store EXCEPT ![<<d, k>>] = "fresh"]
      BY <1>3 DEF Upload, WriteTrain, WriteHoldout, Refuse, Half
    <3>2. splits' = splits \/ \E v : splits' = [splits EXCEPT ![d] = v]
      BY <1>3 DEF Upload, WriteTrain, WriteHoldout, Refuse
    <3>3. \A e \in Data, k \in Half : <<e, k>> \in Artifact
      BY DEF Artifact
    <3>4. QED
      BY <3>1, <3>2, <3>3 DEF TypeOK
  <2>2. DataOfJobs' = DataOfJobs /\ DataOfRetries' = DataOfRetries
    BY <1>3 DEF Upload, WriteTrain, WriteHoldout, Refuse, DataOfJobs, DataOfRetries
  <2>3. CASE Upload(d) \/ Refuse(d)
    BY <2>1, <2>2, <2>3, ArtifactsAreNamed DEF Upload, Refuse, SplitsAreNew, TypeOK, Half
  <2>4. CASE WriteTrain(d)
    BY <2>1, <2>2, <2>4, ArtifactsAreNamed DEF WriteTrain, SplitsAreNew, TypeOK, Half
  <2>5. CASE WriteHoldout(d)
    BY <2>1, <2>2, <2>5, ArtifactsAreNamed DEF WriteHoldout, SplitsAreNew, TypeOK, Half
  <2>6. QED
    BY <1>3, <2>3, <2>4, <2>5
<1>4. ASSUME NEW t \in Job, ReadOriginal(t)
      PROVE  SplitsAreNew'
  <2>1. DataOfRetries' \subseteq DataOfRetries \union DataOfJobs /\ DataOfJobs' = DataOfJobs
    BY <1>4 DEF ReadOriginal, DataOfRetries, DataOfJobs
  <2>2. QED
    BY <1>4, <2>1 DEF ReadOriginal, SplitsAreNew
<1>5. CASE (\E r \in retries : RefuseRetry(r)) \/ (\E o \in Owner : Link(o))
  BY <1>5 DEF RefuseRetry, Link, SplitsAreNew, DataOfJobs, DataOfRetries
<1>6. CASE Submitters
  BY <1>1, <1>2, <1>3, <1>4, <1>5, <1>6 DEF Submitters
<1>7. CASE Elsewhere
  <2>1. DataOfJobs' \subseteq DataOfJobs \union {NoData}
    BY <1>7, PointersShrink
  <2>2. /\ DataOfRetries' \subseteq DataOfRetries
        /\ \A d \in Data : splits'[d] \in {splits[d], "none"}
    BY <1>7, OthersKeepSplits
  <2>3. \A d \in Data, k \in Half :
            LET a == <<d, k>> IN
            \/ store'[a] = store[a]
            \/ /\ store[a] # "unwritten" /\ store'[a] # "unwritten"
               /\ store[a] = "old" \/ splits[d] = "none"
    BY <1>7, StoreElsewhere
  <2>4. QED
    BY <2>1, <2>2, <2>3, ArtifactsAreNamed DEF SplitsAreNew, Half
<1>8. QED
  BY <1>6, <1>7 DEF Next, Elsewhere

(* A job inserted with data that only finished first submissions had, and  *)
(* as a retry, or with data nobody had.                                    *)
LEMMA SharedInsert ==
    ASSUME TypeOK, SharedAfterTheEnd, NEW t \in Job, job[t].status = "absent",
           NEW e, NEW o, NEW x, job' = [job EXCEPT ![t] = Queued(e, o, x)],
           late' = late, DataOfRetries' \subseteq DataOfRetries,
           \/ x # NoJob /\ e \in DataOfRetries
           \/ e \notin DataOfJobs \union DataOfRetries
    PROVE  SharedAfterTheEnd'
<1>1. /\ OthersSame(t) /\ job'[t].data = e /\ job'[t].of = x
      /\ ~ IsFinished(t) /\ ~ IsFinished(t)'
  <2>1. OthersSame(t) /\ job'[t].data = e
    BY Inserting
  <2>2. job'[t].of = x
    BY DEF Queued, TypeOK
  <2>3. ~ IsFinished(t) /\ ~ IsFinished(t)'
    BY Inserting
  <2>4. QED
    BY <2>1, <2>2, <2>3
<1>2. \A u \in Job \ {t} : /\ job'[u] = job[u] /\ (IsFinished(u)' <=> IsFinished(u))
                           /\ FirstRun(u)' <=> FirstRun(u)
  BY <1>1 DEF OthersSame, IsFinished, FirstRun
<1>3. FirstRun(t)' <=> x = NoJob
  BY <1>1 DEF FirstRun
<1>4. e \in DataOfJobs \/ \A u \in Job : job[u].data # e
  BY DEF DataOfJobs
<1>5. ASSUME NEW u \in Job, NEW w \in Job, u # w, SharesDataOf(w, u)'
      PROVE  /\ ~ FirstRun(w)'
             /\ u \notin late' => IsFinished(u)' /\ (IsFinished(w)' => Before(u, w)')
  <2>1. CASE u # t /\ w # t
    BY <1>2, <1>5, <2>1 DEF SharedAfterTheEnd, SharesDataOf, Before
  <2>2. CASE u = t
    <3>1. job[w].data = e /\ x = NoJob
      BY <1>1, <1>2, <1>3, <1>5, <2>2 DEF SharesDataOf
    <3>2. QED
      BY <3>1 DEF DataOfJobs
  <2>3. CASE w = t
    <3>1. FirstRun(u) /\ job[u].data = e
      BY <1>1, <1>2, <1>5, <2>3 DEF SharesDataOf
    <3>2. x # NoJob /\ e \in DataOfRetries
      BY <3>1 DEF DataOfJobs
    <3>3. u \notin late => IsFinished(u)
      BY <3>1, <3>2 DEF SharedAfterTheEnd
    <3>4. QED
      BY <1>1, <1>2, <1>3, <1>5, <2>3, <3>2, <3>3
  <2>4. QED
    BY <1>5, <2>1, <2>2, <2>3
<1>6. ASSUME NEW u \in Job \ late', FirstRun(u)', job'[u].data \in DataOfRetries'
      PROVE  IsFinished(u)'
  <2>1. CASE u = t
    BY <1>1, <1>3, <1>6, <2>1
  <2>2. CASE u # t
    BY <1>2, <1>6, <2>2 DEF SharedAfterTheEnd
  <2>3. QED
    BY <2>1, <2>2
<1>7. QED
  BY <1>5, <1>6 DEF SharedAfterTheEnd

LEMMA SharedStep ==
    TypeOK /\ RunsWereQueued /\ FinishedInOrder /\ SplitsAreNew /\ SharedAfterTheEnd /\ [Next]_vars
      => SharedAfterTheEnd'
<1> SUFFICES ASSUME TypeOK, RunsWereQueued, FinishedInOrder, SplitsAreNew, SharedAfterTheEnd,
                    [Next]_vars
             PROVE  SharedAfterTheEnd'
  OBVIOUS
<1> USE DEF clients, tasks, notes
<1>1. ASSUME NEW d \in Data, NEW o \in Owner \union {NoOwner}, InsertJob(d, o)
      PROVE  SharedAfterTheEnd'
  <2>1. PICK t \in Unused : job' = [job EXCEPT ![t] = Queued(d, o, NoJob)]
    BY <1>1, QueriesSelect DEF InsertJob
  <2>2. d \notin DataOfJobs \union DataOfRetries
    BY <1>1 DEF InsertJob, SplitsAreNew
  <2>3. DataOfRetries' \subseteq DataOfRetries /\ late' = late
    BY <1>1 DEF InsertJob, DataOfRetries
  <2>4. t \in Job /\ job[t].status = "absent"
    BY DEF Unused
  <2>5. QED
    BY <2>1, <2>2, <2>3, <2>4, SharedInsert
<1>2. ASSUME NEW r \in retries, InsertRetry(r)
      PROVE  SharedAfterTheEnd'
  <2>1. PICK t \in Unused : job' = [job EXCEPT ![t] = Queued(r.data, r.owner, r.of)]
    BY <1>2, QueriesSelect DEF InsertRetry
  <2>2. r.data \in DataOfRetries /\ DataOfRetries' \subseteq DataOfRetries /\ late' = late
    BY <1>2 DEF InsertRetry, DataOfRetries
  <2>3. r.of # NoJob
    BY ArtifactsAreNamed DEF TypeOK, Retry
  <2>4. t \in Job /\ job[t].status = "absent"
    BY DEF Unused
  <2>5. QED
    BY <2>1, <2>2, <2>3, <2>4, SharedInsert
<1>3. ASSUME NEW t \in Job, ReadOriginal(t)
      PROVE  SharedAfterTheEnd'
  <2>1. /\ job' = job /\ late' = late /\ HasData(t)
        /\ DataOfRetries' \subseteq DataOfRetries \union {job[t].data}
    BY <1>3 DEF ReadOriginal, DataOfRetries
  <2>2. \A u \in Job \ late : FirstRun(u) /\ job[u].data = job[t].data => IsFinished(u)
    BY <2>1 DEF SharedAfterTheEnd, SharesDataOf, HasData
  <2>3. QED
    BY <2>1, <2>2 DEF SharedAfterTheEnd, SharesDataOf, FirstRun, IsFinished, Before
<1>4. ASSUME job' = job, late' = late, retries' \subseteq retries
      PROVE  SharedAfterTheEnd'
  <2>1. DataOfRetries' \subseteq DataOfRetries
    BY <1>4 DEF DataOfRetries
  <2>2. QED
    BY <1>4, <2>1 DEF SharedAfterTheEnd, SharesDataOf, FirstRun, IsFinished, Before
<1>5. CASE Submitters
  BY <1>1, <1>2, <1>3, <1>4, <1>5
     DEF Submitters, Upload, WriteTrain, WriteHoldout, Refuse, RefuseRetry, Link
<1>6. CASE Elsewhere
  <2>1. \A u \in Job : job'[u].of = job[u].of /\ job'[u].data \in {job[u].data, NoData}
    BY <1>6, PointersShrink
  <2>2. late \subseteq late' /\ \A u \in Job : Stays(u)
    BY JobsStay
  <2>3. DataOfRetries' \subseteq DataOfRetries
    BY <1>6, OthersKeepSplits
  <2>4. NoData \notin DataOfRetries
    BY ArtifactsAreNamed DEF TypeOK, Retry, DataOfRetries
  <2>5. ASSUME NEW t \in Job, NEW u \in Job, t # u, SharesDataOf(u, t)'
        PROVE  /\ ~ FirstRun(u)'
               /\ t \notin late' => IsFinished(t)' /\ (IsFinished(u)' => Before(t, u)')
    <3>1. SharesDataOf(u, t)
      BY <2>1, <2>5 DEF SharesDataOf, FirstRun
    <3>2. ~ FirstRun(u)'
      BY <2>1, <2>5, <3>1 DEF SharedAfterTheEnd, FirstRun
    <3>3. ASSUME t \notin late'
          PROVE  IsFinished(t)' /\ (IsFinished(u)' => Before(t, u)')
      <4>1. IsFinished(t) /\ (IsFinished(u) => Before(t, u))
        BY <2>2, <2>5, <3>1, <3>3 DEF SharedAfterTheEnd
      <4>2. IsFinished(t)' /\ job'[t].place = job[t].place
        BY <2>2, <3>3, <4>1 DEF Stays
      <4>3. job[t].place <= ends /\ ends \in Nat /\ job[t].place \in Nat
        BY DEF FinishedInOrder, TypeOK, JobRecord
      <4>4. job[t].place < ends + 1
        BY <4>3
      <4>5. QED
        BY <2>2, <4>1, <4>2, <4>4 DEF Stays, Before
    <3>4. QED
      BY <3>2, <3>3
  <2>6. ASSUME NEW t \in Job \ late', FirstRun(t)', job'[t].data \in DataOfRetries'
        PROVE  IsFinished(t)'
    <3>1. FirstRun(t) /\ job[t].data \in DataOfRetries
      BY <2>1, <2>3, <2>4, <2>6 DEF FirstRun
    <3>2. IsFinished(t)
      BY <2>2, <2>6, <3>1 DEF SharedAfterTheEnd
    <3>3. QED
      BY <2>2, <2>6, <3>2 DEF Stays
  <2>7. QED
    BY <2>5, <2>6 DEF SharedAfterTheEnd
<1>7. QED
  BY <1>5, <1>6 DEF Next, Elsewhere

LEMMA VerifyingGrows ==
    ASSUME [Next]_vars
    PROVE  /\ verifying' \subseteq verifying \/ \E t \in Job : Complete(t)
           /\ squeezed \subseteq squeezed'
<1> USE DEF clients, tasks, notes
<1>1. CASE Submitters
  BY <1>1 DEF Submitters, Upload, WriteTrain, WriteHoldout, Refuse, InsertJob,
              ReadOriginal, InsertRetry, RefuseRetry, Link
<1>2. CASE Machines
  BY <1>2 DEF Machines, Fetch, Requeue, Complete, End, ReadHoldout
<1>3. CASE Time \/ Restart \/ UNCHANGED vars
  BY <1>3 DEF Time, StoreAges, JobAges, Restart, vars
<1>4. CASE Sweeping
  BY <1>4 DEF Sweeping, Deleting, ReadFinished, ReadReferenced, DeleteOrphans, Measure,
              EndPass, LookUp, ForgetDue, ForgetForSpace, DeleteHalf, Mark
<1>5. QED
  BY <1>1, <1>2, <1>3, <1>4 DEF Next

LEMMA VerifyingStep ==
    TypeOK /\ RunsWereQueued /\ VerifyingIsYoung /\ [Next]_vars => VerifyingIsYoung'
<1> SUFFICES ASSUME TypeOK, RunsWereQueued, VerifyingIsYoung, [Next]_vars
             PROVE  VerifyingIsYoung'
  OBVIOUS
<1>1. ASSUME NEW u \in verifying, u \notin late'
      PROVE  IsFinished(u)' /\ job'[u].age = "young"
  <2>1. late \subseteq late'
    BY JobsStay
  <2>2. u \in Job /\ IsFinished(u) /\ job[u].age = "young"
    BY <1>1, <2>1 DEF TypeOK, VerifyingIsYoung
  <2>3. CASE UNCHANGED tasks
    BY <2>2, <2>3 DEF tasks, IsFinished
  <2>4. ASSUME NEW t \in Job, Inserted(t) \/ Ended(t) \/ Moved(t) \/ JobAges(t)
        PROVE  IsFinished(u)' /\ job'[u].age = "young"
    <3>1. u # t
      BY <1>1, <2>2, <2>4, Insertion, Aging DEF Ended, Moved, NotedIfLate
    <3>2. OthersSame(t)
      BY <2>4, Insertion, Finishing, Moving, Aging
    <3>3. QED
      BY <2>2, <3>1, <3>2 DEF OthersSame, IsFinished
  <2>5. ASSUME NEW f \in sweep.forget, Mark(f)
        PROVE  IsFinished(u)' /\ job'[u].age = "young"
    BY <2>2, <2>5, Marking
  <2>6. QED
    BY <2>3, <2>4, <2>5, JobSteps
<1>2. CASE verifying' \subseteq verifying
  BY <1>1, <1>2 DEF VerifyingIsYoung
<1>3. ASSUME NEW t \in Job, Complete(t)
      PROVE  VerifyingIsYoung'
  <2>1. Ended(t)
    BY <1>3 DEF Complete, Written, NotedIfLate, Ended, Finished, RunsWereQueued
  <2>2. IsFinished(t)' /\ job'[t].age = "young"
    BY <2>1, Finishing
  <2>3. verifying' \subseteq verifying \union {t}
    BY <1>3 DEF Complete
  <2>4. QED
    BY <1>1, <2>2, <2>3 DEF VerifyingIsYoung
<1>4. QED
  BY <1>2, <1>3, VerifyingGrows

-----------------------------------------------------------------------------
(* No job comes to share a first submission's data but as its retry.       *)
LEMMA SharersAreNotNew ==
    ASSUME TypeOK, RunsWereQueued, SplitsAreNew, [Next]_vars,
           NEW t \in Job, NEW u \in Job, job[u].status # "absent", SharesDataOf(u, t)'
    PROVE  SharesDataOf(u, t)
<1> USE DEF clients, tasks, notes
<1>1. ASSUME NEW d \in Data, NEW o \in Owner \union {NoOwner}, InsertJob(d, o)
      PROVE  SharesDataOf(u, t)
  <2>1. PICK w \in Unused : job' = [job EXCEPT ![w] = Queued(d, o, NoJob)]
    BY <1>1, QueriesSelect DEF InsertJob
  <2>2. w \in Job /\ job[w].status = "absent" /\ w # u
    BY DEF Unused
  <2>3. OthersSame(w) /\ job'[w].data = d
    BY <2>1, <2>2, Inserting
  <2>4. job[u].data # d
    BY <1>1 DEF InsertJob, SplitsAreNew, DataOfJobs
  <2>5. t # w
    BY <2>2, <2>3, <2>4 DEF OthersSame, SharesDataOf
  <2>6. QED
    BY <2>2, <2>3, <2>5 DEF OthersSame, SharesDataOf, FirstRun
<1>2. ASSUME NEW r \in retries, InsertRetry(r)
      PROVE  SharesDataOf(u, t)
  <2>1. PICK w \in Unused : job' = [job EXCEPT ![w] = Queued(r.data, r.owner, r.of)]
    BY <1>2, QueriesSelect DEF InsertRetry
  <2>2. w \in Job /\ job[w].status = "absent" /\ w # u
    BY DEF Unused
  <2>3. r.of # NoJob
    BY ArtifactsAreNamed DEF TypeOK, Retry
  <2>4. job'[w].of = r.of
    BY <2>1, <2>2 DEF TypeOK, Queued
  <2>5. OthersSame(w)
    BY <2>1, <2>2, Inserting
  <2>6. t # w
    BY <2>3, <2>4 DEF SharesDataOf, FirstRun
  <2>7. QED
    BY <2>2, <2>5, <2>6 DEF OthersSame, SharesDataOf, FirstRun
<1>3. CASE job' = job
  BY <1>3 DEF SharesDataOf, FirstRun
<1>4. CASE Submitters
  BY <1>1, <1>2, <1>3, <1>4
     DEF Submitters, Upload, WriteTrain, WriteHoldout, Refuse, ReadOriginal, RefuseRetry, Link
<1>5. CASE Elsewhere
  BY <1>5, PointersShrink DEF SharesDataOf, FirstRun
<1>6. QED
  BY <1>4, <1>5 DEF Next, Elsewhere

(* The sweep's order survives what the jobs do meanwhile. *)
LEMMA SweepOrderKept ==
    ASSUME Typed, RunsWereQueued, SplitsAreNew, SweepIsInOrder, [Next]_vars,
           sweep'.at = sweep.at, sweep'.batch = sweep.batch,
           sweep'.finishedAt = sweep.finishedAt, InHand' \subseteq InHand
    PROVE  SweepIsInOrder'
<1>1. /\ late \subseteq late' /\ squeezed \subseteq squeezed'
      /\ \A u \in Job : Stays(u)
  BY JobsStay, VerifyingGrows DEF Typed
<1>2. Taken \subseteq Job /\ Taken' \subseteq Taken
  <2>1. sweep.batch \subseteq Job /\ InHand \subseteq Job
    BY DEF Typed, TypeOK, Sweep, Forgetting, InHand
  <2>2. Taken' = sweep'.batch \union InHand' /\ Taken = sweep.batch \union InHand
    BY DEF Taken
  <2>3. QED
    BY <2>1, <2>2
<1>3. ASSUME sweep.at \in {"judging", "ceiling"}, NEW u \in Taken
      PROVE  /\ job'[u].status # "absent"
             /\ \A t \in Job : SharesDataOf(u, t)' => SharesDataOf(u, t)
  <2>1. job[u].status # "absent" /\ u \in Job
    BY <1>2, <1>3 DEF SweepIsInOrder
  <2>2. QED
    BY <1>1, <2>1, SharersAreNotNew DEF Stays, Typed
<1>4. ASSUME sweep.at = "judging", NEW u \in Taken', NEW t \in Job \ late', SharesDataOf(u, t)'
      PROVE  IsFinished(t)' /\ job'[t].age # "young"
  <2>1. IsFinished(t) /\ job[t].age # "young"
    BY <1>1, <1>2, <1>3, <1>4 DEF SweepIsInOrder
  <2>2. QED
    BY <1>1, <1>4, <2>1 DEF Stays
<1>5. ASSUME sweep.at = "ceiling", NEW u \in InHand', NEW t \in Job \ late', SharesDataOf(u, t)'
      PROVE  IsFinished(t)' /\ t \in squeezed'
  <2>1. u \in InHand /\ u \in Taken
    BY <1>5 DEF Taken
  <2>2. IsFinished(t) /\ t \in squeezed
    BY <1>1, <1>3, <1>5, <2>1 DEF SweepIsInOrder
  <2>3. QED
    BY <1>1, <1>5, <2>2 DEF Stays
<1>6. ASSUME sweep.at = "ceiling", NEW u \in sweep'.batch, NEW t \in Job \ late',
             SharesDataOf(u, t)'
      PROVE  /\ IsFinished(t)'
             /\ \/ t \in squeezed'
                \/ t \in sweep'.batch
                   /\ (t # u => sweep'.finishedAt[t][2] < sweep'.finishedAt[u][2])
  <2>1. u \in sweep.batch /\ u \in Taken
    BY <1>6 DEF Taken
  <2>2. /\ IsFinished(t)
        /\ \/ t \in squeezed
           \/ t \in sweep.batch
              /\ (t # u => sweep.finishedAt[t][2] < sweep.finishedAt[u][2])
    BY <1>1, <1>3, <1>6, <2>1 DEF SweepIsInOrder
  <2>3. QED
    BY <1>1, <1>6, <2>2 DEF Stays
<1>7. \A u \in Taken' : sweep.at \in {"judging", "ceiling"} => job'[u].status # "absent"
  BY <1>2, <1>3
<1>8. QED
  BY <1>4, <1>5, <1>6, <1>7 DEF SweepIsInOrder

LEMMA SweepOrderStep ==
    Typed /\ RunsWereQueued /\ FinishedInOrder /\ SplitsAreNew /\ SharedAfterTheEnd
          /\ SweepIsInOrder /\ [Next]_vars
      => SweepIsInOrder'
<1> SUFFICES ASSUME Typed, RunsWereQueued, FinishedInOrder, SplitsAreNew, SharedAfterTheEnd,
                    SweepIsInOrder, [Next]_vars
             PROVE  SweepIsInOrder'
  OBVIOUS
<1> USE DEF clients, tasks, notes
<1>1. sweep \in Sweep
  BY DEF Typed, TypeOK
<1>2. CASE Submitters \/ Machines \/ Time \/ UNCHANGED vars
  <2>1. sweep' = sweep
    BY <1>2 DEF Submitters, Upload, WriteTrain, WriteHoldout, Refuse, InsertJob,
                ReadOriginal, InsertRetry, RefuseRetry, Link,
                Machines, Fetch, Requeue, Complete, End, ReadHoldout, vars,
                Time, StoreAges, JobAges
  <2>2. InHand' = InHand
    BY <2>1 DEF InHand
  <2>3. QED
    BY <2>1, <2>2, SweepOrderKept
<1>3. CASE ReadFinished
  <2>1. /\ sweep'.at = "judging" /\ Taken' = sweep'.batch /\ job' = job /\ late' = late
        /\ sweep'.batch = FirstOf({t \in Job : HasData(t) /\ job[t].age # "young"}, BatchSize)
    BY <1>1, <1>3 DEF ReadFinished, Typed, RemovedBounded, Sweep, InHand, Taken
  <2>2. \A u \in Taken' : u \in Job /\ HasData(u) /\ job[u].age # "young"
    BY <2>1, QueriesSelect
  <2>3. \A u \in Taken' : job'[u].status # "absent"
    BY <2>1, <2>2 DEF HasData, IsFinished, Finished
  <2>4. ASSUME NEW u \in Taken', NEW t \in Job \ late', SharesDataOf(u, t)'
        PROVE  IsFinished(t)' /\ job'[t].age # "young"
    <3>1. SharesDataOf(u, t) /\ IsFinished(u) /\ job[u].age # "young" /\ u \in Job
      BY <2>1, <2>2, <2>4 DEF SharesDataOf, FirstRun, HasData
    <3>2. CASE t = u
      BY <2>1, <3>1, <3>2 DEF IsFinished
    <3>3. CASE t # u
      <4>1. IsFinished(t) /\ Before(t, u)
        BY <2>1, <2>4, <3>1, <3>3 DEF SharedAfterTheEnd
      <4>2. job[t].age # "young"
        BY <3>1, <4>1 DEF FinishedInOrder
      <4>3. QED
        BY <2>1, <4>1, <4>2 DEF IsFinished
    <3>4. QED
      BY <3>2, <3>3
  <2>5. QED
    BY <2>1, <2>3, <2>4 DEF SweepIsInOrder
<1>4. CASE ReadReferenced \/ DeleteOrphans \/ EndPass \/ Restart
  <2>1. sweep'.at \notin {"judging", "ceiling"}
    <3>1. CASE ReadReferenced
      BY <1>1, <3>1 DEF ReadReferenced, Sweep
    <3>2. CASE DeleteOrphans
      BY <1>1, <3>2 DEF DeleteOrphans, Sweep
    <3>3. CASE EndPass \/ Restart
      BY <3>3 DEF EndPass, Restart, Asleep
    <3>4. QED
      BY <1>4, <3>1, <3>2, <3>3
  <2>2. QED
    BY <2>1 DEF SweepIsInOrder
<1>5. CASE Measure
  <2>1. CASE sweep' = Asleep
    BY <2>1 DEF Asleep, SweepIsInOrder
  <2>2. CASE sweep' # Asleep
    <3> DEFINE S == {t \in Job : HasData(t)}
    <3>1. /\ sweep'.at = "ceiling" /\ sweep'.batch = S /\ InHand' = {}
          /\ sweep'.finishedAt = FinishedAt(S) /\ job' = job /\ late' = late
      BY <1>1, <1>5, <2>2 DEF Measure, Typed, RemovedBounded, Sweep, InHand
    <3>2. \A t \in S : FinishedAt(S)[t][2] = job[t].place
      BY DEF FinishedAt
    <3>3. ASSUME NEW u \in S, NEW t \in Job \ late, SharesDataOf(u, t)
          PROVE  /\ IsFinished(t) /\ t \in S
                 /\ t # u => FinishedAt(S)[t][2] < FinishedAt(S)[u][2]
      <4>1. IsFinished(u)
        BY DEF HasData
      <4>2. IsFinished(t) /\ (t # u => Before(t, u))
        BY <3>3, <4>1 DEF SharedAfterTheEnd
      <4>3. t \in S
        BY <3>3, <4>2 DEF HasData, SharesDataOf
      <4>4. QED
        BY <3>2, <4>2, <4>3 DEF Before
    <3>4. \A u, t \in Job : /\ SharesDataOf(u, t)' <=> SharesDataOf(u, t)
                            /\ IsFinished(t)' <=> IsFinished(t)
      BY <3>1 DEF SharesDataOf, FirstRun, IsFinished
    <3>5. \A u \in S : u \in Job /\ job[u].status # "absent"
      BY DEF HasData, IsFinished, Finished
    <3>6. Taken' = S
      BY <3>1 DEF Taken
    <3> HIDE DEF S
    <3>7. QED
      BY <3>1, <3>3, <3>4, <3>5, <3>6 DEF SweepIsInOrder
  <2>3. QED
    BY <2>1, <2>2
<1>6. ASSUME NEW t \in Job, LookUp(t) \/ ForgetDue(t)
      PROVE  SweepIsInOrder'
  <2>1. sweep'.at = "judging" /\ sweep.at = "judging" /\ job' = job /\ late' = late
    BY <1>1, <1>6 DEF LookUp, ForgetDue, Sweep
  <2>2. Taken' \subseteq Taken
    <3>1. CASE LookUp(t)
      BY <1>1, <3>1 DEF LookUp, Idle, Sweep, InHand, Taken
    <3>2. CASE ForgetDue(t)
      BY <1>1, <3>2 DEF ForgetDue, First, Forget, Sweep, InHand, Taken
    <3>3. QED
      BY <1>6, <3>1, <3>2
  <2>3. QED
    BY <2>1, <2>2 DEF SweepIsInOrder, SharesDataOf, FirstRun, IsFinished
<1>7. ASSUME NEW v \in Job, ForgetForSpace(v)
      PROVE  SweepIsInOrder'
  <2>1. /\ sweep.at = "ceiling" /\ sweep'.at = "ceiling" /\ job' = job /\ late' = late
        /\ squeezed' = squeezed \union {v} /\ v \in sweep.batch
        /\ \A u \in sweep.batch : sweep.finishedAt[v][2] <= sweep.finishedAt[u][2]
    BY <1>1, <1>7 DEF ForgetForSpace, OldestFinished, Sweep
  <2>2. /\ sweep'.batch = sweep.batch \ {v} /\ InHand' = {v}
        /\ sweep'.finishedAt = sweep.finishedAt
    BY <1>1, <1>7 DEF ForgetForSpace, Forget, Sweep, InHand
  <2>3. /\ sweep.batch \subseteq Job
        /\ \A u \in Job : sweep.finishedAt[u][2] \in Int
    BY <1>1 DEF Sweep
  <2>4. \A u, t \in Job : /\ SharesDataOf(u, t)' <=> SharesDataOf(u, t)
                          /\ IsFinished(t)' <=> IsFinished(t)
    BY <2>1 DEF SharesDataOf, FirstRun, IsFinished
  <2>5. \A u \in Taken' : u \in Taken /\ u \in Job
    BY <2>1, <2>2, <2>3 DEF Taken
  <2>6. ASSUME NEW t \in Job \ late, SharesDataOf(v, t)
        PROVE  IsFinished(t) /\ t \in squeezed'
    <3>1. /\ IsFinished(t)
          /\ \/ t \in squeezed
             \/ t \in sweep.batch
                /\ (t # v => sweep.finishedAt[t][2] < sweep.finishedAt[v][2])
      BY <2>1, <2>6 DEF SweepIsInOrder
    <3>2. CASE t \in squeezed \/ t = v
      BY <2>1, <3>1, <3>2
    <3>3. CASE t \notin squeezed /\ t # v
      <4>1. /\ sweep.finishedAt[t][2] < sweep.finishedAt[v][2]
            /\ sweep.finishedAt[v][2] <= sweep.finishedAt[t][2]
            /\ sweep.finishedAt[t][2] \in Int /\ sweep.finishedAt[v][2] \in Int
        BY <2>1, <2>3, <3>1, <3>3
      <4>2. QED
        BY <4>1
    <3>4. QED
      BY <3>2, <3>3
  <2>7. ASSUME NEW u \in sweep'.batch, NEW t \in Job \ late, SharesDataOf(u, t)
        PROVE  /\ IsFinished(t)
               /\ \/ t \in squeezed'
                  \/ t \in sweep'.batch
                     /\ (t # u => sweep'.finishedAt[t][2] < sweep'.finishedAt[u][2])
    <3>1. u \in sweep.batch
      BY <2>2
    <3>2. /\ IsFinished(t)
          /\ \/ t \in squeezed
             \/ t \in sweep.batch
                /\ (t # u => sweep.finishedAt[t][2] < sweep.finishedAt[u][2])
      BY <2>1, <2>7, <3>1 DEF SweepIsInOrder
    <3>3. QED
      BY <2>1, <2>2, <3>2
  <2>8. \A u \in Taken' : job'[u].status # "absent"
    BY <2>1, <2>5 DEF SweepIsInOrder
  <2>9. \A u \in sweep'.batch \union InHand' : u \in Job
    BY <2>5 DEF Taken
  <2>10. QED
    BY <2>1, <2>2, <2>4, <2>6, <2>7, <2>8, <2>9 DEF SweepIsInOrder
<1>8. ASSUME NEW f \in sweep.forget, DeleteHalf(f) \/ Mark(f)
      PROVE  SweepIsInOrder'
  <2>1. /\ sweep'.at = sweep.at /\ sweep'.batch = sweep.batch
        /\ sweep'.finishedAt = sweep.finishedAt
    BY <1>1, <1>8 DEF DeleteHalf, Mark, Sweep
  <2>2. InHand' \subseteq InHand
    <3>1. CASE DeleteHalf(f)
      <4>1. \A g \in sweep'.forget : g.job = f.job
        BY <1>1, <3>1 DEF DeleteHalf, Sweep
      <4>2. QED
        BY <4>1 DEF InHand
    <3>2. CASE Mark(f)
      <4>1. sweep'.forget = {}
        BY <1>1, <3>2 DEF Mark, Sweep
      <4>2. QED
        BY <4>1 DEF InHand
    <3>3. QED
      BY <1>8, <3>1, <3>2
  <2>3. QED
    BY <2>1, <2>2, SweepOrderKept
<1>9. QED
  BY <1>2, <1>3, <1>4, <1>5, <1>6, <1>7, <1>8 DEF Next, Sweeping, Deleting

-----------------------------------------------------------------------------
(* Blobs the submitters and machines write are fresh; they take none away. *)
LEMMA StoreGrowsFresh ==
    ASSUME TypeOK, Submitters \/ Machines \/ UNCHANGED vars
    PROVE  \A a \in Artifact : store'[a] \in {store[a], "fresh"}
<1>1. store' = store \/ \E a \in Artifact : store' = [store EXCEPT ![a] = "fresh"]
  BY ArtifactsAreNamed
     DEF Submitters, Upload, WriteTrain, WriteHoldout, Refuse, InsertJob,
         ReadOriginal, InsertRetry, RefuseRetry, Link,
         Machines, Fetch, Requeue, Complete, End, ReadHoldout, vars
<1>2. QED
  BY <1>1 DEF TypeOK

(* Away from the submitters, no job is queued that was not. *)
LEMMA NoneInserted ==
    ASSUME TypeOK, RunsWereQueued, Elsewhere, NEW t \in Job, job[t].status = "absent"
    PROVE  job'[t].status = "absent"
<1>1. ASSUME NEW u \in Job, Ended(u) \/ Moved(u) \/ JobAges(u)
      PROVE  job'[t].status = "absent"
  BY <1>1, Finishing, Moving, Aging DEF Ended, Moved, OthersSame
<1>2. ASSUME NEW f \in sweep.forget, Mark(f)
      PROVE  job'[t].status = "absent"
  BY <1>2, Marking
<1>3. QED
  BY <1>1, <1>2, JobStepsElsewhere DEF tasks

(* A first submission that a step has inserted has the halves it was cut.  *)
LEMMA FirstRunsPointers ==
    ASSUME TypeOK, RunsWereQueued, SplitsAreNew, [Next]_vars, NEW t \in Job, FirstRun(t)'
    PROVE  \/ /\ FirstRun(t) /\ job'[t].data \in {job[t].data, NoData}
              /\ IsUnfinished(t)' /\ t \notin late' => IsUnfinished(t)
           \/ /\ job'[t].data \in Data /\ store' = store
              /\ \A a \in HalvesOf(job'[t].data) : store[a] = "fresh"
<1> USE DEF clients, tasks, notes
<1>0. [Next]_vars
  OBVIOUS
<1>1. ASSUME NEW d \in Data, NEW o \in Owner \union {NoOwner}, InsertJob(d, o)
      PROVE  \/ job'[t] = job[t]
             \/ job'[t].data = d /\ \A a \in HalvesOf(d) : store[a] = "fresh"
  <2>1. PICK u \in Unused : job' = [job EXCEPT ![u] = Queued(d, o, NoJob)]
    BY <1>1, QueriesSelect DEF InsertJob
  <2>2. u \in Job /\ job[u].status = "absent"
    BY DEF Unused
  <2>3. OthersSame(u) /\ job'[u].data = d
    BY <2>1, <2>2, Inserting
  <2>4. \A a \in HalvesOf(d) : store[a] = "fresh"
    BY <1>1, ArtifactsAreNamed DEF InsertJob, SplitsAreNew
  <2>5. QED
    BY <2>2, <2>3, <2>4 DEF OthersSame
<1>2. ASSUME NEW r \in retries, InsertRetry(r)
      PROVE  job'[t] = job[t]
  <2>1. PICK u \in Unused : job' = [job EXCEPT ![u] = Queued(r.data, r.owner, r.of)]
    BY <1>2, QueriesSelect DEF InsertRetry
  <2>2. u \in Job
    BY DEF Unused
  <2>3. r.of # NoJob
    BY ArtifactsAreNamed DEF TypeOK, Retry
  <2>4. job'[u].of = r.of
    BY <2>1, <2>2 DEF TypeOK, Queued
  <2>5. QED
    BY <2>1, <2>2, <2>3, <2>4 DEF FirstRun, TypeOK
<1>3. CASE Submitters
  <2>1. CASE job'[t] = job[t]
    BY <2>1 DEF FirstRun, IsUnfinished
  <2>2. CASE job'[t] # job[t]
    <3>1. PICK d \in Data, o \in Owner \union {NoOwner} : InsertJob(d, o)
      BY <1>2, <1>3, <2>2
         DEF Submitters, Upload, WriteTrain, WriteHoldout, Refuse, ReadOriginal, RefuseRetry, Link
    <3>2. QED
      BY <1>1, <2>2, <3>1 DEF InsertJob
  <2>3. QED
    BY <2>1, <2>2
<1>4. CASE Elsewhere
  <2>1. job'[t].of = job[t].of /\ job'[t].data \in {job[t].data, NoData}
    BY <1>4, PointersShrink
  <2>2. IsUnfinished(t)' /\ t \notin late' => IsUnfinished(t)
    BY <1>0, <1>4, NoneInserted, JobsStay DEF Stays, IsUnfinished, Unfinished
  <2>3. QED
    BY <2>1, <2>2 DEF FirstRun
<1>5. QED
  BY <1>3, <1>4 DEF Next, Elsewhere

LEMMA OrphansStep ==
    Typed /\ RunsWereQueued /\ SplitsAreNew /\ OrphansAreNobodys /\ [Next]_vars
      => OrphansAreNobodys'
<1> SUFFICES ASSUME Typed, RunsWereQueued, SplitsAreNew, OrphansAreNobodys, [Next]_vars,
                    sweep'.at = "orphans"
             PROVE  OrphansAreNobodys'
  BY DEF OrphansAreNobodys
<1> USE DEF clients, tasks, notes
<1>1. sweep \in Sweep /\ TypeOK
  BY DEF Typed, TypeOK
<1>2. CASE Submitters \/ Machines \/ UNCHANGED vars
  <2>1. sweep' = sweep
    BY <1>2 DEF Submitters, Upload, WriteTrain, WriteHoldout, Refuse, InsertJob,
                ReadOriginal, InsertRetry, RefuseRetry, Link,
                Machines, Fetch, Requeue, Complete, End, ReadHoldout, vars
  <2>2. \A a \in Artifact : Orphaned(a)' => Orphaned(a)
    BY <1>1, <1>2, <2>1, StoreGrowsFresh DEF Orphaned
  <2>3. ASSUME NEW t \in Job, FirstRun(t)', job'[t].data # NoData
        PROVE  \A a \in HalvesOf(job'[t].data) : ~ Orphaned(a)'
    <3>1. CASE FirstRun(t) /\ job'[t].data \in {job[t].data, NoData}
      <4>1. HalvesOf(job[t].data) \subseteq Artifact
        BY <1>1, <2>3, <3>1, ArtifactsAreNamed DEF TypeOK, JobRecord
      <4>2. QED
        BY <2>1, <2>2, <2>3, <3>1, <4>1 DEF OrphansAreNobodys
    <3>2. CASE /\ job'[t].data \in Data /\ store' = store
               /\ \A a \in HalvesOf(job'[t].data) : store[a] = "fresh"
      BY <3>2 DEF Orphaned
    <3>3. QED
      BY <1>1, <2>3, <3>1, <3>2, FirstRunsPointers
  <2>4. QED
    BY <2>3 DEF OrphansAreNobodys, HalvesOf
<1>3. CASE ReadReferenced
  <2>1. sweep'.referenced = Referenced /\ job' = job /\ store' = store
    BY <1>1, <1>3 DEF ReadReferenced, Sweep
  <2>2. \A t \in Job : job[t].data # NoData => HalvesOf(job[t].data) \subseteq Referenced
    BY DEF Referenced
  <2>3. QED
    BY <2>1, <2>2 DEF OrphansAreNobodys, Orphaned, HalvesOf
<1>4. CASE Time
  BY <1>4 DEF Time, StoreAges, JobAges
<1>5. CASE Restart \/ EndPass \/ Measure \/ ReadFinished \/ DeleteOrphans
  <2>1. CASE Restart \/ EndPass
    BY <2>1 DEF Restart, EndPass, Asleep
  <2>2. CASE Measure
    BY <1>1, <2>2 DEF Measure, Asleep, Sweep
  <2>3. CASE ReadFinished
    BY <1>1, <2>3 DEF ReadFinished, Sweep
  <2>4. CASE DeleteOrphans
    BY <1>1, <2>4 DEF DeleteOrphans, Sweep
  <2>5. QED
    BY <1>5, <2>1, <2>2, <2>3, <2>4
<1>6. ASSUME NEW t \in Job, LookUp(t) \/ ForgetDue(t) \/ ForgetForSpace(t)
      PROVE  FALSE
  BY <1>1, <1>6 DEF LookUp, ForgetDue, ForgetForSpace, Sweep
<1>7. ASSUME NEW f \in sweep.forget, DeleteHalf(f) \/ Mark(f)
      PROVE  FALSE
  <2>1. sweep.at \in {"judging", "ceiling"}
    BY DEF Typed, RemovedBounded
  <2>2. sweep'.at = sweep.at
    BY <1>1, <1>7 DEF DeleteHalf, Mark, Sweep
  <2>3. QED
    BY <2>1, <2>2
<1>8. QED
  BY <1>2, <1>3, <1>4, <1>5, <1>6, <1>7 DEF Next, Sweeping, Deleting

-----------------------------------------------------------------------------
(* A first submission whose data must be kept. *)
Keeps(t) ==
    /\ t \notin late /\ FirstRun(t)
    /\ IsUnfinished(t) \/ (t \in verifying /\ t \notin squeezed)

(* What is being forgotten is never a job whose data must be kept, nor a   *)
(* retry that shares it.                                                   *)
LEMMA NotTaken ==
    ASSUME Typed, KeepInv, NEW f \in sweep.forget, NEW t \in Job, Keeps(t)
    PROVE  job[f.job].data # job[t].data
<1> SUFFICES ASSUME job[f.job].data = job[t].data
             PROVE  FALSE
  OBVIOUS
<1> DEFINE u == f.job
<1> USE DEF KeepInv
<1>1. u \in InHand /\ u \in Taken /\ t \in Job \ late
  BY DEF InHand, Taken, Keeps
<1>2. SharesDataOf(u, t)
  BY DEF FirstRunKeepsItsData, HasBothHalves, Keeps, FirstRun, SharesDataOf
<1>3. sweep.at \in {"judging", "ceiling"}
  BY DEF Typed, RemovedBounded
<1>4. /\ IsFinished(t)
      /\ sweep.at = "judging" => job[t].age # "young"
      /\ sweep.at = "ceiling" => t \in squeezed
  BY <1>1, <1>2, <1>3 DEF SweepIsInOrder
<1>5. t \in verifying /\ t \notin squeezed
  BY <1>4 DEF Keeps, IsFinished, IsUnfinished, Finished, Unfinished
<1>6. job[t].age = "young"
  BY <1>1, <1>5 DEF VerifyingIsYoung
<1>7. QED
  BY <1>3, <1>4, <1>5, <1>6

(* The blobs of a job whose data must be kept stay.                        *)
LEMMA BlobsStay ==
    ASSUME Typed, KeepInv, [Next]_vars, NEW t \in Job, Keeps(t), NEW a \in HalvesOf(job[t].data)
    PROVE  Held(a)'
<1> USE DEF clients, tasks, notes
<1>1. TypeOK /\ FirstRun(t)
  BY DEF Typed, Keeps
<1>2. HasBothHalves(t)
  BY DEF KeepInv, FirstRunKeepsItsData, Keeps, FirstRun
<1>3. Held(a) /\ job[t].data \in Data /\ a \in Artifact
  BY <1>1, <1>2, ArtifactsAreNamed DEF HasBothHalves, TypeOK, JobRecord
<1>4. CASE Submitters \/ Machines \/ UNCHANGED vars
  BY <1>1, <1>3, <1>4, StoreGrowsFresh DEF Held
<1>5. CASE Time
  BY <1>3, <1>5 DEF Time, StoreAges, JobAges, Held
<1>6. CASE DeleteOrphans
  <2>1. ~ Orphaned(a)
    BY <1>1, <1>2, <1>6 DEF DeleteOrphans, KeepInv, OrphansAreNobodys, HasBothHalves
  <2>2. store'[a] = store[a]
    BY <1>3, <1>6, <2>1 DEF DeleteOrphans
  <2>3. QED
    BY <1>3, <2>2 DEF Held
<1>7. ASSUME NEW f \in sweep.forget, DeleteHalf(f)
      PROVE  Held(a)'
  <2>1. job[f.job].data # job[t].data
    BY NotTaken
  <2>2. a # <<job[f.job].data, f.step>>
    BY <2>1 DEF HalvesOf
  <2>3. store'[a] = store[a]
    BY <1>1, <1>3, <1>7, <2>2 DEF DeleteHalf, TypeOK
  <2>4. QED
    BY <1>3, <2>3 DEF Held
<1>8. CASE store' = store
  BY <1>3, <1>8 DEF Held
<1>9. CASE Sweeping \/ Restart
  BY <1>6, <1>7, <1>8, <1>9
     DEF Sweeping, Deleting, ReadFinished, ReadReferenced, Measure, EndPass,
         LookUp, ForgetDue, ForgetForSpace, Mark, Restart
<1>10. QED
  BY <1>4, <1>5, <1>9 DEF Next

(* A job whose data must be kept keeps pointing at it.                     *)
LEMMA PointerStays ==
    ASSUME Typed, KeepInv, [Next]_vars, NEW t \in Job, Keeps(t)
    PROVE  job'[t].data = job[t].data
<1>1. TypeOK /\ RunsWereQueued /\ job[t].status # "absent"
  BY DEF Typed, Keeps, IsUnfinished, Unfinished, KeepInv, VerifyingIsYoung, IsFinished, Finished
<1>2. ASSUME NEW u \in Job, Inserted(u) \/ Ended(u) \/ Moved(u) \/ JobAges(u)
      PROVE  job'[t].data = job[t].data
  BY <1>1, <1>2, Insertion, Finishing, Moving, Aging DEF OthersSame
<1>3. ASSUME NEW f \in sweep.forget, Mark(f)
      PROVE  job'[t].data = job[t].data
  <2>1. t # f.job
    BY NotTaken
  <2>2. QED
    BY <1>1, <1>3, <2>1, Marking
<1>4. QED
  BY <1>1, <1>2, <1>3, JobSteps DEF tasks

LEMMA KeepsStep == Typed /\ KeepInv /\ [Next]_vars => FirstRunKeepsItsData'
<1> SUFFICES ASSUME Typed, KeepInv, [Next]_vars, NEW t \in Job, Keeps(t)'
             PROVE  HasBothHalves(t)'
  BY DEF FirstRunKeepsItsData, Keeps, FirstRun
<1>1. TypeOK /\ RunsWereQueued /\ SplitsAreNew /\ FirstRun(t)' /\ t \notin late'
  BY DEF Typed, KeepInv, Keeps
<1>2. CASE FirstRun(t) /\ (IsUnfinished(t)' /\ t \notin late' => IsUnfinished(t))
           /\ job'[t].data \in {job[t].data, NoData}
  <2>1. CASE Keeps(t)
    <3>1. job'[t].data = job[t].data /\ job[t].data # NoData
      BY <2>1, PointerStays DEF KeepInv, FirstRunKeepsItsData, HasBothHalves, Keeps, FirstRun
    <3>2. \A a \in HalvesOf(job[t].data) : Held(a)'
      BY <2>1, BlobsStay
    <3>3. QED
      BY <3>1, <3>2 DEF HasBothHalves, HalvesOf
  <2>2. CASE ~ Keeps(t)
    <3>1. t \notin late /\ squeezed \subseteq squeezed'
      BY <1>1, JobsStay, VerifyingGrows
    <3>2. ~ IsUnfinished(t)' /\ t \in verifying' /\ t \notin verifying
      BY <1>1, <1>2, <2>2, <3>1 DEF Keeps
    <3>3. Complete(t)
      BY <3>2, VerifyingGrows DEF Complete
    <3>4. ~ IsFinished(t) /\ job[t].status # "absent"
      BY <1>1, <3>1, <3>3 DEF Complete, Written, RunsWereQueued
    <3>5. QED
      BY <1>1, <1>2, <2>2, <3>1, <3>4 DEF Keeps, IsFinished, IsUnfinished, TypeOK, JobRecord
  <2>3. QED
    BY <2>1, <2>2
<1>3. CASE /\ job'[t].data \in Data /\ store' = store
           /\ \A a \in HalvesOf(job'[t].data) : store[a] = "fresh"
  BY <1>3, ArtifactsAreNamed DEF HasBothHalves, HalvesOf, Held
<1>4. QED
  BY <1>1, <1>2, <1>3, FirstRunsPointers

LEMMA KeepInit == Init => KeepInv
<1> SUFFICES ASSUME Init
             PROVE  KeepInv
  OBVIOUS
<1>1. \A t \in Job : job[t] = NotQueued
  BY DEF Init
<1>2. \A t \in Job : /\ ~ IsFinished(t) /\ ~ IsUnfinished(t)
                      /\ job[t].age = "young" /\ job[t].data = NoData /\ job[t].place = 0
                      /\ ~ job[t].ran
  BY <1>1 DEF NotQueued, IsFinished, IsUnfinished, Finished, Unfinished
<1>3. DataOfJobs \subseteq {NoData} /\ DataOfRetries = {} /\ verifying = {}
  BY <1>2 DEF DataOfJobs, DataOfRetries, Init
<1>4. ends = 0 /\ sweep.at = "asleep" /\ \A d \in Data : splits[d] = "none"
  BY DEF Init, Asleep
<1>5. QED
  BY <1>2, <1>3, <1>4, ArtifactsAreNamed
     DEF KeepInv, RunsWereQueued, FinishedInOrder, SharesDataOf, SplitsAreNew, SharedAfterTheEnd, VerifyingIsYoung,
         SweepIsInOrder, OrphansAreNobodys, FirstRunKeepsItsData

LEMMA KeepStep == Typed /\ KeepInv /\ [Next]_vars => KeepInv'
BY RunsStep, OrderStep, SplitsStep, SharedStep, VerifyingStep, SweepOrderStep, OrphansStep, KeepsStep
   DEF KeepInv, Typed

(* A first submission finds its data whole while it has not ended and, if  *)
(* the ceiling has not come for it, while its verdict is being reached:    *)
(* however many jobs, retries and datasets there are, whatever the limits  *)
(* of a pass, wherever among the requests its steps fall, and whatever is  *)
(* written late to any other job.                                          *)
THEOREM FirstRunsKeepTheirData == Spec => []FirstRunKeepsItsData
<1>1. KeepInv => FirstRunKeepsItsData
  BY DEF KeepInv
<1>2. QED
  BY <1>1, KeepInit, KeepStep, AlwaysTyped, PTL DEF Spec

=============================================================================
