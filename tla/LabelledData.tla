---------------------------- MODULE LabelledData ----------------------------
(* What the numbers of a classifier mean on the way from spreadsheets to a
   verdict: labels are counted or named per file (artifacts.py
   parse_csv_dataset), files are joined (merge_datasets), the dataset is split
   (verification.py split_holdout), the job says how many outputs its model has
   (routes/tasks.py _queue_task, retry_task), and the machine and the verifier,
   which see one half each, build that model (trainer.py
   infer_spec_from_dataset, verification.py evaluate). *)
EXTENDS Naturals, Sequences, SequencesExt

CONSTANTS
  MaxLabel,  \* bound: labels are 0..MaxLabel, as numbers or as sorted names
  MaxRows,   \* bound: rows of a dataset
  MaxRuns,   \* bound: a job and its re-runs
  HoldoutCap \* MAX_HOLDOUT_ROWS

ASSUME LabelsAssumption ==
  /\ MaxLabel \in Nat /\ MaxRows \in Nat /\ MaxRuns \in Nat /\ HoldoutCap \in Nat \ {0}

VARIABLES
  dataset, \* its label indices, its class_names, what the files said (history), and
           \* whether it is an upload in the store, or parts that were only joined
  held,    \* the rows of the holdout; the others are for the machines
  runs     \* the job and its re-runs
labelVars == <<dataset, held, runs>>

Labels == 0..MaxLabel
Dims == 0..(MaxLabel + 1)  \* numbers of outputs; 0: not stated, or no weights
RunRecords ==
  [outputs : Dims,      \* model_spec.output_dim
   changed : BOOLEAN,   \* it, or a run it repeats, changed something (history)
   start : Dims,        \* outputs of the weights it continues from
   state : {"queued", "failed", "done", "scored"},
   dim : Dims,          \* outputs of the model it returned
   handedBack : BOOLEAN, \* that model is the one it was given
   verdict : {"none", "accepted", "suspicious", "rejected", "unloadable"}]
Files == [named : BOOLEAN, labels : UNION {[1..n -> Labels] : n \in 1..MaxRows}]
DataRows == DOMAIN dataset.y
NoData == [named |-> FALSE, stored |-> FALSE, names |-> <<>>, y |-> <<>>, said |-> <<>>]

LabelsTypeOK ==
  /\ dataset.named \in BOOLEAN /\ dataset.stored \in BOOLEAN
  /\ dataset.names \in Seq(Labels) /\ IsInjective(dataset.names)
  /\ dataset.y \in Seq(Labels) /\ dataset.said \in [DataRows -> Labels]
  /\ dataset.named => \A r \in DataRows : dataset.y[r] + 1 \in DOMAIN dataset.names
  /\ held \subseteq DataRows /\ runs \in Seq(RunRecords)
  /\ runs # <<>> => held # {} /\ held # DataRows

LabelsInit == dataset = NoData /\ held = {} /\ runs = <<>>

-----------------------------------------------------------------------------
(* The dataset. *)

\* sorted(set(labels)): every one once, the smallest first.
Sorted(S) ==
  CHOOSE s \in [1..Cardinality(S) -> S] : \A i, k \in DOMAIN s : i < k => s[i] < s[k]

\* parse_csv_dataset: names are sorted and counted from zero, numbers are kept.
Parsed(f) ==
  LET names == Sorted(ToSet(f.labels))
      index(l) == (CHOOSE i \in DOMAIN names : names[i] = l) - 1
  IN [named |-> f.named, stored |-> TRUE,
      names |-> IF f.named THEN names ELSE <<>>,
      y |-> [r \in DOMAIN f.labels |-> IF f.named THEN index(f.labels[r]) ELSE f.labels[r]],
      said |-> f.labels]

\* A file with one label only is refused.
Learnable(f) == Cardinality(ToSet(f.labels)) >= 2

\* (mutant) the numbers of the added file are appended as they stand.
MergedAsTheyStand(d, e) ==
  [named |-> d.named, stored |-> FALSE,
   names |-> d.names \o Sorted(ToSet(e.names) \ ToSet(d.names)),
   y |-> d.y \o e.y,
   said |-> d.said \o e.said]

\* merge_datasets: new names come after those the dataset has, in the order of
\* their file, which is sorted, and only the added file is renumbered.
Merged(d, e) ==
  LET names == d.names \o Sorted(ToSet(e.names) \ ToSet(d.names))
      index(n) == (CHOOSE i \in DOMAIN names : names[i] = n) - 1
  IN [named |-> d.named, stored |-> FALSE,
      names |-> names,
      y |-> d.y \o [r \in DOMAIN e.y |-> IF d.named THEN index(e.names[e.y[r] + 1]) ELSE e.y[r]],
      said |-> d.said \o e.said]

UploadFile(f) ==
  /\ dataset = NoData /\ Learnable(f)
  /\ dataset' = Parsed(f)
  /\ UNCHANGED <<held, runs>>

\* merge_datasets on parsed files, as its tests call it; named labels and numbers
\* do not mix.  append_to_artifact stores nothing of it: it has its file read by
\* _convert_upload, which takes three of parse_csv_dataset's five values and
\* raises, so no job is queued on spreadsheets that were joined.
JoinFile(f) ==
  /\ dataset # NoData /\ runs = <<>>
  /\ Learnable(f) /\ f.named = dataset.named
  /\ Len(dataset.y) + Len(f.labels) <= MaxRows
  /\ dataset' = Merged(dataset, Parsed(f))
  /\ UNCHANGED <<held, runs>>

-----------------------------------------------------------------------------
(* The job. *)

\* A fifth of the rows, rounded, at least one, at most the cap, and not all.
HoldoutRows(n) ==
  Min({HoldoutCap, n - 1, Max({1, (2 * n + 5) \div 10})})

NewRun(outputs, changed, start) ==
  [outputs |-> outputs, changed |-> changed, start |-> start, state |-> "queued",
   dim |-> 0, handedBack |-> FALSE, verdict |-> "none"]

\* (mutant) nobody writes down how many classes there are.
QueuedUncounted == NewRun(0, FALSE, 0)

\* _queue_task counts the names of the whole dataset; numbers it does not count.
QueuedRun == NewRun(Len(dataset.names), FALSE, 0)

\* A random slice is held back, or the last rows of data in order of time.
SplitAndQueue(ordered) ==
  /\ dataset.stored /\ runs = <<>> /\ Len(dataset.y) >= 4 /\ MaxRuns > 0
  /\ LET h == HoldoutRows(Len(dataset.y))
     IN held' \in IF ordered THEN {{r \in DataRows : r > Len(dataset.y) - h}} ELSE kSubset(h, DataRows)
  /\ runs' = <<QueuedRun>>
  /\ UNCHANGED dataset

\* validate_job keeps what the form offers, and the outputs are not among it.
Validated(outputs) == 0

\* retry_task: as it was, or with changes, which are validated, and then perhaps
\* with the weights of that run.
RerunOf(i, changes, warm) ==
  /\ Len(runs) < MaxRuns /\ runs[i].state # "queued"
  /\ warm => changes /\ runs[i].dim > 0
  /\ runs' = Append(runs, NewRun(IF changes THEN Validated(runs[i].outputs) ELSE runs[i].outputs,
                                 changes \/ runs[i].changed,
                                 IF warm THEN runs[i].dim ELSE 0))
  /\ UNCHANGED <<dataset, held>>

\* infer_spec_from_dataset: at least as many outputs as the rows at hand need.
Outputs(stated, rows) == Max({stated} \cup {dataset.y[r] + 1 : r \in rows})

Becomes(i, run) == runs' = [runs EXCEPT ![i] = run] /\ UNCHANGED <<dataset, held>>

\* The machine has its half, and the weights to continue from, which must fit.
TrainRun(i, lazy) ==
  LET run == runs[i]
      dim == Outputs(run.outputs, DataRows \ held)
  IN /\ run.state = "queued" /\ (lazy => run.start > 0)
     /\ Becomes(i, IF run.start \notin {0, dim}
                   THEN [run EXCEPT !.state = "failed"]
                   ELSE [run EXCEPT !.state = "done", !.dim = dim, !.handedBack = lazy])

\* A run that fails for any other reason.
RunFails(i) == runs[i].state = "queued" /\ Becomes(i, [runs[i] EXCEPT !.state = "failed"])

\* evaluate builds the model the held back rows ask for and loads the weights.
Loads(run) == run.dim = Outputs(run.outputs, held)

\* verify_training_result: weights that are not numbers, or are those it began
\* with as far as these can still be read; a model the weights do not fit; one
\* that does no better than an untrained one; or a good one.
Verdicts(run, numbers, readable) ==
  IF ~numbers \/ (run.handedBack /\ readable) THEN {"rejected"}
  ELSE IF ~Loads(run) THEN {"unloadable"}
  ELSE {"accepted", "suspicious"}

\* verify_task, which anybody may ask to do again.
ScoreRun(i, numbers, readable) ==
  /\ runs[i].state \in {"done", "scored"}
  /\ \E v \in Verdicts(runs[i], numbers, readable) :
       Becomes(i, [runs[i] EXCEPT !.state = "scored", !.verdict = v])

-----------------------------------------------------------------------------
LabelsNext ==
  \/ \E f \in Files : UploadFile(f) \/ JoinFile(f)
  \/ \E ordered \in BOOLEAN : SplitAndQueue(ordered)
  \/ \E i \in DOMAIN runs :
       \/ RunFails(i)
       \/ \E a, b \in BOOLEAN : RerunOf(i, a, b) \/ ScoreRun(i, a, b)
       \/ \E lazy \in BOOLEAN : TrainRun(i, lazy)

LabelsSpec == LabelsInit /\ [][LabelsNext]_labelVars

-----------------------------------------------------------------------------
\* However many files were joined, and whatever names each of them had, the index
\* of a row still stands for the label its file gave it (artifacts.py
\* merge_datasets: "appending the numbers as they stand would silently relabel
\* half the data").
LabelsKeepTheirMeaning ==
  \A r \in DataRows :
    dataset.said[r] = IF dataset.named THEN dataset.names[dataset.y[r] + 1] ELSE dataset.y[r]

\* The model of a job with named labels, and of its unchanged re-runs, has an
\* output for each name, and the verifier, which sees other rows than the machine
\* did, builds the same one (routes/tasks.py _queue_task).
NamedWorkFits ==
  \A i \in DOMAIN runs :
    dataset.named /\ ~runs[i].changed =>
      /\ runs[i].verdict # "unloadable"
      /\ runs[i].dim \in {0, Len(dataset.names)}
=============================================================================
