--------------------------- MODULE TaskLifecycle ---------------------------
(***************************************************************************)
(* The life of a job on the coordinator (backend/routes/tasks.py).         *)
(*                                                                         *)
(* The coordinator is one asyncio event loop over one MongoDB collection.  *)
(* A handler runs alone until it awaits the database, and any number of    *)
(* other handlers run before it goes on.  So a handler that reads a job,   *)
(* decides, and then writes it is two steps here: the first puts what it   *)
(* read in a set of handlers in flight, the second writes, with the filter *)
(* the code's update has - for most of them none but the job's id.         *)
(*                                                                         *)
(* The contributors' machines are the environment: they poll, they are     *)
(* shown jobs, they run them, they report, they lose them, and they come   *)
(* and go.                                                                 *)
(***************************************************************************)
EXTENDS Naturals, FiniteSets

CONSTANTS
    Node,         \* the registered contributor machines
    NoNode,       \* "no machine": what a redispatch finds when none will do
    NoTask,       \* "no job": a first submission is a retry of none
    MaxTasks,     \* bound: how many jobs are ever submitted
    MaxAttempts,  \* MAX_TASK_ATTEMPTS
    AttemptCap,   \* bound: claims of one job explored; not a limit of the code
    MaxInFlight,  \* bound: how many handlers are between a read and a write
    StaleBatch,   \* how many running jobs one sweep reads (100 in the code)
    OrphanBatch,  \* how many pending jobs one sweep reads (200 in the code)
    Presences,    \* bound: the states of a machine's connection explored
    Askers        \* the machines whose owner approves every job by hand

ASSUME NodeAssumption == NoNode \notin Node /\ Askers \subseteq Node
ASSUME PresenceAssumption ==
    "open" \in Presences /\ Presences \subseteq {"open", "closed", "gone"}
ASSUME BoundAssumption ==
    /\ {MaxTasks, MaxAttempts, AttemptCap} \subseteq Nat \ {0}
    /\ {MaxInFlight, StaleBatch, OrphanBatch} \subseteq Nat
    /\ NoTask \notin Nat

(* A job is named by its place in the order of submission (submitted_at). *)
Task == 1..MaxTasks

Finished == {"completed", "failed", "rejected", "cancelled"}
Status == {"absent", "pending", "running"} \union Finished
Outcome == Finished \union {"unanswered"}

VARIABLES
    task,      \* the tasks collection
    presence,  \* each machine's connection and heartbeat, as the database has it
    work,      \* jobs handed to a machine that has not yet reported on them
    stopping,  \* machines whose job in hand has been asked to stop
    shown,     \* jobs a machine has been shown without claiming them
    submits,   \* submissions and retries between the last check and the insert
    cancels,   \* cancellations between the read and the write
    reports,   \* reports between the read and the write
    moves,     \* redispatches of declined jobs between the choice and the write
    sweep,     \* requeue_stale_tasks
    replies    \* history: what submitters were told of their cancellations

vars == <<task, presence, work, stopping, shown, submits, cancels, reports, moves, sweep, replies>>

(* The requests in flight, and the two sides they are between. *)
requests == <<submits, cancels, reports, moves>>
machines == <<presence, work, stopping, shown>>

TaskRecord ==
    [status : Status, node : Node \union {NoNode}, placement : {"chosen", "auto"},
     attempts : Nat, declined : SUBSET Node, cancel : BOOLEAN, overdue : BOOLEAN]
Work == [node : Node, task : Task, attempt : Nat]
Offer == [node : Node, task : Task]
Submit == [node : Node, placement : {"chosen", "auto"}, of : Task \union {NoTask}]
Cancel == [task : Task, seen : {"pending", "running"}]
Report == [task : Task, node : Node, outcome : Outcome, declined : SUBSET Node]
Move == [task : Task, refused : SUBSET Node, to : Node \union {NoNode}]
Stale == [task : Task, attempts : Nat]
Orphan == [task : Task, node : Node, declined : SUBSET Node]
Sweep ==
    [at : {"asleep", "stale", "live", "orphans", "moving"}, stale : SUBSET Stale,
     live : SUBSET Node, orphans : SUBSET Orphan, move : SUBSET Move]

TypeOK ==
    /\ task \in [Task -> TaskRecord]
    /\ presence \in [Node -> Presences]
    /\ work \subseteq Work
    /\ stopping \subseteq Node
    /\ shown \subseteq Offer
    /\ submits \subseteq Submit
    /\ cancels \subseteq Cancel
    /\ reports \subseteq Report
    /\ moves \subseteq Move
    /\ sweep \in Sweep
    /\ replies \subseteq Task \X {"stopped", "requested"}

-----------------------------------------------------------------------------
(* Queries of the two collections.                                         *)

Exists(t) == task[t].status # "absent"
IsFinished(t) == task[t].status \in Finished
Pending(n) == {t \in Task : task[t].status = "pending" /\ task[t].node = n}
Oldest(S) == {t \in S : \A u \in S : t <= u}
FirstOf(S, k) == {t \in S : Cardinality({u \in S : u < t}) < k}

(* isConnected and isAvailable; a machine that is "closed" lacks one of    *)
(* the two but has sent a heartbeat within NODE_GONE_MINUTES, one that is  *)
(* "gone" has not.                                                         *)
Open == {n \in Node : presence[n] = "open"}
Load(n) == Cardinality({t \in Task : task[t].node = n /\ task[t].status \in {"pending", "running"}})

(* pick_node: the least loaded of the machines that will do.  Compute and  *)
(* node ids break ties in the code; here any of the least loaded may win.  *)
PickNode(S) == {n \in S : \A m \in S : Load(n) <= Load(m)}

Handlers ==
    Cardinality(submits) + Cardinality(cancels) + Cardinality(reports) + Cardinality(moves)
Room == Handlers < MaxInFlight
RoomToSubmit == Room /\ Cardinality(submits) < Cardinality({t \in Task : ~ Exists(t)})

-----------------------------------------------------------------------------
(* Writes to one job's document.                                           *)

Started(r) == [r EXCEPT !.status = "running", !.overdue = FALSE]
Claimed(r) == [Started(r) EXCEPT !.attempts = @ + 1]

(* Mutant: a requeue starts the job's life over. *)
RequeuedAfresh(r) ==
    [r EXCEPT !.status = "pending", !.overdue = FALSE, !.cancel = FALSE]
Requeued(r) == [r EXCEPT !.status = "pending", !.overdue = FALSE]

(* started_at stays on a finished job, where no query looks at it.         *)
(* Mutant: the job ends in a state that FINISHED_STATES does not list.     *)
EndedUnlisted(r, outcome) == [r EXCEPT !.status = "abandoned", !.overdue = FALSE]
Ended(r, outcome) == [r EXCEPT !.status = outcome, !.overdue = FALSE]

Reported(r, outcome, declined) == [Ended(r, outcome) EXCEPT !.declined = declined]

(* Mutant: the job is given another machine and nothing else. *)
MovedAsItIs(r, n, refused) == [r EXCEPT !.node = n, !.declined = refused]
Moved(r, n, refused) ==
    [r EXCEPT !.status = "pending", !.node = n, !.declined = refused, !.overdue = FALSE]

(* Mutant: a retry copies the whole document, the request to stop included. *)
CopiedTask(s) ==
    [status |-> "pending", node |-> s.node, placement |-> s.placement,
     attempts |-> 0, declined |-> {}, overdue |-> FALSE,
     cancel |-> s.of # NoTask /\ task[s.of].cancel]
NewTask(s) ==
    [status |-> "pending", node |-> s.node, placement |-> s.placement,
     attempts |-> 0, declined |-> {}, overdue |-> FALSE, cancel |-> FALSE]

-----------------------------------------------------------------------------
Init ==
    /\ task = [t \in Task |->
                 [status |-> "absent", node |-> NoNode, placement |-> "chosen",
                  attempts |-> 0, declined |-> {}, cancel |-> FALSE, overdue |-> FALSE]]
    /\ presence = [n \in Node |-> "open"]
    /\ work = {} /\ stopping = {} /\ shown = {}
    /\ submits = {} /\ cancels = {} /\ reports = {} /\ moves = {}
    /\ sweep = [at |-> "asleep", stale |-> {}, live |-> {}, orphans |-> {}, move |-> {}]
    /\ replies = {}

-----------------------------------------------------------------------------
(* Submitting.                                                             *)

(* submit_task_anywhere: of the connected machines those whose limits      *)
(* allow the job, and of these the least loaded.                           *)
SubmitAnywhere ==
    /\ RoomToSubmit
    /\ \E able \in SUBSET Open : \E n \in PickNode(able) :
         submits' = submits \union {[node |-> n, placement |-> "auto", of |-> NoTask]}
    /\ UNCHANGED <<task, machines, cancels, reports, moves, sweep, replies>>

(* submit_task: a machine the submitter named. *)
SubmitTo(n) ==
    /\ RoomToSubmit
    /\ n \in Open
    /\ submits' = submits \union {[node |-> n, placement |-> "chosen", of |-> NoTask]}
    /\ UNCHANGED <<task, machines, cancels, reports, moves, sweep, replies>>

(* retry_task: the machine and the placement are the original's. *)
Retry(t) ==
    /\ RoomToSubmit
    /\ IsFinished(t)
    /\ task[t].node \in Open
    /\ submits' = submits \union
         {[node |-> task[t].node, placement |-> task[t].placement, of |-> t]}
    /\ UNCHANGED <<task, machines, cancels, reports, moves, sweep, replies>>

(* The insert at the end of _queue_task and of retry_task. *)
Insert(s) ==
    /\ \E t \in Oldest({u \in Task : ~ Exists(u)}) :
         task' = [task EXCEPT ![t] = NewTask(s)]
    /\ submits' = submits \ {s}
    /\ UNCHANGED <<machines, cancels, reports, moves, sweep, replies>>

(* Validation, the dataset's format or the quota refuses the job. *)
Refuse(s) ==
    /\ submits' = submits \ {s}
    /\ UNCHANGED <<task, machines, cancels, reports, moves, sweep, replies>>

-----------------------------------------------------------------------------
(* The machine's side: next_task, task_cancelled.                          *)

(* The poll loop waits for a job to end before it polls again.  A machine  *)
(* whose owner approves jobs claims whenever the owner says so.            *)
FreeToClaim(n) == n \in Askers \/ \A w \in work : w.node # n

(* next_task with claim=true: one atomic find_one_and_update.  A job that  *)
(* starts on a machine clears the machine's flag (_run_task).              *)
Claim(n) ==
    /\ FreeToClaim(n)
    /\ \E t \in Oldest(Pending(n)) :
         /\ task[t].attempts < AttemptCap
         /\ task' = [task EXCEPT ![t] = Claimed(task[t])]
         /\ work' = work \union
              {[node |-> n, task |-> t, attempt |-> Claimed(task[t]).attempts]}
    /\ stopping' = stopping \ {n}
    /\ UNCHANGED <<presence, shown, requests, sweep, replies>>

(* next_task with claim=false. *)
Peek(n) ==
    /\ n \in Askers
    /\ \E t \in Oldest(Pending(n)) : shown' = shown \union {[node |-> n, task |-> t]}
    /\ UNCHANGED <<task, presence, work, stopping, requests, sweep, replies>>

(* task_cancelled, polled while a job runs: only the machine the job is    *)
(* queued to is told.  The flag it sets is the machine's, not the job's.   *)
PollCancel(w) ==
    /\ task[w.task].node = w.node
    /\ task[w.task].cancel
    /\ stopping' = stopping \union {w.node}
    /\ UNCHANGED <<task, presence, work, shown, requests, sweep, replies>>

(* The flag means nothing on a machine with no job in hand. *)
StillStopping == {n \in stopping : \E w \in work' : w.node = n}

(* The machine restarts, the answer to a claim is lost on the way to it,   *)
(* or its report is lost on the way back: nothing else remembers the job.  *)
LoseWork(w) ==
    /\ work' = work \ {w}
    /\ stopping' = StillStopping
    /\ UNCHANGED <<task, presence, shown, requests, sweep, replies>>

LoseOffer(o) ==
    /\ shown' = shown \ {o}
    /\ UNCHANGED <<task, presence, work, stopping, requests, sweep, replies>>

(* Heartbeats, their absence and the availability switch: a machine opens, *)
(* closes, or has been silent past NODE_GONE_MINUTES.                      *)
Appear(n, p) ==
    /\ presence[n] # p
    /\ presence' = [presence EXCEPT ![n] = p]
    /\ UNCHANGED <<task, work, stopping, shown, requests, sweep, replies>>

-----------------------------------------------------------------------------
(* Reports: submit_task_result and _redispatch.                            *)

(* The first read, and the two refusals that follow it: the job is not     *)
(* this machine's any more, and the report is dropped.                     *)
ReadReport(n, t, outcome) ==
    reports' = IF task[t].node = n
               THEN reports \union {[task |-> t, node |-> n, outcome |-> outcome,
                                     declined |-> task[t].declined]}
               ELSE reports

(* A machine reports on a job it ran.  It says "cancelled" only when its   *)
(* flag is up.                                                             *)
ReportWork(w, outcome) ==
    /\ outcome = "cancelled" => w.node \in stopping
    /\ work' = work \ {w}
    /\ stopping' = StillStopping
    /\ ReadReport(w.node, w.task, outcome)
    /\ UNCHANGED <<task, presence, shown, submits, cancels, moves, sweep, replies>>

(* A machine answers for a job it was shown: its owner said no, or nobody  *)
(* answered.  The second is told while the job is still shown: until the   *)
(* call is over (LoseOffer) the owner may decline it as well.              *)
ReportOffer(o, outcome) ==
    /\ Room
    /\ shown' = IF outcome = "unanswered" THEN shown ELSE shown \ {o}
    /\ ReadReport(o.node, o.task, outcome)
    /\ UNCHANGED <<task, presence, work, stopping, submits, cancels, moves, sweep, replies>>

PutBack(r) ==
    /\ r.outcome = "unanswered"
    /\ task' = [task EXCEPT ![r.task] = Requeued(task[r.task])]
    /\ reports' = reports \ {r}
    /\ UNCHANGED <<machines, submits, cancels, moves, sweep, replies>>

(* Mutant: a job addressed to one machine is moved like any other. *)
MoveAnything(t) == TRUE
MayMove(t) == task[t].placement = "auto"

(* The end of submit_task_result.  declined_by is computed from the read.  *)
Settle(r) ==
    /\ r.outcome # "unanswered"
    /\ r.outcome = "rejected" => ~ MayMove(r.task)
    /\ task' = [task EXCEPT ![r.task] =
                  Reported(task[r.task], r.outcome,
                           IF r.outcome = "rejected" THEN r.declined \union {r.node}
                                                     ELSE r.declined)]
    /\ reports' = reports \ {r}
    /\ UNCHANGED <<machines, submits, cancels, moves, sweep, replies>>

(* The part of _redispatch before its write: the choice among the machines *)
(* that have not refused the job.                                          *)
Choices(refused) ==
    IF Open \ refused = {} THEN {NoNode} ELSE PickNode(Open \ refused)

Redispatch(r) ==
    /\ r.outcome = "rejected"
    /\ MayMove(r.task)
    /\ \E n \in Choices(r.declined \union {r.node}) :
         moves' = moves \union
           {[task |-> r.task, refused |-> r.declined \union {r.node}, to |-> n]}
    /\ reports' = reports \ {r}
    /\ UNCHANGED <<task, machines, submits, cancels, sweep, replies>>

(* Mutant: the choice is written without asking whether there was one. *)
MoveAnywhere(m) ==
    /\ task' = [task EXCEPT ![m.task] = Moved(task[m.task], m.to, m.refused)]
    /\ moves' = moves \ {m}
    /\ UNCHANGED <<machines, submits, cancels, reports, sweep, replies>>

(* The write of _redispatch, or, when nobody else can take the job, the    *)
(* write of submit_task_result that ends it.                               *)
FinishMove(m) ==
    /\ task' = [task EXCEPT ![m.task] =
                  IF m.to # NoNode THEN Moved(task[m.task], m.to, m.refused)
                                   ELSE Reported(task[m.task], "rejected", m.refused)]
    /\ moves' = moves \ {m}
    /\ UNCHANGED <<machines, submits, cancels, reports, sweep, replies>>

-----------------------------------------------------------------------------
(* Cancelling: cancel_task.                                                *)

ReadCancel(t) ==
    /\ Room
    /\ task[t].status \in {"pending", "running"}
    /\ cancels' = cancels \union {[task |-> t, seen |-> task[t].status]}
    /\ UNCHANGED <<task, machines, submits, reports, moves, sweep, replies>>

(* A queued job: the write is filtered by status, the answer is not. *)
DropQueued(c) ==
    /\ c.seen = "pending"
    /\ task' = IF task[c.task].status = "pending"
               THEN [task EXCEPT ![c.task] = Ended(task[c.task], "cancelled")]
               ELSE task
    /\ replies' = replies \union {<<c.task, "stopped">>}
    /\ cancels' = cancels \ {c}
    /\ UNCHANGED <<machines, submits, reports, moves, sweep>>

AskToStop(c) ==
    /\ c.seen = "running"
    /\ task' = [task EXCEPT ![c.task].cancel = TRUE]
    /\ replies' = replies \union {<<c.task, "requested">>}
    /\ cancels' = cancels \ {c}
    /\ UNCHANGED <<machines, submits, reports, moves, sweep>>

-----------------------------------------------------------------------------
(* The sweep: requeue_stale_tasks.                                         *)

(* TASK_CLAIM_TIMEOUT_MINUTES have passed since the job was claimed. *)
Age(t) ==
    /\ task[t].status = "running"
    /\ ~ task[t].overdue
    /\ task' = [task EXCEPT ![t].overdue = TRUE]
    /\ UNCHANGED <<machines, requests, sweep, replies>>

ReadStale ==
    /\ sweep.at = "asleep"
    /\ sweep' = [sweep EXCEPT
         !.at = "stale",
         !.stale = {[task |-> t, attempts |-> task[t].attempts] : t \in
                      FirstOf({u \in Task : task[u].status = "running" /\ task[u].overdue},
                              StaleBatch)}]
    /\ UNCHANGED <<task, machines, requests, replies>>

(* Mutant: the sweep never gives a job up. *)
RequeueForever(s) ==
    /\ sweep.at = "stale" /\ s \in sweep.stale
    /\ task' = [task EXCEPT ![s.task] = Requeued(task[s.task])]
    /\ sweep' = [sweep EXCEPT !.stale = @ \ {s}]
    /\ UNCHANGED <<machines, requests, replies>>

(* One stale job: given up after MaxAttempts claims, or requeued. *)
Reap(s) ==
    /\ sweep.at = "stale" /\ s \in sweep.stale
    /\ task' = [task EXCEPT ![s.task] =
                  IF s.attempts >= MaxAttempts THEN Ended(task[s.task], "failed")
                                               ELSE Requeued(task[s.task])]
    /\ sweep' = [sweep EXCEPT !.stale = @ \ {s}]
    /\ UNCHANGED <<machines, requests, replies>>

ReadLive ==
    /\ sweep.at = "stale" /\ sweep.stale = {}
    /\ sweep' = [sweep EXCEPT !.at = "live",
                              !.live = {n \in Node : presence[n] # "gone"}]
    /\ UNCHANGED <<task, machines, requests, replies>>

(* The pending jobs, then those among them on machines that are not live. *)
OrphansIn(S, live) ==
    {[task |-> t, node |-> task[t].node, declined |-> task[t].declined] :
        t \in {u \in S : task[u].node \notin live}}

OrEnd(orphans) == IF orphans = {} THEN "asleep" ELSE "orphans"

ReadOrphans ==
    /\ sweep.at = "live"
    /\ LET found == OrphansIn(FirstOf({t \in Task : task[t].status = "pending"}, OrphanBatch),
                              sweep.live)
       IN  sweep' = [sweep EXCEPT !.at = OrEnd(found), !.live = {}, !.orphans = found]
    /\ UNCHANGED <<task, machines, requests, replies>>

FailOrphan(o) ==
    /\ sweep.at = "orphans" /\ o \in sweep.orphans
    /\ ~ MayMove(o.task)
    /\ task' = [task EXCEPT ![o.task] = Ended(task[o.task], "failed")]
    /\ sweep' = [sweep EXCEPT !.at = OrEnd(sweep.orphans \ {o}), !.orphans = @ \ {o}]
    /\ UNCHANGED <<machines, requests, replies>>

(* _redispatch, called with the machine that went away as the one that     *)
(* declined.                                                               *)
RedispatchOrphan(o) ==
    /\ sweep.at = "orphans" /\ o \in sweep.orphans
    /\ MayMove(o.task)
    /\ \E n \in Choices(o.declined \union {o.node}) :
         sweep' = [sweep EXCEPT !.at = "moving", !.orphans = @ \ {o},
                     !.move = {[task |-> o.task, refused |-> o.declined \union {o.node},
                                to |-> n]}]
    /\ UNCHANGED <<task, machines, requests, replies>>

(* Mutant: an orphan nothing else can take is left where it is. *)
MoveOrLeaveOrphan(m) ==
    /\ sweep.at = "moving" /\ m \in sweep.move
    /\ task' = [task EXCEPT ![m.task] =
                  IF m.to # NoNode THEN Moved(task[m.task], m.to, m.refused) ELSE @]
    /\ sweep' = [sweep EXCEPT !.at = OrEnd(sweep.orphans), !.move = {}]
    /\ UNCHANGED <<machines, requests, replies>>

(* Its write, or the write that fails a job nothing else can take. *)
MoveOrphan(m) ==
    /\ sweep.at = "moving" /\ m \in sweep.move
    /\ task' = [task EXCEPT ![m.task] =
                  IF m.to # NoNode THEN Moved(task[m.task], m.to, m.refused)
                                   ELSE Ended(task[m.task], "failed")]
    /\ sweep' = [sweep EXCEPT !.at = OrEnd(sweep.orphans), !.move = {}]
    /\ UNCHANGED <<machines, requests, replies>>

-----------------------------------------------------------------------------
Submitting ==
    \/ SubmitAnywhere
    \/ \E n \in Node : SubmitTo(n)
    \/ \E t \in Task : Retry(t)
    \/ \E s \in submits : Insert(s) \/ Refuse(s)

Machine ==
    \/ \E n \in Node : Claim(n) \/ Peek(n) \/ \E p \in Presences : Appear(n, p)
    \/ \E w \in work : PollCancel(w) \/ LoseWork(w)
    \/ \E o \in shown : LoseOffer(o)

Reporting ==
    \/ \E w \in work, outcome \in {"completed", "failed", "cancelled"} : ReportWork(w, outcome)
    \/ \E o \in shown, outcome \in {"rejected", "unanswered"} : ReportOffer(o, outcome)
    \/ \E r \in reports : PutBack(r) \/ Settle(r) \/ Redispatch(r)
    \/ \E m \in moves : FinishMove(m)

Cancelling ==
    \/ \E t \in Task : ReadCancel(t)
    \/ \E c \in cancels : DropQueued(c) \/ AskToStop(c)

Sweeping ==
    \/ \E t \in Task : Age(t)
    \/ ReadStale \/ ReadLive \/ ReadOrphans
    \/ \E s \in sweep.stale : Reap(s)
    \/ \E o \in sweep.orphans : FailOrphan(o) \/ RedispatchOrphan(o)
    \/ \E m \in sweep.move : MoveOrphan(m)

Next == Submitting \/ Machine \/ Reporting \/ Cancelling \/ Sweeping

Spec == Init /\ [][Next]_vars

(* The sweep runs for as long as the coordinator does and time passes. *)
SweepFairness ==
    /\ \A t \in Task : WF_vars(Age(t))
    /\ WF_vars(ReadStale) /\ WF_vars(ReadLive) /\ WF_vars(ReadOrphans)
    /\ WF_vars(\E s \in sweep.stale : Reap(s))
    /\ WF_vars(\E o \in sweep.orphans : FailOrphan(o) \/ RedispatchOrphan(o))
    /\ WF_vars(\E m \in sweep.move : MoveOrphan(m))

(* A handler that awaits the database gets its answer. *)
HandlerFairness ==
    /\ WF_vars(\E s \in submits : Insert(s) \/ Refuse(s))
    /\ WF_vars(\E r \in reports : PutBack(r) \/ Settle(r) \/ Redispatch(r))
    /\ WF_vars(\E m \in moves : FinishMove(m))
    /\ WF_vars(\E c \in cancels : DropQueued(c) \/ AskToStop(c))

(* A machine whose heartbeats arrive polls, and a job in hand ends there,  *)
(* reported or lost.  A machine that keeps coming back polls in between:   *)
(* it polls more often than it sends heartbeats.                           *)
MachineFairness(n) ==
    /\ SF_vars(n \in Open /\ Claim(n))
    /\ WF_vars(\E w \in work : w.node = n /\
                  (LoseWork(w) \/ \E outcome \in {"completed", "failed"} :
                                    ReportWork(w, outcome)))

FairSpec == Spec /\ SweepFairness /\ HandlerFairness /\ \A n \in Node : MachineFairness(n)

-----------------------------------------------------------------------------
(* Safety.                                                                 *)

WasAsked(t) == \E answer \in {"stopped", "requested"} : <<t, answer>> \in replies

(* Every job is on some machine, and whatever is in flight about a job is  *)
(* about one that was inserted: a redispatch that found no machine, or a   *)
(* write that outran an insert, would leave a job nobody polls for.        *)
InFlight(t) ==
    \/ \E r \in work \union shown \union cancels \union reports \union moves : r.task = t
    \/ \E r \in sweep.stale \union sweep.orphans \union sweep.move : r.task = t
    \/ \E answer \in {"stopped", "requested"} : <<t, answer>> \in replies
JobsKnown ==
    \A t \in Task : /\ InFlight(t) => Exists(t)
                    /\ Exists(t) => task[t].node \in Node

(* One claim hands a job to one machine.  Whatever requeues, redispatches  *)
(* and late reports do to a job, no two machines hold the same attempt of  *)
(* it, and while it is running the holder of its latest attempt is the     *)
(* machine the job is queued to - the only one whose report is accepted.   *)
OneHolderPerAttempt ==
    /\ \A v, w \in work : v.task = w.task /\ v.attempt = w.attempt => v = w
    /\ \A w \in work :
         /\ task[w.task].status = "running"
         /\ w.attempt = task[w.task].attempts
         => w.node = task[w.task].node

(* A request to stop a running job stays recorded through every requeue,   *)
(* redispatch, claim and report that follows the answer to its submitter.  *)
StopRequestKept == \A t \in Task : <<t, "requested">> \in replies => task[t].cancel

(* A job ends as cancelled only after its submitter was answered on a      *)
(* cancellation of that very job.  It is so where machines take jobs by    *)
(* themselves; a machine whose owner approves jobs may run two at once,    *)
(* and has one flag for both.                                              *)
CancelledOnlyIfAsked ==
    \A t \in Task : task[t].status = "cancelled" => WasAsked(t)

(* A job the submitter addressed to one machine never goes to another: not *)
(* when it is declined, nor when its machine disappears, nor on a write    *)
(* decided from an older read of it.                                       *)
ChosenMachineKept ==
    [][\A t \in Task : Exists(t) /\ task[t].placement = "chosen" =>
         task'[t].node = task[t].node /\ task'[t].placement = "chosen"]_vars

(* However handlers interleave, the collection is a JobBoard: a job is     *)
(* claimed only by the machine it is pending on and only while it is       *)
(* pending, every claim is a new attempt, nothing else makes a job run.    *)
Board == INSTANCE JobBoard WITH
    Job <- Task, Machine <- Node, Nowhere <- NoNode,
    state <- [t \in Task |-> IF task[t].status = "absent" THEN "none"
                             ELSE IF task[t].status = "pending" THEN "up"
                             ELSE IF task[t].status = "running" THEN "taken"
                             ELSE "ended"],
    place <- [t \in Task |-> task[t].node],
    pinned <- {t \in Task : Exists(t) /\ task[t].placement = "chosen"},
    attempt <- [t \in Task |-> task[t].attempts]
IsAJobBoard == Board!Spec

-----------------------------------------------------------------------------
(* What the source says of the program and the code does not do.           *)

(* "Terminal states: nothing more will happen to a task in one of these."  *)
FinishedIsFinal ==
    [][\A t \in Task : IsFinished(t) => task'[t].status = task[t].status]_vars

(* "A queued job is dropped outright", and its submitter is told so.       *)
StoppedIsStopped ==
    \A t \in Task : <<t, "stopped">> \in replies => task[t].status # "running"

(* The sweep returns to the queue "tasks abandoned by a node that went     *)
(* away".                                                                  *)
TakenOnlyFromTheGone ==
    [][\A s \in sweep.stale :
         /\ sweep'.stale = sweep.stale \ {s}
         /\ task'[s.task].status # "running"
         => \A w \in work : w.task = s.task => presence[w.node] = "gone"]_vars

-----------------------------------------------------------------------------
(* Liveness.                                                               *)

(* A job left on a machine that stays gone does not stay there: the sweep  *)
(* ends it or moves it, whether it was waiting or running.                 *)
Stranded(t) ==
    task[t].status \in {"pending", "running"} /\ presence[task[t].node] = "gone"
StrandedIsResolved == \A t \in Task : Stranded(t) ~> ~ Stranded(t)

(* Where machines take jobs by themselves, every job submitted ends:       *)
(* machines may disappear, lose the job or its report, and come back, and  *)
(* the sweep may take the job from them while they still run it.           *)
EveryJobEnds == \A t \in Task : Exists(t) ~> IsFinished(t)

=============================================================================
