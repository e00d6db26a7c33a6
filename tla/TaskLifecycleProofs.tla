------------------------ MODULE TaskLifecycleProofs ------------------------
(***************************************************************************)
(* Proofs about TaskLifecycle, for any machines, jobs and bounds.          *)
(***************************************************************************)
EXTENDS TaskLifecycle, TLAPS

-----------------------------------------------------------------------------
(* What the queries return.                                                *)

LEMMA QueriesSelect ==
    ASSUME NEW S, NEW k
    PROVE  /\ Oldest(S) \subseteq S
           /\ FirstOf(S, k) \subseteq S
           /\ PickNode(S) \subseteq S
BY DEF Oldest, FirstOf, PickNode

LEMMA ChoiceIsAMachine ==
    ASSUME NEW refused
    PROVE  Choices(refused) \subseteq (Node \ refused) \union {NoNode}
<1>1. PickNode(Open \ refused) \subseteq Open \ refused
  BY QueriesSelect
<1>2. QED
  BY <1>1 DEF Choices, Open

(* What each write does to a job's document: its type...                   *)
LEMMA WritesKeepTheType ==
    ASSUME NEW r \in TaskRecord
    PROVE  /\ Claimed(r) \in TaskRecord
           /\ Requeued(r) \in TaskRecord
           /\ \A outcome \in Finished : Ended(r, outcome) \in TaskRecord
           /\ \A outcome \in Finished, D \in SUBSET Node : Reported(r, outcome, D) \in TaskRecord
           /\ \A n \in Node, D \in SUBSET Node : Moved(r, n, D) \in TaskRecord
<1>1. Started(r) \in TaskRecord
  BY DEF TaskRecord, Started, Status
<1>2. Claimed(r) \in TaskRecord
  BY <1>1 DEF TaskRecord, Claimed
<1>3. Requeued(r) \in TaskRecord
  BY DEF TaskRecord, Requeued, Status
<1>4. ASSUME NEW outcome \in Finished
      PROVE  Ended(r, outcome) \in TaskRecord
  BY DEF TaskRecord, Ended, Status
<1>5. ASSUME NEW outcome \in Finished, NEW D \in SUBSET Node
      PROVE  Reported(r, outcome, D) \in TaskRecord
  BY <1>4 DEF TaskRecord, Reported
<1>6. ASSUME NEW n \in Node, NEW D \in SUBSET Node
      PROVE  Moved(r, n, D) \in TaskRecord
  BY DEF TaskRecord, Moved, Status
<1>7. QED
  BY <1>2, <1>3, <1>4, <1>5, <1>6

(* ...and what it changes of the fields the invariants are about.          *)
Same(q, r) == q.cancel = r.cancel /\ q.placement = r.placement

LEMMA WritesChange ==
    ASSUME NEW r \in TaskRecord
    PROVE  /\ Claimed(r).status = "running" /\ Claimed(r).node = r.node
           /\ Claimed(r).attempts = r.attempts + 1 /\ Same(Claimed(r), r)
           /\ Requeued(r).status = "pending" /\ Requeued(r).node = r.node
           /\ Requeued(r).attempts = r.attempts /\ Same(Requeued(r), r)
           /\ \A outcome :
                /\ Ended(r, outcome).status = outcome /\ Ended(r, outcome).node = r.node
                /\ Ended(r, outcome).attempts = r.attempts /\ Same(Ended(r, outcome), r)
           /\ \A outcome, D :
                /\ Reported(r, outcome, D).status = outcome
                /\ Reported(r, outcome, D).node = r.node
                /\ Reported(r, outcome, D).attempts = r.attempts
                /\ Same(Reported(r, outcome, D), r)
           /\ \A n, D :
                /\ Moved(r, n, D).status = "pending" /\ Moved(r, n, D).node = n
                /\ Moved(r, n, D).attempts = r.attempts /\ Same(Moved(r, n, D), r)
BY DEF TaskRecord, Same, Started, Claimed, Requeued, Ended, Reported, Moved

LEMMA TypeInit == Init => TypeOK
BY NodeAssumption, PresenceAssumption, SMTT(30)
   DEF Init, TypeOK, TaskRecord, Status, Finished, Sweep

(* A write to one job leaves the collection well typed.           *)
LEMMA OneWrite ==
    ASSUME TypeOK, NEW t \in Task, NEW r \in TaskRecord,
           task' = [task EXCEPT ![t] = r]
    PROVE  /\ task' \in [Task -> TaskRecord]
           /\ \A u \in Task : task'[u] = IF u = t THEN r ELSE task[u]
BY DEF TypeOK

(* The records in flight name jobs, machines and outcomes.                 *)
LEMMA InFlightFields ==
    ASSUME TypeOK
    PROVE  /\ \A w \in work : w.task \in Task /\ w.node \in Node /\ w.attempt \in Nat
           /\ \A o \in shown : o.task \in Task /\ o.node \in Node
           /\ \A s \in submits : s.node \in Node /\ s.placement \in {"chosen", "auto"}
           /\ \A c \in cancels : c.task \in Task
           /\ \A r \in reports : /\ r.task \in Task /\ r.node \in Node
                                 /\ r.outcome \in Outcome /\ r.declined \in SUBSET Node
           /\ \A m \in moves \union sweep.move :
                 /\ m.task \in Task /\ m.refused \in SUBSET Node
                 /\ m.to \in Node \union {NoNode}
           /\ \A s \in sweep.stale : s.task \in Task
           /\ \A o \in sweep.orphans : /\ o.task \in Task /\ o.node \in Node
                                       /\ o.declined \in SUBSET Node
BY DEF TypeOK, Work, Offer, Submit, Cancel, Report, Move, Sweep, Stale, Orphan

LEMMA TypeSubmitting == TypeOK /\ Submitting => TypeOK'
<1> SUFFICES ASSUME TypeOK, Submitting
             PROVE  TypeOK'
  OBVIOUS
<1> USE DEF requests, machines
<1>1. CASE SubmitAnywhere
  <2>1. \A able \in SUBSET Open : PickNode(able) \subseteq Node
    BY QueriesSelect DEF Open
  <2>2. submits' \subseteq Submit
    BY <1>1, <2>1 DEF SubmitAnywhere, TypeOK, Submit
  <2>3. QED
    BY <1>1, <2>2 DEF SubmitAnywhere, TypeOK
<1>2. ASSUME NEW n \in Node, SubmitTo(n)
      PROVE  TypeOK'
  BY <1>2 DEF SubmitTo, TypeOK, Submit
<1>3. ASSUME NEW t \in Task, Retry(t)
      PROVE  TypeOK'
  BY <1>3 DEF Retry, TypeOK, Submit, TaskRecord, Open
<1>4. ASSUME NEW s \in submits, Insert(s)
      PROVE  TypeOK'
  <2>1. NewTask(s) \in TaskRecord /\ NewTask(s).node \in Node
    BY InFlightFields DEF NewTask, TaskRecord, Status
  <2>2. PICK t \in Task : task' = [task EXCEPT ![t] = NewTask(s)]
    BY <1>4, QueriesSelect DEF Insert
  <2>3. QED
    BY <1>4, <2>1, <2>2, OneWrite DEF Insert, TypeOK
<1>5. ASSUME NEW s \in submits, Refuse(s)
      PROVE  TypeOK'
  BY <1>5 DEF Refuse, TypeOK
<1>6. QED
  BY <1>1, <1>2, <1>3, <1>4, <1>5 DEF Submitting

LEMMA TypeMachine == TypeOK /\ Machine => TypeOK'
<1> SUFFICES ASSUME TypeOK, Machine
             PROVE  TypeOK'
  OBVIOUS
<1> USE DEF requests, machines
<1>1. ASSUME NEW n \in Node, Claim(n)
      PROVE  TypeOK'
  <2>1. PICK t \in Task :
           /\ task[t].status = "pending" /\ task[t].node = n
           /\ task' = [task EXCEPT ![t] = Claimed(task[t])]
           /\ work' = work \union
                {[node |-> n, task |-> t, attempt |-> Claimed(task[t]).attempts]}
    BY <1>1, QueriesSelect DEF Claim, Pending
  <2>2. task[t] \in TaskRecord
    BY DEF TypeOK
  <2>3. Claimed(task[t]) \in TaskRecord /\ Claimed(task[t]).node = n
    BY <2>1, <2>2, WritesKeepTheType, WritesChange
  <2>4. Claimed(task[t]).attempts \in Nat
    BY <2>3 DEF TaskRecord
  <2>5. work' \subseteq Work
    BY <2>1, <2>4 DEF TypeOK, Work
  <2>6. QED
    BY <1>1, <2>1, <2>3, <2>5, OneWrite DEF Claim, TypeOK
<1>2. ASSUME NEW n \in Node, Peek(n)
      PROVE  TypeOK'
  <2>1. Oldest(Pending(n)) \subseteq Task
    BY QueriesSelect DEF Pending
  <2>2. QED
    BY <1>2, <2>1 DEF Peek, TypeOK, Offer
<1>3. ASSUME NEW n \in Node, NEW p \in Presences, Appear(n, p)
      PROVE  TypeOK'
  BY <1>3 DEF Appear, TypeOK
<1>4. ASSUME NEW w \in work, PollCancel(w) \/ LoseWork(w)
      PROVE  TypeOK'
  BY <1>4 DEF PollCancel, LoseWork, StillStopping, TypeOK, Work
<1>5. ASSUME NEW o \in shown, LoseOffer(o)
      PROVE  TypeOK'
  BY <1>5 DEF LoseOffer, TypeOK
<1>6. QED
  BY <1>1, <1>2, <1>3, <1>4, <1>5 DEF Machine

LEMMA TypeReporting == TypeOK /\ Reporting => TypeOK'
<1> SUFFICES ASSUME TypeOK, Reporting
             PROVE  TypeOK'
  OBVIOUS
<1> USE DEF requests, machines
<1>1. ASSUME NEW n \in Node, NEW t \in Task, NEW outcome \in Outcome,
             ReadReport(n, t, outcome)
      PROVE  reports' \subseteq Report
  BY <1>1 DEF ReadReport, TypeOK, Report, TaskRecord
<1>2. ASSUME NEW w \in work, NEW outcome \in {"completed", "failed", "cancelled"},
             ReportWork(w, outcome)
      PROVE  TypeOK'
  <2>1. reports' \subseteq Report
    BY <1>1, <1>2, InFlightFields DEF ReportWork, Outcome, Finished
  <2>2. QED
    BY <1>2, <2>1 DEF ReportWork, StillStopping, TypeOK
<1>3. ASSUME NEW o \in shown, NEW outcome \in {"rejected", "unanswered"},
             ReportOffer(o, outcome)
      PROVE  TypeOK'
  <2>1. reports' \subseteq Report
    BY <1>1, <1>3, InFlightFields DEF ReportOffer, Outcome, Finished
  <2>2. QED
    BY <1>3, <2>1 DEF ReportOffer, TypeOK
<1>4. ASSUME NEW r \in reports, PutBack(r)
      PROVE  TypeOK'
  <2>1. r.task \in Task /\ task[r.task] \in TaskRecord
    BY InFlightFields DEF TypeOK
  <2>2. QED
    BY <1>4, <2>1, WritesKeepTheType, OneWrite DEF PutBack, TypeOK
<1>5. ASSUME NEW r \in reports, Settle(r)
      PROVE  TypeOK'
  <2>1. /\ r.task \in Task /\ task[r.task] \in TaskRecord
        /\ r.outcome \in Finished
        /\ r.declined \in SUBSET Node /\ r.declined \union {r.node} \in SUBSET Node
    BY <1>5, InFlightFields DEF TypeOK, Settle, Outcome
  <2>2. PICK D \in SUBSET Node :
           task' = [task EXCEPT ![r.task] = Reported(task[r.task], r.outcome, D)]
    BY <1>5, <2>1 DEF Settle
  <2>3. QED
    BY <1>5, <2>1, <2>2, WritesKeepTheType, OneWrite DEF Settle, TypeOK
<1>6. ASSUME NEW r \in reports, Redispatch(r)
      PROVE  TypeOK'
  <2>1. moves' \subseteq Move
    BY <1>6, InFlightFields, ChoiceIsAMachine DEF Redispatch, TypeOK, Move
  <2>2. QED
    BY <1>6, <2>1 DEF Redispatch, TypeOK
<1>7. ASSUME NEW m \in moves, FinishMove(m)
      PROVE  TypeOK'
  <2>1. /\ m.task \in Task /\ task[m.task] \in TaskRecord
        /\ m.refused \in SUBSET Node /\ m.to \in Node \union {NoNode}
        /\ "rejected" \in Finished
    BY InFlightFields DEF TypeOK, Finished
  <2>2. PICK r \in TaskRecord : task' = [task EXCEPT ![m.task] = r]
    BY <1>7, <2>1, WritesKeepTheType DEF FinishMove
  <2>3. QED
    BY <1>7, <2>1, <2>2, OneWrite DEF FinishMove, TypeOK
<1>8. QED
  BY <1>2, <1>3, <1>4, <1>5, <1>6, <1>7 DEF Reporting

LEMMA TypeCancelling == TypeOK /\ Cancelling => TypeOK'
<1> SUFFICES ASSUME TypeOK, Cancelling
             PROVE  TypeOK'
  OBVIOUS
<1> USE DEF requests, machines
<1>1. ASSUME NEW t \in Task, ReadCancel(t)
      PROVE  TypeOK'
  BY <1>1 DEF ReadCancel, TypeOK, Cancel
<1>2. ASSUME NEW c \in cancels, DropQueued(c)
      PROVE  TypeOK'
  <2>1. /\ c.task \in Task /\ task[c.task] \in TaskRecord
        /\ Ended(task[c.task], "cancelled") \in TaskRecord
    BY InFlightFields, WritesKeepTheType DEF TypeOK, Finished
  <2>2. task' \in [Task -> TaskRecord]
    <3>1. CASE task' = task
      BY <3>1 DEF TypeOK
    <3>2. CASE task' = [task EXCEPT ![c.task] = Ended(task[c.task], "cancelled")]
      BY <3>2, <2>1, OneWrite
    <3>3. QED
      BY <1>2, <3>1, <3>2 DEF DropQueued
  <2>3. QED
    BY <1>2, <2>1, <2>2 DEF DropQueued, TypeOK
<1>3. ASSUME NEW c \in cancels, AskToStop(c)
      PROVE  TypeOK'
  <2>1. /\ c.task \in Task /\ task[c.task] \in TaskRecord
        /\ [task[c.task] EXCEPT !.cancel = TRUE] \in TaskRecord
    <3>1. c.task \in Task /\ task[c.task] \in TaskRecord
      BY InFlightFields DEF TypeOK
    <3>2. QED
      BY <3>1 DEF TaskRecord
  <2>2. task' \in [Task -> TaskRecord]
    BY <1>3, <2>1, OneWrite DEF AskToStop
  <2>3. QED
    BY <1>3, <2>1, <2>2 DEF AskToStop, TypeOK
<1>4. QED
  BY <1>1, <1>2, <1>3 DEF Cancelling

LEMMA TypeSweeping == TypeOK /\ JobsKnown /\ Sweeping => TypeOK'
<1> SUFFICES ASSUME TypeOK, JobsKnown, Sweeping
             PROVE  TypeOK'
  OBVIOUS
<1> USE DEF requests, machines
<1>1. ASSUME NEW t \in Task, Age(t)
      PROVE  TypeOK'
  <2>1. [task[t] EXCEPT !.overdue = TRUE] \in TaskRecord
    BY DEF TypeOK, TaskRecord
  <2>2. task' \in [Task -> TaskRecord]
    BY <1>1, <2>1, OneWrite DEF Age
  <2>3. QED
    BY <1>1, <2>2 DEF Age, TypeOK
<1>2. CASE ReadStale
  <2>1. \A S \in SUBSET Task :
          {[task |-> t, attempts |-> task[t].attempts] : t \in FirstOf(S, StaleBatch)}
             \subseteq Stale
    BY QueriesSelect DEF TypeOK, Stale, TaskRecord
  <2>2. sweep' \in Sweep
    BY <1>2, <2>1 DEF ReadStale, TypeOK, Sweep
  <2>3. QED
    BY <1>2, <2>2 DEF ReadStale, TypeOK
<1>3. ASSUME NEW s \in sweep.stale, Reap(s)
      PROVE  TypeOK'
  <2>1. s.task \in Task /\ task[s.task] \in TaskRecord /\ "failed" \in Finished
    BY InFlightFields DEF TypeOK, Finished
  <2>2. PICK r \in TaskRecord : task' = [task EXCEPT ![s.task] = r]
    BY <1>3, <2>1, WritesKeepTheType DEF Reap
  <2>3. sweep' \in Sweep
    BY <1>3 DEF Reap, TypeOK, Sweep
  <2>4. QED
    BY <1>3, <2>1, <2>2, <2>3, OneWrite DEF Reap, TypeOK
<1>4. CASE ReadLive
  BY <1>4 DEF ReadLive, TypeOK, Sweep
<1>5. CASE ReadOrphans
  <2> DEFINE found == OrphansIn(FirstOf({t \in Task : task[t].status = "pending"}, OrphanBatch),
                                sweep.live)
  <2>1. found \subseteq Orphan
    <3>1. FirstOf({t \in Task : task[t].status = "pending"}, OrphanBatch)
            \subseteq {t \in Task : task[t].status = "pending"}
      BY QueriesSelect
    <3>2. ASSUME NEW t \in Task, task[t].status = "pending"
          PROVE  [task |-> t, node |-> task[t].node, declined |-> task[t].declined] \in Orphan
      <4>1. task[t].node \in Node
        BY <3>2 DEF JobsKnown, Exists
      <4>2. task[t].declined \in SUBSET Node
        BY DEF TypeOK, TaskRecord
      <4>3. QED
        BY <4>1, <4>2 DEF Orphan
    <3>3. QED
      BY <3>1, <3>2 DEF OrphansIn
  <2>2. sweep' \in Sweep
    BY <1>5, <2>1 DEF ReadOrphans, OrEnd, TypeOK, Sweep
  <2>3. QED
    BY <1>5, <2>2 DEF ReadOrphans, TypeOK
<1>6. ASSUME NEW o \in sweep.orphans, FailOrphan(o)
      PROVE  TypeOK'
  <2>1. /\ o.task \in Task /\ task[o.task] \in TaskRecord
        /\ Ended(task[o.task], "failed") \in TaskRecord
    BY InFlightFields, WritesKeepTheType DEF TypeOK, Finished
  <2>2. sweep' \in Sweep
    BY <1>6 DEF FailOrphan, OrEnd, TypeOK, Sweep
  <2>3. QED
    BY <1>6, <2>1, <2>2, OneWrite DEF FailOrphan, TypeOK
<1>7. ASSUME NEW o \in sweep.orphans, RedispatchOrphan(o)
      PROVE  TypeOK'
  <2>1. PICK n \in Choices(o.declined \union {o.node}) :
          sweep' = [sweep EXCEPT !.at = "moving", !.orphans = @ \ {o},
                      !.move = {[task |-> o.task, refused |-> o.declined \union {o.node},
                                 to |-> n]}]
    BY <1>7 DEF RedispatchOrphan
  <2>2. [task |-> o.task, refused |-> o.declined \union {o.node}, to |-> n] \in Move
    BY InFlightFields, ChoiceIsAMachine DEF Move
  <2>3. sweep' \in Sweep
    BY <2>1, <2>2 DEF TypeOK, Sweep
  <2>4. QED
    BY <1>7, <2>3 DEF RedispatchOrphan, TypeOK
<1>8. ASSUME NEW m \in sweep.move, MoveOrphan(m)
      PROVE  TypeOK'
  <2>1. /\ m.task \in Task /\ task[m.task] \in TaskRecord
        /\ m.refused \in SUBSET Node /\ m.to \in Node \union {NoNode}
        /\ "failed" \in Finished
    BY InFlightFields DEF TypeOK, Finished
  <2>2. PICK r \in TaskRecord : task' = [task EXCEPT ![m.task] = r]
    BY <1>8, <2>1, WritesKeepTheType DEF MoveOrphan
  <2>3. sweep' \in Sweep
    BY <1>8 DEF MoveOrphan, OrEnd, TypeOK, Sweep
  <2>4. QED
    BY <1>8, <2>1, <2>2, <2>3, OneWrite DEF MoveOrphan, TypeOK
<1>9. QED
  BY <1>1, <1>2, <1>3, <1>4, <1>5, <1>6, <1>7, <1>8 DEF Sweeping

LEMMA TypeNext == TypeOK /\ JobsKnown /\ [Next]_vars => TypeOK'
<1>1. TypeOK /\ UNCHANGED vars => TypeOK'
  BY DEF TypeOK, vars
<1>2. QED
  BY <1>1, TypeSubmitting, TypeMachine, TypeReporting, TypeCancelling, TypeSweeping DEF Next

-----------------------------------------------------------------------------
(* What a step may do to a job's document.  Every invariant below follows  *)
(* from this classification of the writes.                                 *)

(* A redispatch in flight is of a job the coordinator placed. *)
MovesAreAuto == \A m \in moves \union sweep.move : task[m.task].placement = "auto"

Kept(t) == task'[t] = task[t]

Inserted(t) ==
    /\ ~ Exists(t)
    /\ task'[t].status = "pending" /\ task'[t].node \in Node
    /\ task'[t].attempts = 0 /\ ~ task'[t].cancel

(* What a job is ended as cancelled on: the answer its submitter gets in   *)
(* the same step, or a report read before.                                 *)
Grounds(t) ==
    \/ <<t, "stopped">> \in replies'
    \/ \E r \in reports : r.task = t /\ r.outcome = "cancelled"

(* Requeued, redispatched or ended.                                        *)
Rewritten(t) ==
    /\ Exists(t)
    /\ task'[t].status = "cancelled" => Grounds(t)
    /\ task'[t].status \in {"pending"} \union Finished
    /\ task'[t].node \in Node
    /\ task[t].placement = "chosen" \/ task'[t].status # "pending" => task'[t].node = task[t].node
    /\ task'[t].attempts = task[t].attempts
    /\ Same(task'[t], task[t])

(* Asked to stop, or grown old.                                            *)
Marked(t) ==
    /\ Exists(t)
    /\ task'[t].status = task[t].status /\ task'[t].node = task[t].node
    /\ task'[t].attempts = task[t].attempts
    /\ task'[t].placement = task[t].placement
    /\ task[t].cancel => task'[t].cancel
    /\ task'[t].cancel => task[t].cancel \/ <<t, "requested">> \in replies'

Taken(t) ==
    /\ task[t].status = "pending" /\ task'[t].status = "running"
    /\ task'[t].attempts = task[t].attempts + 1
    /\ task'[t].node = task[t].node /\ Same(task'[t], task[t])

Written(t) == Kept(t) \/ Inserted(t) \/ Rewritten(t) \/ Marked(t)

LEMMA SubmittingWrites ==
    TypeOK /\ Submitting => /\ \A t \in Task : Kept(t) \/ Inserted(t)
                            /\ work' = work
<1> SUFFICES ASSUME TypeOK, Submitting
             PROVE  (\A t \in Task : Kept(t) \/ Inserted(t)) /\ work' = work
  OBVIOUS
<1> USE DEF requests, machines, Kept
<1>1. ASSUME NEW s \in submits, Insert(s)
      PROVE  (\A t \in Task : Kept(t) \/ Inserted(t)) /\ work' = work
  <2>1. PICK t \in Task : ~ Exists(t) /\ task' = [task EXCEPT ![t] = NewTask(s)]
    BY <1>1, QueriesSelect DEF Insert
  <2>2. /\ NewTask(s).status = "pending" /\ NewTask(s).node \in Node
        /\ NewTask(s).attempts = 0 /\ ~ NewTask(s).cancel
    BY InFlightFields DEF NewTask
  <2>3. QED
    BY <1>1, <2>1, <2>2 DEF Insert, Inserted, TypeOK
<1>2. CASE SubmitAnywhere
  BY <1>2 DEF SubmitAnywhere
<1>3. ASSUME NEW n \in Node, SubmitTo(n)
      PROVE  task' = task /\ work' = work
  BY <1>3 DEF SubmitTo
<1>4. ASSUME NEW t \in Task, Retry(t)
      PROVE  task' = task /\ work' = work
  BY <1>4 DEF Retry
<1>5. ASSUME NEW s \in submits, Refuse(s)
      PROVE  task' = task /\ work' = work
  BY <1>5 DEF Refuse
<1>6. QED
  BY <1>1, <1>2, <1>3, <1>4, <1>5 DEF Submitting

LEMMA ClaimWrites ==
    ASSUME TypeOK, NEW n \in Node, Claim(n)
    PROVE  \E t \in Task :
              /\ Taken(t) /\ task[t].node = n
              /\ \A u \in Task \ {t} : Kept(u)
              /\ work' = work \union
                   {[node |-> n, task |-> t, attempt |-> task[t].attempts + 1]}
<1>1. PICK t \in Task :
        /\ task[t].status = "pending" /\ task[t].node = n
        /\ task' = [task EXCEPT ![t] = Claimed(task[t])]
        /\ work' = work \union
             {[node |-> n, task |-> t, attempt |-> Claimed(task[t]).attempts]}
  BY QueriesSelect DEF Claim, Pending
<1>2. task[t] \in TaskRecord
  BY DEF TypeOK
<1>3. \A u \in Task : task'[u] = IF u = t THEN Claimed(task[t]) ELSE task[u]
  BY <1>1 DEF TypeOK
<1>4. Taken(t)
  BY <1>1, <1>2, <1>3, WritesChange DEF Taken, Same
<1>5. Claimed(task[t]).attempts = task[t].attempts + 1
  BY <1>2, WritesChange
<1>6. QED
  BY <1>1, <1>3, <1>4, <1>5 DEF Kept

LEMMA MachineWrites ==
    ASSUME TypeOK, Machine
    PROVE  \/ task' = task /\ work' \subseteq work
           \/ \E n \in Node : Claim(n)
BY DEF Machine, Peek, Appear, PollCancel, LoseWork, LoseOffer

(* The two ways a redispatch ends and the other writes to one job.         *)
LEMMA RewriteOf ==
    ASSUME TypeOK, JobsKnown, NEW t \in Task, Exists(t), NEW r,
           task' = [task EXCEPT ![t] = r],
           \/ r = Requeued(task[t])
           \/ \E outcome \in Finished : /\ r = Ended(task[t], outcome)
                                        /\ outcome = "cancelled" => Grounds(t)
           \/ \E outcome \in Finished : /\ \E D : r = Reported(task[t], outcome, D)
                                        /\ outcome = "cancelled" => Grounds(t)
           \/ task[t].placement = "auto" /\ \E n \in Node : \E D : r = Moved(task[t], n, D)
    PROVE  \A u \in Task : Kept(u) \/ Rewritten(u)
<1>1. task[t] \in TaskRecord /\ task[t].node \in Node
  BY DEF TypeOK, JobsKnown
<1>2. \A u \in Task : task'[u] = IF u = t THEN r ELSE task[u]
  BY DEF TypeOK
<1>3. /\ r.status \in {"pending"} \union Finished
      /\ r.status = "cancelled" => Grounds(t)
      /\ r.node \in Node
      /\ task[t].placement = "chosen" \/ r.status # "pending" => r.node = task[t].node
      /\ r.attempts = task[t].attempts /\ Same(r, task[t])
  BY <1>1, WritesChange
<1>4. QED
  BY <1>2, <1>3 DEF Kept, Rewritten

LEMMA ReportingWrites ==
    ASSUME TypeOK, JobsKnown, MovesAreAuto, Reporting
    PROVE  /\ \A t \in Task : Kept(t) \/ Rewritten(t)
           /\ work' \subseteq work
<1> USE DEF requests, machines
<1>1. ASSUME NEW w \in work, NEW outcome, ReportWork(w, outcome)
      PROVE  task' = task /\ work' \subseteq work
  BY <1>1 DEF ReportWork
<1>2. ASSUME NEW o \in shown, NEW outcome, ReportOffer(o, outcome)
      PROVE  task' = task /\ work' \subseteq work
  BY <1>2 DEF ReportOffer
<1>3. ASSUME NEW r \in reports
      PROVE  r.task \in Task /\ Exists(r.task) /\ r.outcome \in Outcome
  BY InFlightFields DEF JobsKnown, InFlight
<1>4. ASSUME NEW r \in reports, PutBack(r)
      PROVE  (\A t \in Task : Kept(t) \/ Rewritten(t)) /\ work' \subseteq work
  BY <1>3, <1>4, RewriteOf DEF PutBack
<1>5. ASSUME NEW r \in reports, Settle(r)
      PROVE  (\A t \in Task : Kept(t) \/ Rewritten(t)) /\ work' \subseteq work
  <2>1. r.outcome \in Finished
    BY <1>3, <1>5 DEF Settle, Outcome
  <2>2. PICK D : task' = [task EXCEPT ![r.task] = Reported(task[r.task], r.outcome, D)]
    BY <1>5 DEF Settle
  <2>3. r.outcome = "cancelled" => Grounds(r.task)
    BY DEF Grounds
  <2>4. QED
    BY <1>3, <1>5, <2>1, <2>2, <2>3, RewriteOf DEF Settle
<1>6. ASSUME NEW r \in reports, Redispatch(r)
      PROVE  task' = task /\ work' \subseteq work
  BY <1>6 DEF Redispatch
<1>7. ASSUME NEW m \in moves, FinishMove(m)
      PROVE  (\A t \in Task : Kept(t) \/ Rewritten(t)) /\ work' \subseteq work
  <2>1. /\ m.task \in Task /\ Exists(m.task) /\ m.to \in Node \union {NoNode}
        /\ task[m.task].placement = "auto" /\ "rejected" \in Finished
    BY InFlightFields DEF JobsKnown, InFlight, MovesAreAuto, Finished
  <2>2. QED
    BY <1>7, <2>1, RewriteOf DEF FinishMove
<1>8. QED
  BY <1>1, <1>2, <1>4, <1>5, <1>6, <1>7 DEF Reporting, Kept

LEMMA CancellingWrites ==
    ASSUME TypeOK, JobsKnown, Cancelling
    PROVE  /\ \A t \in Task : Kept(t) \/ Rewritten(t) \/ Marked(t)
           /\ work' = work
<1> USE DEF requests, machines
<1>1. ASSUME NEW c \in cancels
      PROVE  c.task \in Task /\ Exists(c.task) /\ task[c.task] \in TaskRecord
  BY InFlightFields DEF JobsKnown, InFlight, TypeOK
<1>2. ASSUME NEW c \in cancels, DropQueued(c)
      PROVE  (\A t \in Task : Kept(t) \/ Rewritten(t)) /\ work' = work
  <2>1. "cancelled" \in Finished /\ Grounds(c.task)
    BY <1>2 DEF Finished, Grounds, DropQueued
  <2>2. QED
    BY <1>1, <1>2, <2>1, RewriteOf DEF DropQueued, Kept
<1>3. ASSUME NEW c \in cancels, AskToStop(c)
      PROVE  (\A t \in Task : Kept(t) \/ Marked(t)) /\ work' = work
  <2>1. \A u \in Task : task'[u] = IF u = c.task THEN [task[c.task] EXCEPT !.cancel = TRUE]
                                                 ELSE task[u]
    BY <1>1, <1>3 DEF AskToStop, TypeOK
  <2>2. Marked(c.task)
    BY <1>1, <1>3, <2>1 DEF Marked, TaskRecord, AskToStop
  <2>3. QED
    BY <1>3, <2>1, <2>2 DEF AskToStop, Kept
<1>4. ASSUME NEW t \in Task, ReadCancel(t)
      PROVE  task' = task /\ work' = work
  BY <1>4 DEF ReadCancel
<1>5. QED
  BY <1>2, <1>3, <1>4 DEF Cancelling, Kept

LEMMA SweepingWrites ==
    ASSUME TypeOK, JobsKnown, MovesAreAuto, Sweeping
    PROVE  /\ \A t \in Task : Kept(t) \/ Rewritten(t) \/ Marked(t)
           /\ work' = work
<1> USE DEF requests, machines
<1>1. "failed" \in Finished
  BY DEF Finished
<1>2. ASSUME NEW t \in Task, Age(t)
      PROVE  (\A u \in Task : Kept(u) \/ Marked(u)) /\ work' = work
  <2>1. task[t] \in TaskRecord
    BY DEF TypeOK
  <2>2. \A u \in Task : task'[u] = IF u = t THEN [task[t] EXCEPT !.overdue = TRUE]
                                            ELSE task[u]
    BY <1>2 DEF Age, TypeOK
  <2>3. Marked(t)
    BY <1>2, <2>1, <2>2 DEF Age, Marked, TaskRecord, Exists
  <2>4. QED
    BY <1>2, <2>2, <2>3 DEF Age, Kept
<1>3. CASE ReadStale \/ ReadLive \/ ReadOrphans
  BY <1>3 DEF ReadStale, ReadLive, ReadOrphans, Kept
<1>4. ASSUME NEW s \in sweep.stale, Reap(s)
      PROVE  (\A t \in Task : Kept(t) \/ Rewritten(t)) /\ work' = work
  <2>1. s.task \in Task /\ Exists(s.task)
    BY InFlightFields DEF JobsKnown, InFlight
  <2>2. QED
    BY <1>1, <1>4, <2>1, RewriteOf DEF Reap
<1>5. ASSUME NEW o \in sweep.orphans, FailOrphan(o)
      PROVE  (\A t \in Task : Kept(t) \/ Rewritten(t)) /\ work' = work
  <2>1. o.task \in Task /\ Exists(o.task)
    BY InFlightFields DEF JobsKnown, InFlight
  <2>2. QED
    BY <1>1, <1>5, <2>1, RewriteOf DEF FailOrphan
<1>6. ASSUME NEW o \in sweep.orphans, RedispatchOrphan(o)
      PROVE  task' = task /\ work' = work
  BY <1>6 DEF RedispatchOrphan
<1>7. ASSUME NEW m \in sweep.move, MoveOrphan(m)
      PROVE  (\A t \in Task : Kept(t) \/ Rewritten(t)) /\ work' = work
  <2>1. /\ m.task \in Task /\ Exists(m.task) /\ m.to \in Node \union {NoNode}
        /\ task[m.task].placement = "auto"
    BY InFlightFields DEF JobsKnown, InFlight, MovesAreAuto
  <2>2. QED
    BY <1>1, <1>7, <2>1, RewriteOf DEF MoveOrphan
<1>8. QED
  BY <1>2, <1>3, <1>4, <1>5, <1>6, <1>7 DEF Sweeping, Kept

(* A step either claims one job or writes as the lemmas above say. *)
LEMMA StepWrites ==
    ASSUME TypeOK, JobsKnown, MovesAreAuto, [Next]_vars
    PROVE  \/ (\A t \in Task : Written(t)) /\ work' \subseteq work
           \/ \E n \in Node : Claim(n)
BY SubmittingWrites, MachineWrites, ReportingWrites, CancellingWrites, SweepingWrites
   DEF Next, vars, Written, Kept

(* Jobs once inserted stay, on some machine, and keep their placement.     *)
LEMMA JobsStay ==
    ASSUME TypeOK, JobsKnown, MovesAreAuto, [Next]_vars, NEW t \in Task
    PROVE  /\ Exists(t) => Exists(t)' /\ task'[t].placement = task[t].placement
           /\ Exists(t)' => task'[t].node \in Node
<1>1. CASE Written(t)
  BY <1>1 DEF Written, Kept, Inserted, Rewritten, Marked, Same, Exists, JobsKnown, Finished
<1>2. CASE Taken(t)
  BY <1>2 DEF Taken, Same, Exists, JobsKnown
<1>3. QED
  BY <1>1, <1>2, StepWrites, ClaimWrites DEF Written

-----------------------------------------------------------------------------
(* The jobs in flight are jobs that were inserted.                         *)

LEMMA InFlightGrows ==
    ASSUME TypeOK, [Next]_vars, NEW t \in Task
    PROVE  InFlight(t)' => InFlight(t) \/ Exists(t)
<1> USE DEF requests, machines, InFlight
<1>1. CASE UNCHANGED vars
  BY <1>1 DEF vars
<1>2. CASE Submitting
  BY <1>2 DEF Submitting, SubmitAnywhere, SubmitTo, Retry, Insert, Refuse
<1>3. CASE Machine
  <2>1. ASSUME NEW n \in Node, Claim(n)
        PROVE  InFlight(t)' => InFlight(t) \/ Exists(t)
    <3>1. PICK u \in Task : /\ task[u].status = "pending"
                            /\ work' = work \union {[node |-> n, task |-> u,
                                                     attempt |-> task[u].attempts + 1]}
      BY <2>1, ClaimWrites DEF Taken
    <3>2. QED
      BY <2>1, <3>1 DEF Claim, Exists
  <2>2. ASSUME NEW n \in Node, Peek(n)
        PROVE  InFlight(t)' => InFlight(t) \/ Exists(t)
    <3>1. PICK u \in Task : /\ task[u].status = "pending"
                            /\ shown' = shown \union {[node |-> n, task |-> u]}
      BY <2>2, QueriesSelect DEF Peek, Pending
    <3>2. QED
      BY <2>2, <3>1 DEF Peek, Exists
  <2>3. ASSUME NEW w \in work, PollCancel(w) \/ LoseWork(w)
        PROVE  InFlight(t)' => InFlight(t) \/ Exists(t)
    BY <2>3 DEF PollCancel, LoseWork
  <2>4. QED
    BY <1>3, <2>1, <2>2, <2>3 DEF Machine, Appear, LoseOffer
<1>4. CASE Reporting
  <2>1. ASSUME NEW w \in work, NEW outcome, ReportWork(w, outcome)
        PROVE  InFlight(t)' => InFlight(t) \/ Exists(t)
    BY <2>1 DEF ReportWork, ReadReport
  <2>2. ASSUME NEW o \in shown, NEW outcome, ReportOffer(o, outcome)
        PROVE  InFlight(t)' => InFlight(t) \/ Exists(t)
    BY <2>2 DEF ReportOffer, ReadReport
  <2>3. ASSUME NEW r \in reports, PutBack(r) \/ Settle(r) \/ Redispatch(r)
        PROVE  InFlight(t)' => InFlight(t) \/ Exists(t)
    BY <2>3 DEF PutBack, Settle, Redispatch
  <2>4. ASSUME NEW m \in moves, FinishMove(m)
        PROVE  InFlight(t)' => InFlight(t) \/ Exists(t)
    BY <2>4 DEF FinishMove
  <2>5. QED
    BY <1>4, <2>1, <2>2, <2>3, <2>4 DEF Reporting
<1>5. CASE Cancelling
  <2>1. ASSUME NEW u \in Task, ReadCancel(u)
        PROVE  InFlight(t)' => InFlight(t) \/ Exists(t)
    BY <2>1 DEF ReadCancel, Exists
  <2>2. ASSUME NEW c \in cancels, DropQueued(c) \/ AskToStop(c)
        PROVE  InFlight(t)' => InFlight(t) \/ Exists(t)
    BY <2>2 DEF DropQueued, AskToStop
  <2>3. QED
    BY <1>5, <2>1, <2>2 DEF Cancelling
<1>6. CASE Sweeping
  <2>1. CASE ReadStale
    <3> DEFINE old == {u \in Task : task[u].status = "running" /\ task[u].overdue}
    <3>1. sweep'.stale = {[task |-> u, attempts |-> task[u].attempts] : u \in
                            FirstOf(old, StaleBatch)}
      BY <2>1 DEF ReadStale, TypeOK, Sweep
    <3>2. \A r \in sweep'.stale : Exists(r.task)
      <4> TAKE r \in sweep'.stale
      <4>1. PICK u \in FirstOf(old, StaleBatch) : r = [task |-> u, attempts |-> task[u].attempts]
        BY <3>1
      <4>2. r.task = u /\ u \in old
        BY <4>1, QueriesSelect
      <4>3. QED
        BY <4>2 DEF Exists
    <3>3. sweep'.orphans = sweep.orphans /\ sweep'.move = sweep.move
      BY <2>1 DEF ReadStale, TypeOK, Sweep
    <3>4. QED
      BY <2>1, <3>2, <3>3 DEF ReadStale
  <2>2. CASE ReadOrphans
    <3> DEFINE waiting == {u \in Task : task[u].status = "pending"}
    <3>1. sweep'.orphans = OrphansIn(FirstOf(waiting, OrphanBatch), sweep.live)
      BY <2>2 DEF ReadOrphans, TypeOK, Sweep
    <3>2. \A r \in sweep'.orphans : Exists(r.task)
      <4> TAKE r \in sweep'.orphans
      <4>1. PICK u \in FirstOf(waiting, OrphanBatch) :
              r = [task |-> u, node |-> task[u].node, declined |-> task[u].declined]
        BY <3>1 DEF OrphansIn
      <4>2. r.task = u /\ u \in waiting
        BY <4>1, QueriesSelect
      <4>3. QED
        BY <4>2 DEF Exists
    <3>3. sweep'.stale = sweep.stale /\ sweep'.move = sweep.move
      BY <2>2 DEF ReadOrphans, TypeOK, Sweep
    <3>4. QED
      BY <2>2, <3>2, <3>3 DEF ReadOrphans
  <2>3. CASE ReadLive
    BY <2>3 DEF ReadLive, TypeOK, Sweep
  <2>4. ASSUME NEW u \in Task, Age(u)
        PROVE  InFlight(t)' => InFlight(t) \/ Exists(t)
    BY <2>4 DEF Age
  <2>5. ASSUME NEW r \in sweep.stale, Reap(r)
        PROVE  InFlight(t)' => InFlight(t) \/ Exists(t)
    BY <2>5 DEF Reap, TypeOK, Sweep
  <2>6. ASSUME NEW o \in sweep.orphans, FailOrphan(o)
        PROVE  InFlight(t)' => InFlight(t) \/ Exists(t)
    BY <2>6 DEF FailOrphan, TypeOK, Sweep
  <2>7. ASSUME NEW o \in sweep.orphans, RedispatchOrphan(o)
        PROVE  InFlight(t)' => InFlight(t) \/ Exists(t)
    BY <2>7 DEF RedispatchOrphan, TypeOK, Sweep
  <2>8. ASSUME NEW m \in sweep.move, MoveOrphan(m)
        PROVE  InFlight(t)' => InFlight(t) \/ Exists(t)
    BY <2>8 DEF MoveOrphan, TypeOK, Sweep
  <2>9. QED
    BY <1>6, <2>1, <2>2, <2>3, <2>4, <2>5, <2>6, <2>7, <2>8 DEF Sweeping
<1>7. QED
  BY <1>1, <1>2, <1>3, <1>4, <1>5, <1>6 DEF Next

LEMMA MovesStayAuto ==
    TypeOK /\ JobsKnown /\ MovesAreAuto /\ [Next]_vars => MovesAreAuto'
<1> SUFFICES ASSUME TypeOK, JobsKnown, MovesAreAuto, [Next]_vars,
                    NEW m \in (moves \union sweep.move)'
             PROVE  task'[m.task].placement = "auto"
  BY DEF MovesAreAuto
<1> USE DEF requests, machines
<1>1. CASE m \in moves \union sweep.move
  <2>1. m.task \in Task /\ Exists(m.task) /\ task[m.task].placement = "auto"
    BY <1>1, InFlightFields DEF JobsKnown, InFlight, MovesAreAuto
  <2>2. QED
    BY <2>1, JobsStay
<1>2. ASSUME NEW r \in reports, Redispatch(r), m \in moves' \ moves
      PROVE  task'[m.task].placement = "auto"
  BY <1>2 DEF Redispatch, MayMove
<1>3. ASSUME NEW o \in sweep.orphans, RedispatchOrphan(o), m \in sweep'.move
      PROVE  task'[m.task].placement = "auto"
  BY <1>3 DEF RedispatchOrphan, MayMove, TypeOK, Sweep
<1>4. \/ m \in moves \union sweep.move
      \/ \E r \in reports : Redispatch(r) /\ m \in moves' \ moves
      \/ \E o \in sweep.orphans : RedispatchOrphan(o) /\ m \in sweep'.move
  <2>1. CASE UNCHANGED vars
    BY <2>1 DEF vars
  <2>2. CASE Submitting
    BY <2>2 DEF Submitting, SubmitAnywhere, SubmitTo, Retry, Insert, Refuse
  <2>3. CASE Machine
    BY <2>3 DEF Machine, Claim, Peek, Appear, PollCancel, LoseWork, LoseOffer
  <2>4. CASE Reporting
    BY <2>4 DEF Reporting, ReportWork, ReportOffer, PutBack, Settle, Redispatch, FinishMove
  <2>5. CASE Cancelling
    BY <2>5 DEF Cancelling, ReadCancel, DropQueued, AskToStop
  <2>6. CASE Sweeping
    BY <2>6 DEF Sweeping, Age, ReadStale, Reap, ReadLive, ReadOrphans, FailOrphan,
                RedispatchOrphan, MoveOrphan, TypeOK, Sweep
  <2>7. QED
    BY <2>1, <2>2, <2>3, <2>4, <2>5, <2>6 DEF Next
<1>5. QED
  BY <1>1, <1>2, <1>3, <1>4

LEMMA KnownStayKnown ==
    TypeOK /\ JobsKnown /\ MovesAreAuto /\ [Next]_vars => JobsKnown'
<1> SUFFICES ASSUME TypeOK, JobsKnown, MovesAreAuto, [Next]_vars, NEW t \in Task
             PROVE  /\ InFlight(t)' => Exists(t)'
                    /\ Exists(t)' => task'[t].node \in Node
  BY DEF JobsKnown
<1>1. InFlight(t)' => Exists(t)
  BY InFlightGrows DEF JobsKnown
<1>2. QED
  BY <1>1, JobsStay

(* What is in flight is well typed, of jobs that were inserted, and the    *)
(* redispatches are of jobs the coordinator may move: each needs the       *)
(* others, and every other invariant needs them.                           *)
Known == TypeOK /\ JobsKnown /\ MovesAreAuto

LEMMA KnownInvariant == Spec => []Known
<1>1. Init => Known
  BY TypeInit DEF Init, Known, JobsKnown, InFlight, Exists, MovesAreAuto
<1>2. Known /\ [Next]_vars => Known'
  BY TypeNext, KnownStayKnown, MovesStayAuto DEF Known
<1>3. QED
  BY <1>1, <1>2, PTL DEF Spec

(* The types are kept by every interleaving of the handlers.               *)
THEOREM TypeCorrect == Spec => []TypeOK
<1>1. Known => TypeOK
  BY DEF Known
<1>2. QED
  BY <1>1, KnownInvariant, PTL

(* No job is ever without a machine, and no handler's write is about a job *)
(* that was not inserted before the handler read it.                       *)
THEOREM JobsAreKnown == Spec => []JobsKnown
<1>1. Known => JobsKnown
  BY DEF Known
<1>2. QED
  BY <1>1, KnownInvariant, PTL

(* The write of a redispatch does not read the job again, yet it never     *)
(* moves one that was addressed to a machine.                              *)
THEOREM ChosenMachineIsKept == Spec => ChosenMachineKept
<1>1. ASSUME Known, [Next]_vars, NEW t \in Task,
             Exists(t), task[t].placement = "chosen"
      PROVE  task'[t].node = task[t].node /\ task'[t].placement = "chosen"
  <2>1. CASE Written(t)
    BY <1>1, <2>1 DEF Written, Kept, Inserted, Rewritten, Marked, Same
  <2>2. CASE Taken(t)
    BY <1>1, <2>2 DEF Taken, Same
  <2>3. QED
    BY <1>1, <2>1, <2>2, StepWrites, ClaimWrites DEF Known, Written
<1>2. Known /\ [Next]_vars =>
        [\A t \in Task : Exists(t) /\ task[t].placement = "chosen" =>
           task'[t].node = task[t].node /\ task'[t].placement = "chosen"]_vars
  BY <1>1
<1>3. QED
  BY <1>2, KnownInvariant, PTL DEF Spec, ChosenMachineKept

-----------------------------------------------------------------------------
(* One holder per attempt.                                                 *)

(* An attempt a machine holds is one the job has counted: the next claim's *)
(* is then another.                                                        *)
AttemptsCounted == \A w \in work : w.attempt <= task[w.task].attempts

Holders == AttemptsCounted /\ OneHolderPerAttempt

LEMMA WriteKeepsHolders ==
    ASSUME Known, Holders, \A t \in Task : Written(t), work' \subseteq work
    PROVE  Holders'
<1>1. ASSUME NEW w \in work
      PROVE  /\ w.task \in Task /\ task'[w.task].attempts = task[w.task].attempts
             /\ task'[w.task].status = "running" =>
                  /\ task[w.task].status = "running"
                  /\ task'[w.task].node = task[w.task].node
  <2>1. w.task \in Task /\ Exists(w.task)
    BY InFlightFields DEF Known, JobsKnown, InFlight
  <2>2. QED
    BY <2>1 DEF Written, Kept, Inserted, Rewritten, Marked, Finished
<1>2. QED
  BY <1>1 DEF Holders, AttemptsCounted, OneHolderPerAttempt

LEMMA ClaimKeepsHolders ==
    ASSUME Known, Holders, NEW n \in Node, Claim(n)
    PROVE  Holders'
<1>1. PICK t \in Task :
        /\ Taken(t) /\ task[t].node = n
        /\ \A u \in Task \ {t} : Kept(u)
        /\ work' = work \union {[node |-> n, task |-> t, attempt |-> task[t].attempts + 1]}
  BY ClaimWrites DEF Known
<1> DEFINE new == [node |-> n, task |-> t, attempt |-> task[t].attempts + 1]
<1>2. task[t].attempts \in Nat
  BY DEF Known, TypeOK, TaskRecord
<1>3. /\ task'[t].attempts = task[t].attempts + 1
      /\ task'[t].node = n
  BY <1>1 DEF Taken
<1>4. new.task = t /\ new.node = n /\ new.attempt = task[t].attempts + 1
  OBVIOUS
<1>5. ASSUME NEW w \in work
      PROVE  /\ w.task \in Task /\ w.attempt \in Nat
             /\ w.attempt <= task[w.task].attempts
             /\ w.task # t => task'[w.task] = task[w.task]
  BY <1>1, InFlightFields DEF Known, Holders, AttemptsCounted, Kept
<1>6. ASSUME NEW w \in work, w.task = t
      PROVE  w.attempt < task[t].attempts + 1
  BY <1>2, <1>5, <1>6
<1>7. AttemptsCounted'
  <2>1. ASSUME NEW w \in work
        PROVE  w.attempt <= task'[w.task].attempts
    BY <1>2, <1>3, <1>5, <2>1
  <2>2. new.attempt <= task'[new.task].attempts
    BY <1>2, <1>3, <1>4
  <2>3. QED
    BY <1>1, <2>1, <2>2 DEF AttemptsCounted
<1>8. \A v, w \in work' : v.task = w.task /\ v.attempt = w.attempt => v = w
  <2>1. \A w \in work : ~ (w.task = new.task /\ w.attempt = new.attempt)
    BY <1>2, <1>4, <1>5, <1>6
  <2>2. QED
    BY <1>1, <2>1 DEF Holders, OneHolderPerAttempt
<1>9. ASSUME NEW w \in work',
             task'[w.task].status = "running", w.attempt = task'[w.task].attempts
      PROVE  w.node = task'[w.task].node
  <2>1. CASE w = new
    BY <1>3, <1>4, <2>1
  <2>2. CASE w \in work /\ w.task = t
    BY <1>2, <1>3, <1>5, <1>6, <1>9, <2>2
  <2>3. CASE w \in work /\ w.task # t
    BY <1>5, <1>9, <2>3 DEF Holders, OneHolderPerAttempt
  <2>4. QED
    BY <1>1, <2>1, <2>2, <2>3
<1>10. QED
  BY <1>7, <1>8, <1>9 DEF Holders, OneHolderPerAttempt

(* No two machines hold the same attempt of a job, and the holder of the   *)
(* attempt that is running is the machine whose report will be accepted.   *)
THEOREM OneHolder == Spec => []OneHolderPerAttempt
<1>1. Init => Holders
  BY DEF Init, Holders, AttemptsCounted, OneHolderPerAttempt
<1>2. Known /\ Holders /\ [Next]_vars => Holders'
  BY StepWrites, WriteKeepsHolders, ClaimKeepsHolders DEF Known
<1>3. Holders => OneHolderPerAttempt
  BY DEF Holders
<1>4. QED
  BY <1>1, <1>2, <1>3, KnownInvariant, PTL DEF Spec

-----------------------------------------------------------------------------
(* Requests to stop.                                                       *)

(* A step tells a submitter that a running job will stop only while it     *)
(* records the request on the job.                                         *)
LEMMA RepliesGrow ==
    ASSUME Known, [Next]_vars, NEW t \in Task,
           <<t, "requested">> \in replies', <<t, "requested">> \notin replies
    PROVE  task'[t].cancel
<1> USE DEF requests, machines
<1>1. ASSUME NEW c \in cancels, AskToStop(c)
      PROVE  task'[t].cancel
  <2>1. c.task = t /\ task[t] \in TaskRecord
    BY <1>1 DEF AskToStop, Known, TypeOK
  <2>2. task'[t] = [task[t] EXCEPT !.cancel = TRUE]
    BY <1>1, <2>1 DEF AskToStop, Known, TypeOK
  <2>3. QED
    BY <2>1, <2>2 DEF TaskRecord
<1>2. replies' = replies \/ \E c \in cancels : AskToStop(c) \/ DropQueued(c)
  <2>1. CASE UNCHANGED vars
    BY <2>1 DEF vars
  <2>2. CASE Submitting
    BY <2>2 DEF Submitting, SubmitAnywhere, SubmitTo, Retry, Insert, Refuse
  <2>3. CASE Machine
    BY <2>3 DEF Machine, Claim, Peek, Appear, PollCancel, LoseWork, LoseOffer
  <2>4. CASE Reporting
    BY <2>4 DEF Reporting, ReportWork, ReportOffer, PutBack, Settle, Redispatch, FinishMove
  <2>5. CASE Cancelling
    BY <2>5 DEF Cancelling, ReadCancel
  <2>6. CASE Sweeping
    BY <2>6 DEF Sweeping, Age, ReadStale, Reap, ReadLive, ReadOrphans, FailOrphan,
                RedispatchOrphan, MoveOrphan
  <2>7. QED
    BY <2>1, <2>2, <2>3, <2>4, <2>5, <2>6 DEF Next
<1>3. QED
  BY <1>1, <1>2 DEF DropQueued

(* Whatever requeues, moves, restarts or ends a job after its submitter    *)
(* asked for it to stop, the request stays on it.                          *)
THEOREM StopRequestsAreKept == Spec => []StopRequestKept
<1>1. Init => StopRequestKept
  BY DEF Init, StopRequestKept
<1>2. ASSUME Known, StopRequestKept, [Next]_vars, NEW t \in Task,
             <<t, "requested">> \in replies'
      PROVE  task'[t].cancel
  <2>1. CASE <<t, "requested">> \notin replies
    BY <1>2, <2>1, RepliesGrow
  <2>2. CASE <<t, "requested">> \in replies
    <3>1. Exists(t) /\ task[t].cancel
      BY <1>2, <2>2 DEF Known, JobsKnown, InFlight, StopRequestKept
    <3>2. CASE Written(t)
      BY <3>1, <3>2 DEF Written, Kept, Inserted, Rewritten, Marked, Same
    <3>3. CASE Taken(t)
      BY <3>1, <3>3 DEF Taken, Same
    <3>4. QED
      BY <1>2, <3>2, <3>3, StepWrites, ClaimWrites DEF Known, Written
  <2>3. QED
    BY <2>1, <2>2
<1>3. Known /\ StopRequestKept /\ [Next]_vars => StopRequestKept'
  BY <1>2 DEF StopRequestKept
<1>4. QED
  BY <1>1, <1>3, KnownInvariant, PTL DEF Spec

-----------------------------------------------------------------------------
(* Jobs that end as cancelled, where no owner approves jobs by hand.       *)

(* A machine has one job in hand; its flag is up, a report says cancelled  *)
(* and a job is marked or ended so only after an answer to the submitter.  *)
OneJobInHand == \A v, w \in work : v.node = w.node => v = w
FlagsAreAsked == \A w \in work : w.node \in stopping => WasAsked(w.task)
ReportsAreAsked == \A r \in reports : r.outcome = "cancelled" => WasAsked(r.task)
MarksAreAsked == \A t \in Task : task[t].cancel => WasAsked(t)

Asked == OneJobInHand /\ FlagsAreAsked /\ ReportsAreAsked /\ MarksAreAsked /\ CancelledOnlyIfAsked

LEMMA AnswersStay == ASSUME [Next]_vars PROVE replies \subseteq replies'
<1> USE DEF requests, machines
<1>1. CASE UNCHANGED vars
  BY <1>1 DEF vars
<1>2. CASE Submitting
  BY <1>2 DEF Submitting, SubmitAnywhere, SubmitTo, Retry, Insert, Refuse
<1>3. CASE Machine
  BY <1>3 DEF Machine, Claim, Peek, Appear, PollCancel, LoseWork, LoseOffer
<1>4. CASE Reporting
  BY <1>4 DEF Reporting, ReportWork, ReportOffer, PutBack, Settle, Redispatch, FinishMove
<1>5. CASE Cancelling
  BY <1>5 DEF Cancelling, ReadCancel, DropQueued, AskToStop
<1>6. CASE Sweeping
  BY <1>6 DEF Sweeping, Age, ReadStale, Reap, ReadLive, ReadOrphans, FailOrphan,
              RedispatchOrphan, MoveOrphan
<1>7. QED
  BY <1>1, <1>2, <1>3, <1>4, <1>5, <1>6 DEF Next

(* A report is read of a job whose machine has it in hand, or was shown it. *)
LEMMA ReportsGrow ==
    ASSUME [Next]_vars, NEW r \in reports' \ reports, r.outcome = "cancelled"
    PROVE  \E w \in work : w.task = r.task /\ w.node \in stopping
<1> USE DEF requests, machines
<1>1. ASSUME NEW w \in work, NEW outcome, ReportWork(w, outcome)
      PROVE  \E v \in work : v.task = r.task /\ v.node \in stopping
  BY <1>1 DEF ReportWork, ReadReport
<1>2. ASSUME NEW o \in shown, NEW outcome \in {"rejected", "unanswered"},
             ReportOffer(o, outcome)
      PROVE  FALSE
  BY <1>2 DEF ReportOffer, ReadReport
<1>3. ASSUME NEW q \in reports, PutBack(q) \/ Settle(q) \/ Redispatch(q)
      PROVE  FALSE
  BY <1>3 DEF PutBack, Settle, Redispatch
<1>4. CASE Submitting
  BY <1>4 DEF Submitting, SubmitAnywhere, SubmitTo, Retry, Insert, Refuse
<1>5. CASE Machine
  BY <1>5 DEF Machine, Claim, Peek, Appear, PollCancel, LoseWork, LoseOffer
<1>6. CASE Reporting
  BY <1>1, <1>2, <1>3, <1>6 DEF Reporting, FinishMove
<1>7. CASE Cancelling
  BY <1>7 DEF Cancelling, ReadCancel, DropQueued, AskToStop
<1>8. CASE Sweeping
  BY <1>8 DEF Sweeping, Age, ReadStale, Reap, ReadLive, ReadOrphans, FailOrphan,
              RedispatchOrphan, MoveOrphan
<1>9. QED
  BY <1>4, <1>5, <1>6, <1>7, <1>8 DEF Next, vars

LEMMA HandsAndFlags ==
    ASSUME Known, Asked, Askers = {}, [Next]_vars
    PROVE  OneJobInHand' /\ FlagsAreAsked'
<1> USE DEF requests, machines
<1>1. \A t : WasAsked(t) => WasAsked(t)'
  BY AnswersStay DEF WasAsked
<1>2. ASSUME NEW n \in Node, Claim(n)
      PROVE  OneJobInHand' /\ FlagsAreAsked'
  <2>1. \A w \in work : w.node # n
    BY <1>2 DEF Claim, FreeToClaim
  <2>2. PICK t \in Task :
          work' = work \union {[node |-> n, task |-> t, attempt |-> task[t].attempts + 1]}
    BY <1>2, ClaimWrites DEF Known
  <2>3. stopping' = stopping \ {n}
    BY <1>2 DEF Claim
  <2>4. OneJobInHand'
    BY <2>1, <2>2 DEF Asked, OneJobInHand
  <2>5. FlagsAreAsked'
    BY <1>1, <2>2, <2>3 DEF Asked, FlagsAreAsked
  <2>6. QED
    BY <2>4, <2>5
<1>3. ASSUME NEW v \in work, PollCancel(v)
      PROVE  OneJobInHand' /\ FlagsAreAsked'
  <2>1. v.task \in Task /\ task[v.task].cancel
    BY <1>3, InFlightFields DEF PollCancel, Known
  <2>2. WasAsked(v.task)
    BY <2>1 DEF Asked, MarksAreAsked
  <2>3. work' = work /\ stopping' = stopping \union {v.node}
    BY <1>3 DEF PollCancel
  <2>4. \A w \in work : w.node = v.node => w = v
    BY DEF Asked, OneJobInHand
  <2>5. OneJobInHand'
    BY <2>3 DEF Asked, OneJobInHand
  <2>6. FlagsAreAsked'
    BY <1>1, <2>2, <2>3, <2>4 DEF Asked, FlagsAreAsked
  <2>7. QED
    BY <2>5, <2>6
<1>4. CASE work' \subseteq work /\ stopping' \subseteq stopping
  BY <1>1, <1>4 DEF Asked, OneJobInHand, FlagsAreAsked
<1>5. CASE Submitting
  BY <1>4, <1>5 DEF Submitting, SubmitAnywhere, SubmitTo, Retry, Insert, Refuse
<1>6. CASE Machine
  <2>1. ASSUME NEW w \in work, LoseWork(w)
        PROVE  OneJobInHand' /\ FlagsAreAsked'
    BY <1>4, <2>1 DEF LoseWork, StillStopping
  <2>2. QED
    BY <1>2, <1>3, <1>4, <1>6, <2>1 DEF Machine, Peek, Appear, LoseOffer
<1>7. CASE Reporting
  <2>1. ASSUME NEW w \in work, NEW outcome, ReportWork(w, outcome)
        PROVE  OneJobInHand' /\ FlagsAreAsked'
    BY <1>4, <2>1 DEF ReportWork, StillStopping
  <2>2. QED
    BY <1>4, <1>7, <2>1 DEF Reporting, ReportOffer, PutBack, Settle, Redispatch, FinishMove
<1>8. CASE Cancelling
  BY <1>4, <1>8 DEF Cancelling, ReadCancel, DropQueued, AskToStop
<1>9. CASE Sweeping
  BY <1>4, <1>9 DEF Sweeping, Age, ReadStale, Reap, ReadLive, ReadOrphans, FailOrphan,
                    RedispatchOrphan, MoveOrphan
<1>10. QED
  BY <1>4, <1>5, <1>6, <1>7, <1>8, <1>9 DEF Next, vars

LEMMA MarksAndEnds ==
    ASSUME Known, Asked, [Next]_vars
    PROVE  MarksAreAsked' /\ CancelledOnlyIfAsked'
<1>1. \A t : WasAsked(t) => WasAsked(t)'
  BY AnswersStay DEF WasAsked
<1>2. ASSUME NEW t \in Task
      PROVE  /\ task'[t].cancel => WasAsked(t)'
             /\ task'[t].status = "cancelled" => WasAsked(t)'
  <2>1. /\ task[t].cancel => WasAsked(t)'
        /\ task[t].status = "cancelled" => WasAsked(t)'
        /\ Grounds(t) => WasAsked(t)'
        /\ <<t, "requested">> \in replies' => WasAsked(t)'
    BY <1>1 DEF Asked, MarksAreAsked, CancelledOnlyIfAsked, ReportsAreAsked, Grounds, WasAsked
  <2>2. CASE Written(t)
    BY <2>1, <2>2 DEF Written, Kept, Inserted, Rewritten, Marked, Same
  <2>3. CASE Taken(t)
    BY <2>1, <2>3 DEF Taken, Same
  <2>4. QED
    BY <2>2, <2>3, StepWrites, ClaimWrites DEF Known, Written
<1>3. QED
  BY <1>2 DEF MarksAreAsked, CancelledOnlyIfAsked, WasAsked

(* Where machines take jobs by themselves, no interleaving ends as         *)
(* cancelled a job whose submitter was not answered on its cancellation.   *)
THEOREM CancelledAreAsked == Askers = {} /\ Spec => []CancelledOnlyIfAsked
<1> SUFFICES ASSUME Askers = {}
             PROVE  Spec => []CancelledOnlyIfAsked
  OBVIOUS
<1>1. Init => Asked
  BY DEF Init, Asked, OneJobInHand, FlagsAreAsked, ReportsAreAsked, MarksAreAsked,
         CancelledOnlyIfAsked
<1>2. ASSUME Known, Asked, [Next]_vars
      PROVE  Asked'
  <2>1. ReportsAreAsked'
    <3>1. \A t : WasAsked(t) => WasAsked(t)'
      BY <1>2, AnswersStay DEF WasAsked
    <3>2. ASSUME NEW r \in reports' \ reports, r.outcome = "cancelled"
          PROVE  WasAsked(r.task)
      BY <1>2, <3>2, ReportsGrow DEF Asked, FlagsAreAsked
    <3>3. QED
      BY <1>2, <3>1, <3>2 DEF Asked, ReportsAreAsked
  <2>2. QED
    BY <1>2, <2>1, HandsAndFlags, MarksAndEnds DEF Asked
<1>3. Known /\ Asked /\ [Next]_vars => Asked'
  BY <1>2
<1>4. Asked => CancelledOnlyIfAsked
  BY DEF Asked
<1>5. QED
  BY <1>1, <1>3, <1>4, KnownInvariant, PTL DEF Spec

-----------------------------------------------------------------------------
(* The coordinator implements the job board.                               *)

LEMMA OneAtATime ==
    ASSUME TypeOK, [Next]_vars
    PROVE  \E t : \A u \in Task \ {t} : Kept(u)
<1> USE DEF requests, machines, Kept, TypeOK
<1>1. CASE UNCHANGED vars
  BY <1>1 DEF vars
<1>2. CASE Submitting
  BY <1>2 DEF Submitting, SubmitAnywhere, SubmitTo, Retry, Insert, Refuse
<1>3. CASE Machine
  BY <1>3 DEF Machine, Claim, Peek, Appear, PollCancel, LoseWork, LoseOffer
<1>4. CASE Reporting
  BY <1>4 DEF Reporting, ReportWork, ReportOffer, PutBack, Settle, Redispatch, FinishMove
<1>5. CASE Cancelling
  BY <1>5 DEF Cancelling, ReadCancel, DropQueued, AskToStop
<1>6. CASE Sweeping
  BY <1>6 DEF Sweeping, Age, ReadStale, Reap, ReadLive, ReadOrphans, FailOrphan,
              RedispatchOrphan, MoveOrphan
<1>7. QED
  BY <1>1, <1>2, <1>3, <1>4, <1>5, <1>6 DEF Next

(* A job that was not inserted has no attempts: the board keeps the count  *)
(* when it puts the job up.                                                *)
AbsentAreBlank == \A t \in Task : ~ Exists(t) => task[t].attempts = 0

LEMMA AbsentStayBlank == Known /\ AbsentAreBlank /\ [Next]_vars => AbsentAreBlank'
<1> SUFFICES ASSUME Known, AbsentAreBlank, [Next]_vars, NEW t \in Task, ~ Exists(t)'
             PROVE  task'[t].attempts = 0
  BY DEF AbsentAreBlank
<1>1. CASE Written(t)
  BY <1>1 DEF Written, Kept, Inserted, Rewritten, Marked, Exists, Finished, AbsentAreBlank
<1>2. CASE Taken(t)
  BY <1>2 DEF Taken, Exists
<1>3. QED
  BY <1>1, <1>2, StepWrites, ClaimWrites DEF Known, Written

LEMMA BoardStep ==
    ASSUME Known, AbsentAreBlank, [Next]_vars
    PROVE  [Board!Next]_(Board!board)
<1> DEFINE StateOf(r) == IF r.status = "absent" THEN "none"
                         ELSE IF r.status = "pending" THEN "up"
                         ELSE IF r.status = "running" THEN "taken" ELSE "ended"
           State == [t \in Task |-> StateOf(task[t])]
           Place == [t \in Task |-> task[t].node]
           Pinned == {t \in Task : Exists(t) /\ task[t].placement = "chosen"}
           Attempt == [t \in Task |-> task[t].attempts]
<1>1. PICK t : \A u \in Task \ {t} : task'[u] = task[u]
  BY OneAtATime DEF Known, Kept
<1>2. ASSUME t \in Task
      PROVE  /\ State' = [State EXCEPT ![t] = StateOf(task'[t])]
             /\ Place' = [Place EXCEPT ![t] = task'[t].node]
             /\ Attempt' = [Attempt EXCEPT ![t] = task'[t].attempts]
  BY <1>1, <1>2
<1>3. ASSUME t \in Task,
             Exists(t)' <=> Exists(t), task'[t].placement = task[t].placement
      PROVE  Pinned' = Pinned
  BY <1>1, <1>3 DEF Exists
<1>4. CASE t \notin Task \/ Kept(t) \/ Marked(t)
  <2>1. State' = State /\ Place' = Place /\ Attempt' = Attempt
    BY <1>1, <1>4 DEF Kept, Marked
  <2>2. Pinned' = Pinned
    BY <1>1, <1>4 DEF Kept, Marked, Exists
  <2>3. QED
    BY <2>1, <2>2 DEF Board!board
<1>5. CASE t \in Task /\ Inserted(t)
  <2>1. PICK n \in Node, pin \in BOOLEAN :
           n = task'[t].node /\ pin = (task'[t].placement = "chosen")
    BY <1>5 DEF Inserted
  <2>2. State[t] = "none" /\ State' = [State EXCEPT ![t] = "up"]
    BY <1>2, <1>5 DEF Inserted, Exists
  <2>3. Place' = [Place EXCEPT ![t] = n]
    BY <1>2, <1>5, <2>1
  <2>4. Attempt' = Attempt
    BY <1>2, <1>5 DEF Inserted, AbsentAreBlank
  <2>5. Pinned' = IF pin THEN Pinned \union {t} ELSE Pinned
    BY <1>1, <1>5, <2>1 DEF Inserted, Exists
  <2>6. Board!PutUp(t, n, pin)
    BY <2>2, <2>3, <2>4, <2>5 DEF Board!PutUp
  <2>7. QED
    BY <1>5, <2>6 DEF Board!Next
<1>6. CASE t \in Task /\ Rewritten(t)
  <2>1. Exists(t) /\ Exists(t)' /\ task'[t].placement = task[t].placement
    BY <1>6 DEF Rewritten, Exists, Same, Finished
  <2>2. State[t] # "none" /\ Pinned' = Pinned
    BY <1>3, <1>6, <2>1 DEF Exists
  <2>3. Attempt' = Attempt
    BY <1>2, <1>6 DEF Rewritten
  <2>4. CASE task'[t].status = "pending"
    <3>1. PICK n \in Node : n = task'[t].node
      BY <1>6 DEF Rewritten
    <3>2. State' = [State EXCEPT ![t] = "up"] /\ Place' = [Place EXCEPT ![t] = n]
      BY <1>2, <1>6, <2>4, <3>1
    <3>3. t \in Pinned => n = Place[t]
      BY <1>6, <3>1 DEF Rewritten
    <3>4. Board!PutUpAgain(t, n)
      BY <2>2, <2>3, <3>2, <3>3 DEF Board!PutUpAgain
    <3>5. QED
      BY <1>6, <3>4 DEF Board!Next
  <2>5. CASE task'[t].status \in Finished
    <3>1. State' = [State EXCEPT ![t] = "ended"]
      BY <1>2, <1>6, <2>5 DEF Finished
    <3>2. Place' = Place
      BY <1>2, <1>6, <2>5 DEF Rewritten, Finished
    <3>3. Board!End(t)
      BY <2>2, <2>3, <3>1, <3>2 DEF Board!End
    <3>4. QED
      BY <1>6, <3>3 DEF Board!Next
  <2>6. QED
    BY <1>6, <2>4, <2>5 DEF Rewritten
<1>7. CASE t \in Task /\ Taken(t)
  <2>1. State[t] = "up" /\ State' = [State EXCEPT ![t] = "taken"]
    BY <1>2, <1>7 DEF Taken
  <2>2. Attempt' = [Attempt EXCEPT ![t] = Attempt[t] + 1]
    BY <1>2, <1>7 DEF Taken
  <2>3. Place' = Place
    BY <1>2, <1>7 DEF Taken
  <2>4. Pinned' = Pinned
    BY <1>3, <1>7 DEF Taken, Same, Exists
  <2>5. Board!Take(t)
    BY <2>1, <2>2, <2>3, <2>4 DEF Board!Take
  <2>6. QED
    BY <1>7, <2>5 DEF Board!Next
<1>8. t \in Task => Written(t) \/ Taken(t)
  BY StepWrites, ClaimWrites DEF Known, Written
<1>9. QED
  BY <1>4, <1>5, <1>6, <1>7, <1>8 DEF Written

(* Every behaviour of the handlers, the machines and the sweep is one of   *)
(* the board: a job runs only by a claim of the machine it is queued to,   *)
(* and a job addressed to a machine is put up nowhere else.                *)
THEOREM ImplementsJobBoard == Spec => IsAJobBoard
<1>1. Init => Board!Init /\ AbsentAreBlank
  BY DEF Init, Board!Init, AbsentAreBlank, Exists
<1>2. Known /\ AbsentAreBlank /\ [Next]_vars => [Board!Next]_(Board!board)
  BY BoardStep
<1>3. QED
  BY <1>1, <1>2, AbsentStayBlank, KnownInvariant, PTL DEF Spec, IsAJobBoard, Board!Spec

=============================================================================
