---------------------------- MODULE Submissions -----------------------------
(* Who sends a job, and how much one sender may ask of the network: the keys an
   account has linked (accountService, routes/auth.py), the digest a job is
   filed under (routes/deps.py submitter_or_session), and the quotas
   (service/quota.py), which count what is stored before the handler goes on
   and stores more (routes/tasks.py _queue_task, routes/artifacts.py).  A step
   lasts from one await to the next. *)
EXTENDS Naturals, Sequences, FiniteSets

CONSTANTS
  Keys,         \* submitter keys, by their digests
  NoKey,        \* no key, or a job filed under nobody
  Accounts,     \* GitHub accounts
  NoAccount,    \* a browser that is not signed in
  Senders,      \* bound: submissions that are handled at the same time
  Uploaders,    \* bound: uploads that are handled at the same time
  MaxJobs,      \* bound: jobs, numbered in the order they are queued
  ActiveJobs, JobsPerHour, BytesPerDay,  \* the quotas of the deployment
  MaxSize       \* the largest artifact; sizes are counted in coarse units

ASSUME SubmissionsAssumption ==
  /\ NoKey \notin Keys /\ NoAccount \notin Accounts
  /\ IsFiniteSet(Senders) /\ IsFiniteSet(Uploaders)
  /\ MaxJobs \in Nat /\ MaxSize \in Nat \ {0} /\ BytesPerDay \in Nat \ {0}
  /\ ActiveJobs \in Nat \ {0} /\ JobsPerHour \in Nat \ {0}

VARIABLES
  known,   \* accounts that signed in once
  linked,  \* submitter_ids of each account
  jobs,    \* the jobs, and what the quotas see of them
  queued,  \* how many there are
  sends,   \* where each submission is, and whom it is filed under
  uploads, \* where each upload is, and whom it counts against
  used     \* bytes each key stored in the last day

submissionsVars == <<known, linked, jobs, queued, sends, uploads, used>>

JobIds == 1..MaxJobs
Digests == Keys \cup {NoKey}
SentJobs == [owner : Digests,    \* submitter_id
             by : Accounts \cup {NoAccount}, \* the account of a browser without a key (history)
             how : {"none", "sent", "rerun", "reopened"}, \* how it became unfinished (history)
             active : BOOLEAN,   \* its status is not a terminal one
             recent : BOOLEAN]   \* submitted within the hour
Off == [at |-> "off", owner |-> NoKey, by |-> NoAccount]
Range1(s) == {s[i] : i \in DOMAIN s}

SubmissionsTypeOK ==
  /\ known \subseteq Accounts
  /\ linked \in [Accounts -> Seq(Keys)]
  /\ \A a \in Accounts : \A i, k \in DOMAIN linked[a] : linked[a][i] = linked[a][k] => i = k
  /\ jobs \in [JobIds -> SentJobs] /\ queued \in 0..MaxJobs
  /\ sends \in [Senders -> [at : {"off", "active", "hour", "split"},
                            owner : Digests, by : Accounts \cup {NoAccount}]]
  /\ uploads \in [Uploaders -> Digests]
  /\ used \in [Keys -> Nat]

SubmissionsInit ==
  /\ known = {} /\ linked = [a \in Accounts |-> <<>>]
  /\ jobs = [j \in JobIds |-> [owner |-> NoKey, by |-> NoAccount, how |-> "none",
                               active |-> FALSE, recent |-> FALSE]]
  /\ queued = 0
  /\ sends = [s \in Senders |-> Off]
  /\ uploads = [u \in Uploaders |-> NoKey]
  /\ used = [k \in Keys |-> 0]

-----------------------------------------------------------------------------
(* Accounts. *)

\* (mutant) the keys of the account are part of what a sign-in writes.
SignInAfresh(a) ==
  /\ known' = known \cup {a}
  /\ linked' = [linked EXCEPT ![a] = <<>>]
  /\ UNCHANGED <<jobs, queued, sends, uploads, used>>

\* github_callback and upsert: the list of keys is made on the first sign-in, and
\* left alone afterwards.
SignIn(a) ==
  /\ known' = known \cup {a}
  /\ UNCHANGED <<linked, jobs, queued, sends, uploads, used>>

\* link_key: the key of a signed-in browser, added once.
LinkKey(a, k) ==
  /\ a \in known /\ k \notin Range1(linked[a])
  /\ linked' = [linked EXCEPT ![a] = Append(@, k)]
  /\ UNCHANGED <<known, jobs, queued, sends, uploads, used>>

\* primary_submitter_id.
Primary(a) == IF linked[a] = <<>> THEN NoKey ELSE Head(linked[a])

\* submitter_or_session: the key wins over the session.
FiledUnder(key, a) ==
  IF key # NoKey THEN key ELSE IF a # NoAccount THEN Primary(a) ELSE NoKey

\* submitter_scope: whose jobs somebody may read, stop and repeat.
Scope(key, a) ==
  ({key} \ {NoKey}) \cup IF a # NoAccount THEN Range1(linked[a]) ELSE {}

-----------------------------------------------------------------------------
(* Submissions. *)

ActiveOf(o) == {j \in JobIds : jobs[j].owner = o /\ jobs[j].active}
RecentOf(o) == {j \in JobIds : jobs[j].owner = o /\ jobs[j].recent}
SendGoes(s, place) == sends' = [sends EXCEPT ![s].at = place]

\* A submission arrives, with what the browser holds; nobody's is not counted.
Send(s, key, a) ==
  /\ sends[s] = Off /\ a \in known \cup {NoAccount}
  /\ LET owner == FiledUnder(key, a)
     IN sends' = [sends EXCEPT ![s] =
                    [at |-> IF owner = NoKey THEN "split" ELSE "active",
                     owner |-> owner, by |-> IF key = NoKey THEN a ELSE NoAccount]]
  /\ UNCHANGED <<known, linked, jobs, queued, uploads, used>>

\* (mutant) one more than the limit.
CountOneMore(s) ==
  /\ sends[s].at = "active"
  /\ IF Cardinality(ActiveOf(sends[s].owner)) > ActiveJobs
     THEN sends' = [sends EXCEPT ![s] = Off]
     ELSE SendGoes(s, "hour")
  /\ UNCHANGED <<known, linked, jobs, queued, uploads, used>>

\* check_new_job counts the unfinished jobs ...
CountActive(s) ==
  /\ sends[s].at = "active"
  /\ IF Cardinality(ActiveOf(sends[s].owner)) >= ActiveJobs
     THEN sends' = [sends EXCEPT ![s] = Off]
     ELSE SendGoes(s, "hour")
  /\ UNCHANGED <<known, linked, jobs, queued, uploads, used>>

\* ... and those of the last hour.
CountRecent(s) ==
  /\ sends[s].at = "hour"
  /\ IF Cardinality(RecentOf(sends[s].owner)) >= JobsPerHour
     THEN sends' = [sends EXCEPT ![s] = Off]
     ELSE SendGoes(s, "split")
  /\ UNCHANGED <<known, linked, jobs, queued, uploads, used>>

\* The job or its data turns out to be unusable.
SendRefused(s) ==
  /\ sends[s].at = "split"
  /\ sends' = [sends EXCEPT ![s] = Off]
  /\ UNCHANGED <<known, linked, jobs, queued, uploads, used>>

Queues(owner, by, how) ==
  /\ queued < MaxJobs
  /\ queued' = queued + 1
  /\ jobs' = [jobs EXCEPT ![queued + 1] =
                [owner |-> owner, by |-> by, how |-> how, active |-> TRUE, recent |-> TRUE]]

\* The dataset was split and written, and the job is inserted.
SendQueued(s) ==
  /\ sends[s].at = "split"
  /\ Queues(sends[s].owner, sends[s].by, "sent")
  /\ sends' = [sends EXCEPT ![s] = Off]
  /\ UNCHANGED <<known, linked, uploads, used>>

\* retry_task, by anybody in whose scope the job is: filed under the original's
\* digest, and counted by no quota.
Rerun(j, key, a) ==
  /\ j <= queued /\ ~jobs[j].active /\ a \in known \cup {NoAccount}
  /\ jobs[j].owner \in Scope(key, a)
  /\ Queues(jobs[j].owner, jobs[j].by, "rerun")
  /\ UNCHANGED <<known, linked, sends, uploads, used>>

\* A job ends, or a late write puts a finished one back (TaskLifecycle).
JobChanges(j) ==
  /\ j <= queued
  /\ jobs' = [jobs EXCEPT ![j].active = ~@, ![j].how = IF jobs[j].active THEN @ ELSE "reopened"]
  /\ UNCHANGED <<known, linked, queued, sends, uploads, used>>

\* An hour passes since it was submitted.
JobAges(j) ==
  /\ jobs[j].recent
  /\ jobs' = [jobs EXCEPT ![j].recent = FALSE]
  /\ UNCHANGED <<known, linked, queued, sends, uploads, used>>

-----------------------------------------------------------------------------
(* Uploads. *)

\* (mutant) what the upload adds is left out of the sum.
UploadUncounted(u, k, size) ==
  /\ uploads[u] = NoKey /\ size > 0
  /\ used[k] <= BytesPerDay
  /\ uploads' = [uploads EXCEPT ![u] = k]
  /\ UNCHANGED <<known, linked, jobs, queued, sends, used>>

\* check_upload lets an upload of this size go on; an empty one was refused.
UploadChecked(u, k, size) ==
  /\ uploads[u] = NoKey /\ size > 0
  /\ used[k] + size <= BytesPerDay
  /\ uploads' = [uploads EXCEPT ![u] = k]
  /\ UNCHANGED <<known, linked, jobs, queued, sends, used>>

\* What is stored is the converted upload, or the dataset it was appended to: its
\* size is not the one that was checked.  A bad upload stores nothing.
UploadStored(u, size) ==
  /\ uploads[u] # NoKey
  /\ used' = [used EXCEPT ![uploads[u]] = @ + size]
  /\ uploads' = [uploads EXCEPT ![u] = NoKey]
  /\ UNCHANGED <<known, linked, jobs, queued, sends>>

\* An upload is deleted, or becomes older than a day.
UploadAges(k) ==
  /\ used[k] > 0
  /\ used' = [used EXCEPT ![k] = @ - 1]
  /\ UNCHANGED <<known, linked, jobs, queued, sends, uploads>>

-----------------------------------------------------------------------------
AccountStep == \E a \in Accounts : SignIn(a) \/ \E k \in Keys : LinkKey(a, k)
SendStep ==
  \/ \E s \in Senders :
       \/ CountActive(s) \/ CountRecent(s) \/ SendRefused(s) \/ SendQueued(s)
       \/ \E key \in Digests, a \in Accounts \cup {NoAccount} : Send(s, key, a)
  \/ \E j \in JobIds :
       \/ JobChanges(j) \/ JobAges(j)
       \/ \E key \in Digests, a \in Accounts \cup {NoAccount} : Rerun(j, key, a)
UploadStep ==
  \/ \E u \in Uploaders, size \in 0..MaxSize :
       UploadStored(u, size) \/ \E k \in Keys : UploadChecked(u, k, size)
  \/ \E k \in Keys : UploadAges(k)
SubmissionsNext == AccountStep \/ SendStep \/ UploadStep

SubmissionsSpec == SubmissionsInit /\ [][SubmissionsNext]_submissionsVars

-----------------------------------------------------------------------------
ActiveSent(o) == {j \in ActiveOf(o) : jobs[j].how = "sent"}
RecentSent(o) == {j \in RecentOf(o) : jobs[j].how = "sent"}

\* However many submissions of one sender overlap, they go over a quota by no more
\* than the others that were handled at the same time; only retries, which are not
\* counted, and jobs a late write reopened come on top (quota.py check_new_job).
JobQuotaHolds ==
  \A o \in Keys :
    /\ Cardinality(ActiveSent(o)) <= ActiveJobs + Cardinality(Senders) - 1
    /\ Cardinality(RecentSent(o)) <= JobsPerHour + Cardinality(Senders) - 1

\* The bytes of a day go over the limit by less than one stored artifact for each
\* upload that was handled at the same time, although what is checked is the size
\* of the request and what is counted the size of what it became (quota.py
\* check_upload, artifacts.py append_to_artifact).
ByteQuotaHolds ==
  \A k \in Keys : used[k] < BytesPerDay + MaxSize * Cardinality(Uploaders)

\* A job sent from a signed-in browser without a key is in the scope of that
\* account for ever, whatever keys are linked and whoever signs in again - unless
\* the account had no key, and the job is nobody's (deps.py submitter_or_session,
\* accountService.py upsert, link).
SentWorkIsInReach ==
  \A j \in JobIds :
    jobs[j].by # NoAccount => jobs[j].owner \in {NoKey} \cup Scope(NoKey, jobs[j].by)
=============================================================================
