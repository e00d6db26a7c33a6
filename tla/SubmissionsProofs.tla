-------------------------- MODULE SubmissionsProofs --------------------------
(***************************************************************************)
(* Proofs about Submissions, for any keys, accounts, quotas and bounds.    *)
(***************************************************************************)
EXTENDS Submissions, FiniteSetTheorems, SequenceTheorems, TLAPS

-----------------------------------------------------------------------------
(* The three parts of the state.                                           *)

AccountsInv ==
    /\ known \subseteq Accounts
    /\ linked \in [Accounts -> Seq(Keys)]
    /\ \A a \in Accounts : \A i, k \in DOMAIN linked[a] : linked[a][i] = linked[a][k] => i = k

SendRecords == [at : {"off", "active", "hour", "split"},
                owner : Digests, by : Accounts \cup {NoAccount}]
SendsInv == sends \in [Senders -> SendRecords]
JobsInv == jobs \in [JobIds -> SentJobs]
QueuedInv == queued \in 0..MaxJobs
UploadsInv == uploads \in [Uploaders -> Digests]
UsedInv == used \in [Keys -> Nat]

LEMMA TypeInParts ==
    SubmissionsTypeOK <=> AccountsInv /\ SendsInv /\ JobsInv /\ QueuedInv /\ UploadsInv /\ UsedInv
BY DEF SubmissionsTypeOK, AccountsInv, SendsInv, SendRecords, JobsInv, QueuedInv, UploadsInv,
   UsedInv

LEMMA SubmissionsAtFirst == SubmissionsInit => SubmissionsTypeOK
<1> SUFFICES ASSUME SubmissionsInit
             PROVE  SubmissionsTypeOK
  OBVIOUS
<1>1. AccountsInv
  <2>1. /\ known = {} /\ linked = [a \in Accounts |-> <<>>]
    BY DEF SubmissionsInit
  <2>2. <<>> \in Seq(Keys) /\ DOMAIN <<>> = {}
    BY EmptySeq
  <2>3. QED
    BY <2>1, <2>2 DEF AccountsInv
<1>2. SendsInv
  BY DEF SubmissionsInit, SendsInv, SendRecords, Off, Digests
<1>3. JobsInv
  BY DEF SubmissionsInit, JobsInv, SentJobs, Digests
<1>4. QueuedInv
  BY SubmissionsAssumption DEF SubmissionsInit, QueuedInv
<1>5. UploadsInv /\ UsedInv
  BY DEF SubmissionsInit, UploadsInv, UsedInv, Digests
<1>6. QED
  BY <1>1, <1>2, <1>3, <1>4, <1>5, TypeInParts

-----------------------------------------------------------------------------
(* Each step keeps each part.                                              *)

LEMMA LinkingKeepsTheType ==
    ASSUME AccountsInv, NEW a \in Accounts, NEW k \in Keys, LinkKey(a, k)
    PROVE  /\ AccountsInv'
           /\ \A b \in Accounts : Range1(linked[b]) \subseteq Range1(linked'[b])
<1> DEFINE old == linked[a]
           new == Append(linked[a], k)
<1>1. old \in Seq(Keys) /\ Len(old) \in Nat /\ DOMAIN old = 1..Len(old)
  BY LenProperties DEF AccountsInv
<1>2. /\ new \in Seq(Keys) /\ Len(new) = Len(old) + 1 /\ DOMAIN new = 1..Len(new)
      /\ \A i \in 1..Len(old) : new[i] = old[i]
      /\ new[Len(old) + 1] = k
  BY <1>1, AppendProperties, LenProperties
<1>3. linked' = [linked EXCEPT ![a] = new] /\ known' = known /\ k \notin Range1(old)
  BY DEF LinkKey
<1>4. \A i, j \in DOMAIN old : old[i] = old[j] => i = j
  BY DEF AccountsInv
<1>5. \A i \in DOMAIN old : old[i] # k
  BY <1>3 DEF Range1
<1> HIDE DEF old, new
<1>6. \A i, j \in DOMAIN new : new[i] = new[j] => i = j
  <2> SUFFICES ASSUME NEW i \in DOMAIN new, NEW j \in DOMAIN new, new[i] = new[j]
               PROVE  i = j
    OBVIOUS
  <2>1. i \in 1..Len(old) \/ i = Len(old) + 1
    BY <1>1, <1>2
  <2>2. j \in 1..Len(old) \/ j = Len(old) + 1
    BY <1>1, <1>2
  <2>3. QED
    BY <1>1, <1>2, <1>4, <1>5, <2>1, <2>2
<1>7. AccountsInv'
  BY <1>2, <1>3, <1>6 DEF AccountsInv
<1>8. Range1(old) \subseteq Range1(new)
  BY <1>1, <1>2 DEF Range1
<1>9. \A b \in Accounts : Range1(linked[b]) \subseteq Range1(linked'[b])
  BY <1>3, <1>8 DEF AccountsInv, old
<1>10. QED
  BY <1>7, <1>9

LEMMA FiledIsADigest ==
    ASSUME AccountsInv, NEW key \in Digests, NEW a \in Accounts \cup {NoAccount}
    PROVE  FiledUnder(key, a) \in Digests
<1>1. CASE key # NoKey \/ a = NoAccount
  BY <1>1 DEF FiledUnder, Digests
<1>2. CASE key = NoKey /\ a # NoAccount
  <2>1. linked[a] \in Seq(Keys)
    BY <1>2 DEF AccountsInv
  <2>2. linked[a] # <<>> => Head(linked[a]) \in Keys
    BY <2>1, HeadTailProperties
  <2>3. QED
    BY <1>2, <2>2 DEF FiledUnder, Primary, Digests
<1>3. QED
  BY <1>1, <1>2

LEMMA SendersKeepTheType ==
    ASSUME SubmissionsTypeOK, NEW s \in Senders,
           CountActive(s) \/ CountRecent(s) \/ SendRefused(s) \/ SendQueued(s)
             \/ \E key \in Digests, a \in Accounts \cup {NoAccount} : Send(s, key, a)
    PROVE  SendsInv'
<1>1. Off \in SendRecords
  BY DEF Off, SendRecords, Digests
<1>2. SendsInv /\ AccountsInv
  BY TypeInParts
<1>3. CASE sends' = [sends EXCEPT ![s] = Off]
  BY <1>1, <1>2, <1>3 DEF SendsInv
<1>4. ASSUME NEW place \in {"hour", "split"}, SendGoes(s, place)
      PROVE  SendsInv'
  BY <1>2, <1>4 DEF SendGoes, SendsInv, SendRecords
<1>5. ASSUME NEW key \in Digests, NEW a \in Accounts \cup {NoAccount}, Send(s, key, a)
      PROVE  SendsInv'
  <2>1. FiledUnder(key, a) \in Digests
    BY <1>2, FiledIsADigest
  <2>2. PICK r : sends' = [sends EXCEPT ![s] = r]
                 /\ r = [at |-> IF FiledUnder(key, a) = NoKey THEN "split" ELSE "active",
                         owner |-> FiledUnder(key, a), by |-> IF key = NoKey THEN a ELSE NoAccount]
    BY <1>5 DEF Send
  <2>3. r \in SendRecords
    BY <2>1, <2>2 DEF SendRecords
  <2>4. QED
    BY <1>2, <2>2, <2>3 DEF SendsInv
<1>6. QED
  BY <1>3, <1>4, <1>5 DEF CountActive, CountRecent, SendRefused, SendQueued

LEMMA QueueingKeepsTheType ==
    ASSUME JobsInv, QueuedInv, NEW owner \in Digests, NEW by \in Accounts \cup {NoAccount},
           NEW how \in {"sent", "rerun"}, Queues(owner, by, how)
    PROVE  /\ JobsInv' /\ QueuedInv' /\ queued + 1 \in JobIds
           /\ jobs' = [jobs EXCEPT ![queued + 1] =
                         [owner |-> owner, by |-> by, how |-> how, active |-> TRUE, recent |-> TRUE]]
<1>1. queued \in 0..MaxJobs /\ queued < MaxJobs
  BY DEF Queues, QueuedInv
<1>2. queued + 1 \in JobIds /\ queued + 1 \in 0..MaxJobs
  BY <1>1, SubmissionsAssumption DEF JobIds
<1>3. [owner |-> owner, by |-> by, how |-> how, active |-> TRUE, recent |-> TRUE] \in SentJobs
  BY DEF SentJobs
<1>4. /\ queued' = queued + 1
      /\ jobs' = [jobs EXCEPT ![queued + 1] =
                    [owner |-> owner, by |-> by, how |-> how, active |-> TRUE, recent |-> TRUE]]
  BY DEF Queues
<1>5. QED
  BY <1>2, <1>3, <1>4 DEF JobsInv, QueuedInv

\* A job that ends, is reopened or grows older changes in its own record only.
LEMMA ChangesAreSmall ==
    ASSUME JobsInv, NEW j \in JobIds, JobChanges(j) \/ JobAges(j)
    PROVE  \E r \in SentJobs :
             /\ jobs' = [jobs EXCEPT ![j] = r]
             /\ r.owner = jobs[j].owner /\ r.by = jobs[j].by
             /\ r.recent => jobs[j].recent
             /\ r.how = "sent" => jobs[j].how = "sent" /\ (r.active => jobs[j].active)
<1>0. jobs[j] \in SentJobs
  BY DEF JobsInv
<1>1. CASE JobAges(j)
  <2> DEFINE r == [jobs[j] EXCEPT !.recent = FALSE]
  <2>1. jobs' = [jobs EXCEPT ![j] = r]
    BY <1>1 DEF JobAges
  <2>2. /\ r \in SentJobs
        /\ r.owner = jobs[j].owner /\ r.by = jobs[j].by
        /\ r.recent = FALSE /\ r.how = jobs[j].how /\ r.active = jobs[j].active
    BY <1>0 DEF SentJobs
  <2>3. QED
    BY <2>1, <2>2
<1>2. CASE JobChanges(j)
  <2> DEFINE on == ~jobs[j].active
             word == IF jobs[j].active THEN jobs[j].how ELSE "reopened"
             r == [jobs[j] EXCEPT !.active = on, !.how = word]
  <2>1. jobs' = [jobs EXCEPT ![j] = r]
    BY <1>2 DEF JobChanges
  <2>2. on \in BOOLEAN /\ word \in {"none", "sent", "rerun", "reopened"}
    BY <1>0 DEF SentJobs
  <2>3. word = "sent" => jobs[j].how = "sent" /\ ~on
    OBVIOUS
  <2> HIDE DEF on, word
  <2>4. /\ r \in SentJobs
        /\ r.owner = jobs[j].owner /\ r.by = jobs[j].by
        /\ r.recent = jobs[j].recent /\ r.how = word /\ r.active = on
    BY <1>0, <2>2 DEF SentJobs
  <2>5. QED
    BY <2>1, <2>3, <2>4
<1>3. QED
  BY <1>1, <1>2

LEMMA JobsKeepTheType ==
    ASSUME JobsInv, QueuedInv, NEW j \in JobIds,
           JobChanges(j) \/ JobAges(j)
             \/ \E key \in Digests, a \in Accounts \cup {NoAccount} : Rerun(j, key, a)
    PROVE  JobsInv' /\ QueuedInv'
<1>1. CASE JobChanges(j) \/ JobAges(j)
  <2>1. JobsInv'
    BY <1>1, ChangesAreSmall DEF JobsInv
  <2>2. queued' = queued
    BY <1>1 DEF JobChanges, JobAges
  <2>3. QED
    BY <2>1, <2>2 DEF QueuedInv
<1>2. CASE \E key \in Digests, a \in Accounts \cup {NoAccount} : Rerun(j, key, a)
  <2>1. jobs[j].owner \in Digests /\ jobs[j].by \in Accounts \cup {NoAccount}
    BY DEF JobsInv, SentJobs
  <2>2. Queues(jobs[j].owner, jobs[j].by, "rerun")
    BY <1>2 DEF Rerun
  <2>3. QED
    BY <2>1, <2>2, QueueingKeepsTheType
<1>3. QED
  BY <1>1, <1>2

LEMMA UploadsKeepTheType ==
    ASSUME UploadsInv, UsedInv, UploadStep
    PROVE  UploadsInv' /\ UsedInv'
<1> USE SubmissionsAssumption DEF UploadsInv, UsedInv
<1>1. ASSUME NEW u \in Uploaders, NEW size \in 0..MaxSize, UploadStored(u, size)
      PROVE  UploadsInv' /\ UsedInv'
  <2>1. uploads[u] \in Keys
    BY <1>1 DEF UploadStored, Digests
  <2>2. QED
    BY <1>1, <2>1 DEF UploadStored, Digests
<1>2. ASSUME NEW u \in Uploaders, NEW size \in 0..MaxSize, NEW k \in Keys,
             UploadChecked(u, k, size)
      PROVE  UploadsInv' /\ UsedInv'
  BY <1>2 DEF UploadChecked, Digests
<1>3. ASSUME NEW k \in Keys, UploadAges(k)
      PROVE  UploadsInv' /\ UsedInv'
  BY <1>3 DEF UploadAges
<1>4. QED
  BY <1>1, <1>2, <1>3 DEF UploadStep

LEMMA SubmissionsTypeKept ==
    SubmissionsTypeOK /\ [SubmissionsNext]_submissionsVars => SubmissionsTypeOK'
<1> SUFFICES ASSUME SubmissionsTypeOK, [SubmissionsNext]_submissionsVars
             PROVE  /\ AccountsInv' /\ SendsInv' /\ JobsInv' /\ QueuedInv'
                    /\ UploadsInv' /\ UsedInv'
  BY TypeInParts DEF SubmissionsTypeOK, AccountsInv, SendsInv, SendRecords, JobsInv, QueuedInv,
     UploadsInv, UsedInv
<1>0. AccountsInv /\ SendsInv /\ JobsInv /\ QueuedInv /\ UploadsInv /\ UsedInv
  BY TypeInParts
<1> DEFINE SameAccounts == UNCHANGED <<known, linked>>
           SameUploads == UNCHANGED <<uploads, used>>
           SameJobs == UNCHANGED <<jobs, queued>>
<1>1. SameAccounts => AccountsInv'
  BY <1>0 DEF AccountsInv
<1>2. SameUploads => UploadsInv' /\ UsedInv'
  BY <1>0 DEF UploadsInv, UsedInv
<1>3. SameJobs => JobsInv' /\ QueuedInv'
  BY <1>0 DEF JobsInv, QueuedInv
<1>4. UNCHANGED sends => SendsInv'
  BY <1>0 DEF SendsInv
<1>5. CASE AccountStep
  <2>1. SameUploads /\ SameJobs /\ UNCHANGED sends
    BY <1>5 DEF AccountStep, SignIn, LinkKey
  <2>2. ASSUME NEW a \in Accounts, SignIn(a)
        PROVE  AccountsInv'
    BY <1>0, <2>2 DEF SignIn, AccountsInv
  <2>3. AccountsInv'
    BY <1>0, <1>5, <2>2, LinkingKeepsTheType DEF AccountStep
  <2>4. QED
    BY <1>2, <1>3, <1>4, <2>1, <2>3
<1>6. ASSUME NEW s \in Senders,
             \/ CountActive(s) \/ CountRecent(s) \/ SendRefused(s)
             \/ \E key \in Digests, a \in Accounts \cup {NoAccount} : Send(s, key, a)
      PROVE  SubmissionsTypeOK'
  <2>1. SameAccounts /\ SameUploads /\ SameJobs
    BY <1>6 DEF CountActive, CountRecent, SendRefused, Send
  <2>2. SendsInv'
    BY <1>6, SendersKeepTheType
  <2>3. QED
    BY <1>1, <1>2, <1>3, <2>1, <2>2 DEF SubmissionsTypeOK, AccountsInv, SendsInv, SendRecords,
       JobsInv, QueuedInv, UploadsInv, UsedInv
<1>7. ASSUME NEW s \in Senders, SendQueued(s)
      PROVE  SubmissionsTypeOK'
  <2>1. SameAccounts /\ SameUploads
    BY <1>7 DEF SendQueued
  <2>2. SendsInv'
    BY <1>7, SendersKeepTheType
  <2>3. sends[s].owner \in Digests /\ sends[s].by \in Accounts \cup {NoAccount}
    BY <1>0 DEF SendsInv, SendRecords
  <2>4. JobsInv' /\ QueuedInv'
    BY <1>0, <1>7, <2>3, QueueingKeepsTheType DEF SendQueued
  <2>5. QED
    BY <1>1, <1>2, <2>1, <2>2, <2>4 DEF SubmissionsTypeOK, AccountsInv, SendsInv, SendRecords,
       JobsInv, QueuedInv, UploadsInv, UsedInv
<1>8. ASSUME NEW j \in JobIds,
             JobChanges(j) \/ JobAges(j)
               \/ \E key \in Digests, a \in Accounts \cup {NoAccount} : Rerun(j, key, a)
      PROVE  SubmissionsTypeOK'
  <2>1. SameAccounts /\ SameUploads /\ UNCHANGED sends
    BY <1>8 DEF JobChanges, JobAges, Rerun
  <2>2. JobsInv' /\ QueuedInv'
    BY <1>0, <1>8, JobsKeepTheType
  <2>3. QED
    BY <1>1, <1>2, <1>4, <2>1, <2>2 DEF SubmissionsTypeOK, AccountsInv, SendsInv, SendRecords,
       JobsInv, QueuedInv, UploadsInv, UsedInv
<1>9. CASE UploadStep
  <2>1. SameAccounts /\ SameJobs /\ UNCHANGED sends
    BY <1>9 DEF UploadStep, UploadStored, UploadChecked, UploadAges
  <2>2. QED
    BY <1>0, <1>1, <1>3, <1>4, <1>9, <2>1, UploadsKeepTheType
<1>10. CASE UNCHANGED submissionsVars
  BY <1>1, <1>2, <1>3, <1>4, <1>10 DEF submissionsVars
<1>11. SubmissionsTypeOK' => /\ AccountsInv' /\ SendsInv' /\ JobsInv' /\ QueuedInv'
                            /\ UploadsInv' /\ UsedInv'
  BY DEF SubmissionsTypeOK, AccountsInv, SendsInv, SendRecords, JobsInv, QueuedInv, UploadsInv,
     UsedInv
<1>12. QED
  BY <1>5, <1>6, <1>7, <1>8, <1>9, <1>10, <1>11 DEF SubmissionsNext, SendStep

\* Accounts, jobs, submissions and uploads keep their types, and no key is linked
\* to one account twice (accountService.py link).
THEOREM SubmissionsTypeCorrect == SubmissionsSpec => []SubmissionsTypeOK
BY SubmissionsAtFirst, SubmissionsTypeKept, PTL DEF SubmissionsSpec

-----------------------------------------------------------------------------
(* Reach.                                                                  *)

\* A job, or a submission on its way to be one, that came from an account without
\* a key of the browser's is filed under a key of that account, or under nobody.
InReach(r) == r.by # NoAccount => r.owner \in {NoKey} \cup Range1(linked[r.by])
ReachInv ==
    /\ \A j \in JobIds : InReach(jobs[j])
    /\ \A s \in Senders : InReach(sends[s])

LEMMA PrimaryIsLinked ==
    ASSUME AccountsInv, NEW a \in Accounts
    PROVE  Primary(a) \in {NoKey} \cup Range1(linked[a])
<1>1. CASE linked[a] = <<>>
  BY <1>1 DEF Primary
<1>2. CASE linked[a] # <<>>
  <2>1. linked[a] \in Seq(Keys)
    BY DEF AccountsInv
  <2>2. Head(linked[a]) = linked[a][1] /\ 1 \in DOMAIN linked[a]
    BY <1>2, <2>1, LenProperties, EmptySeq
  <2>3. QED
    BY <1>2, <2>2 DEF Primary, Range1
<1>3. QED
  BY <1>1, <1>2

\* A job sent from a signed-in browser without a key stays within the reach of its
\* account, whatever keys are linked later and whoever signs in again (deps.py
\* submitter_or_session, accountService.py upsert, link).
THEOREM SentWorkIsInReachCorrect == SubmissionsSpec => []SentWorkIsInReach
<1>1. SubmissionsInit => ReachInv
  BY DEF SubmissionsInit, ReachInv, InReach, Off
<1>2. SubmissionsTypeOK /\ ReachInv /\ [SubmissionsNext]_submissionsVars => ReachInv'
  <2> SUFFICES ASSUME SubmissionsTypeOK, ReachInv, [SubmissionsNext]_submissionsVars
               PROVE  ReachInv'
    OBVIOUS
  <2>0. AccountsInv /\ SendsInv /\ JobsInv /\ QueuedInv
    BY TypeInParts
  <2>1. CASE UNCHANGED <<linked, jobs, sends>>
    BY <2>1 DEF ReachInv, InReach
  <2>2. ASSUME NEW a \in Accounts, NEW k \in Keys, LinkKey(a, k)
        PROVE  ReachInv'
    <3>1. \A b \in Accounts : Range1(linked[b]) \subseteq Range1(linked'[b])
      BY <2>0, <2>2, LinkingKeepsTheType
    <3>2. \A r : r.by \in Accounts \cup {NoAccount} /\ InReach(r) =>
             (r.by # NoAccount => r.owner \in {NoKey} \cup Range1(linked'[r.by]))
      BY <3>1 DEF InReach
    <3>3. \A j \in JobIds : jobs[j].by \in Accounts \cup {NoAccount}
      BY <2>0 DEF JobsInv, SentJobs
    <3>4. \A s \in Senders : sends[s].by \in Accounts \cup {NoAccount}
      BY <2>0 DEF SendsInv, SendRecords
    <3>5. jobs' = jobs /\ sends' = sends
      BY <2>2 DEF LinkKey
    <3>6. QED
      BY <3>2, <3>3, <3>4, <3>5 DEF ReachInv, InReach
  <2>3. ASSUME NEW s \in Senders, SendRefused(s) \/ CountActive(s) \/ CountRecent(s)
        PROVE  ReachInv'
    <3>1. /\ \A t \in Senders : sends'[t] = Off
                                  \/ (sends'[t].by = sends[t].by /\ sends'[t].owner = sends[t].owner)
          /\ jobs' = jobs /\ linked' = linked
      BY <2>0, <2>3 DEF SendRefused, CountActive, CountRecent, SendGoes, SendsInv, SendRecords
    <3>2. Off.by = NoAccount
      BY DEF Off
    <3>3. QED
      BY <3>1, <3>2 DEF ReachInv, InReach
  <2>4. ASSUME NEW s \in Senders, NEW key \in Digests, NEW a \in Accounts \cup {NoAccount},
               Send(s, key, a)
        PROVE  ReachInv'
    <3> DEFINE r == [at |-> IF FiledUnder(key, a) = NoKey THEN "split" ELSE "active",
                     owner |-> FiledUnder(key, a), by |-> IF key = NoKey THEN a ELSE NoAccount]
    <3>1. /\ sends' = [sends EXCEPT ![s] = r]
          /\ r.owner = FiledUnder(key, a)
          /\ r.by = IF key = NoKey THEN a ELSE NoAccount
      BY <2>4 DEF Send
    <3> HIDE DEF r
    <3>2. InReach(r)
      <4>1. CASE key # NoKey \/ a = NoAccount
        BY <3>1, <4>1 DEF InReach
      <4>2. CASE key = NoKey /\ a # NoAccount
        <5>1. r.by = a /\ r.owner = Primary(a) /\ a \in Accounts
          BY <3>1, <4>2 DEF FiledUnder
        <5>2. QED
          BY <2>0, <5>1, PrimaryIsLinked DEF InReach
      <4>3. QED
        BY <4>1, <4>2
    <3>3. jobs' = jobs /\ linked' = linked /\ \A t \in Senders : sends'[t] \in {sends[t], r}
      BY <2>0, <2>4, <3>1 DEF Send, SendsInv
    <3>4. QED
      BY <3>2, <3>3 DEF ReachInv, InReach
  <2>5. ASSUME NEW s \in Senders, SendQueued(s)
        PROVE  ReachInv'
    <3>1. sends[s].owner \in Digests /\ sends[s].by \in Accounts \cup {NoAccount}
      BY <2>0 DEF SendsInv, SendRecords
    <3>2. jobs' = [jobs EXCEPT ![queued + 1] = [owner |-> sends[s].owner, by |-> sends[s].by,
                                   how |-> "sent", active |-> TRUE, recent |-> TRUE]]
      BY <2>0, <2>5, <3>1, QueueingKeepsTheType DEF SendQueued
    <3>3. \A j \in JobIds : jobs'[j] = jobs[j]
                            \/ (jobs'[j].by = sends[s].by /\ jobs'[j].owner = sends[s].owner)
      BY <2>0, <3>2 DEF JobsInv
    <3>4. linked' = linked /\ \A t \in Senders : sends'[t] \in {sends[t], Off}
      BY <2>0, <2>5 DEF SendQueued, SendsInv
    <3>5. Off.by = NoAccount
      BY DEF Off
    <3>6. QED
      BY <3>3, <3>4, <3>5 DEF ReachInv, InReach
  <2>6. ASSUME NEW j \in JobIds, NEW key \in Digests, NEW a \in Accounts \cup {NoAccount},
               Rerun(j, key, a)
        PROVE  ReachInv'
    <3>1. jobs[j].owner \in Digests /\ jobs[j].by \in Accounts \cup {NoAccount}
      BY <2>0 DEF JobsInv, SentJobs
    <3>2. jobs' = [jobs EXCEPT ![queued + 1] = [owner |-> jobs[j].owner, by |-> jobs[j].by,
                                   how |-> "rerun", active |-> TRUE, recent |-> TRUE]]
      BY <2>0, <2>6, <3>1, QueueingKeepsTheType DEF Rerun
    <3>3. \A i \in JobIds : jobs'[i] = jobs[i]
                            \/ (jobs'[i].by = jobs[j].by /\ jobs'[i].owner = jobs[j].owner)
      BY <2>0, <3>2 DEF JobsInv
    <3>4. linked' = linked /\ sends' = sends
      BY <2>6 DEF Rerun
    <3>5. QED
      BY <3>3, <3>4 DEF ReachInv, InReach
  <2>7. ASSUME NEW j \in JobIds, JobChanges(j) \/ JobAges(j)
        PROVE  ReachInv'
    <3>1. \A i \in JobIds : jobs'[i].by = jobs[i].by /\ jobs'[i].owner = jobs[i].owner
      BY <2>0, <2>7, ChangesAreSmall DEF JobsInv
    <3>2. linked' = linked /\ sends' = sends
      BY <2>7 DEF JobChanges, JobAges
    <3>3. QED
      BY <3>1, <3>2 DEF ReachInv, InReach
  <2>8. ASSUME NEW a \in Accounts, SignIn(a)
        PROVE  UNCHANGED <<linked, jobs, sends>>
    BY <2>8 DEF SignIn
  <2>9. UploadStep \/ UNCHANGED submissionsVars => UNCHANGED <<linked, jobs, sends>>
    BY DEF UploadStep, UploadStored, UploadChecked, UploadAges, submissionsVars
  <2>10. QED
    BY <2>1, <2>2, <2>3, <2>4, <2>5, <2>6, <2>7, <2>8, <2>9 DEF SubmissionsNext, AccountStep, SendStep
<1>3. SubmissionsTypeOK /\ ReachInv => SentWorkIsInReach
  <2> SUFFICES ASSUME SubmissionsTypeOK, ReachInv, NEW j \in JobIds, jobs[j].by # NoAccount
               PROVE  jobs[j].owner \in {NoKey} \cup Scope(NoKey, jobs[j].by)
    BY DEF SentWorkIsInReach
  <2>1. QED
    BY DEF ReachInv, InReach, Scope
<1>4. QED
  BY <1>1, <1>2, <1>3, SubmissionsTypeCorrect, PTL DEF SubmissionsSpec

-----------------------------------------------------------------------------
(* Quotas.  What is stored and what is on its way are counted together: a
   submission that passed a count adds at most one job.                    *)

Counting(o) == {s \in Senders : sends[s].owner = o /\ sends[s].at \in {"hour", "split"}}
Splitting(o) == {s \in Senders : sends[s].owner = o /\ sends[s].at = "split"}
QuotaInv ==
    \A o \in Keys :
      /\ Cardinality(ActiveSent(o)) + Cardinality(Counting(o))
           <= ActiveJobs - 1 + Cardinality(Senders)
      /\ Cardinality(RecentSent(o)) + Cardinality(Splitting(o))
           <= JobsPerHour - 1 + Cardinality(Senders)

LEMMA JobSetsAreFinite == ASSUME NEW T \in SUBSET JobIds
                          PROVE  IsFiniteSet(T) /\ Cardinality(T) \in Nat
<1>1. IsFiniteSet(JobIds)
  BY FS_Interval, SubmissionsAssumption DEF JobIds
<1>2. QED
  BY <1>1, FS_Subset, FS_CardinalityType

LEMMA SenderSetsAreFinite == ASSUME NEW T \in SUBSET Senders
                             PROVE  /\ IsFiniteSet(T) /\ Cardinality(T) \in Nat
                                    /\ Cardinality(T) <= Cardinality(Senders)
                                    /\ Cardinality(Senders) \in Nat
BY FS_Subset, FS_CardinalityType, SubmissionsAssumption

\* Nothing comes to a set of jobs and to a set of submissions.
LEMMA FewerIsFewer ==
    ASSUME NEW S \in SUBSET JobIds, NEW S1 \in SUBSET S,
           NEW T \in SUBSET Senders, NEW T1 \in SUBSET T
    PROVE  Cardinality(S1) + Cardinality(T1) <= Cardinality(S) + Cardinality(T)
<1>1. /\ IsFiniteSet(S) /\ Cardinality(S) \in Nat /\ Cardinality(S1) \in Nat
      /\ IsFiniteSet(T) /\ Cardinality(T) \in Nat /\ Cardinality(T1) \in Nat
  BY JobSetsAreFinite, SenderSetsAreFinite
<1>2. Cardinality(S1) <= Cardinality(S) /\ Cardinality(T1) <= Cardinality(T)
  BY <1>1, FS_Subset
<1>3. QED
  BY <1>1, <1>2

\* A submission becomes a job.
LEMMA OneForOne ==
    ASSUME NEW S \in SUBSET JobIds, NEW j \in JobIds, NEW S1 \in SUBSET (S \cup {j}),
           NEW T \in SUBSET Senders, NEW s \in T
    PROVE  Cardinality(S1) + Cardinality(T \ {s}) <= Cardinality(S) + Cardinality(T)
<1>1. /\ IsFiniteSet(S) /\ Cardinality(S) \in Nat /\ Cardinality(S1) \in Nat
      /\ IsFiniteSet(T) /\ Cardinality(T) \in Nat
  BY JobSetsAreFinite, SenderSetsAreFinite
<1>2. IsFiniteSet(S \cup {j}) /\ Cardinality(S \cup {j}) <= Cardinality(S) + 1
  <2>1. IsFiniteSet(S \cup {j})
        /\ Cardinality(S \cup {j}) = IF j \in S THEN Cardinality(S) ELSE Cardinality(S) + 1
    BY <1>1, FS_AddElement
  <2>2. QED
    BY <1>1, <2>1
<1>3. Cardinality(S \cup {j}) \in Nat /\ Cardinality(S1) <= Cardinality(S \cup {j})
  BY <1>2, FS_Subset, FS_CardinalityType
<1>4. Cardinality(T \ {s}) = Cardinality(T) - 1
  BY <1>1, FS_RemoveElement
<1>5. QED
  BY <1>1, <1>2, <1>3, <1>4

\* A count that passed leaves room for this submission and for every other.
LEMMA PassedHasRoom ==
    ASSUME NEW S \in SUBSET JobIds, NEW S1 \in SUBSET S, NEW T \in SUBSET Senders,
           NEW limit \in Nat, Cardinality(S) < limit
    PROVE  Cardinality(S1) + Cardinality(T) <= limit - 1 + Cardinality(Senders)
<1>1. /\ IsFiniteSet(S) /\ Cardinality(S) \in Nat /\ Cardinality(S1) \in Nat
      /\ Cardinality(T) \in Nat /\ Cardinality(T) <= Cardinality(Senders)
      /\ Cardinality(Senders) \in Nat
  BY JobSetsAreFinite, SenderSetsAreFinite
<1>2. Cardinality(S1) <= Cardinality(S)
  BY <1>1, FS_Subset
<1>3. QED
  BY <1>1, <1>2

LEMMA SetsAreSets ==
    ASSUME NEW o
    PROVE  /\ ActiveSent(o) \in SUBSET JobIds /\ RecentSent(o) \in SUBSET JobIds
           /\ ActiveSent(o) \in SUBSET ActiveOf(o) /\ RecentSent(o) \in SUBSET RecentOf(o)
           /\ ActiveOf(o) \in SUBSET JobIds /\ RecentOf(o) \in SUBSET JobIds
           /\ Counting(o) \in SUBSET Senders /\ Splitting(o) \in SUBSET Senders
           /\ ActiveSent(o)' \in SUBSET JobIds /\ RecentSent(o)' \in SUBSET JobIds
           /\ Counting(o)' \in SUBSET Senders /\ Splitting(o)' \in SUBSET Senders
BY DEF ActiveSent, RecentSent, ActiveOf, RecentOf, Counting, Splitting

LEMMA QuotaAtFirst == SubmissionsInit => QuotaInv
<1> SUFFICES ASSUME SubmissionsInit, NEW o \in Keys
             PROVE  /\ Cardinality(ActiveSent(o)) + Cardinality(Counting(o))
                         <= ActiveJobs - 1 + Cardinality(Senders)
                    /\ Cardinality(RecentSent(o)) + Cardinality(Splitting(o))
                         <= JobsPerHour - 1 + Cardinality(Senders)
  BY DEF QuotaInv
<1>1. /\ ActiveSent(o) = {} /\ RecentSent(o) = {}
      /\ Counting(o) = {} /\ Splitting(o) = {}
  BY DEF SubmissionsInit, ActiveSent, RecentSent, ActiveOf, RecentOf, Counting, Splitting, Off
<1>2. Cardinality(Senders) \in Nat
  BY FS_CardinalityType, SubmissionsAssumption
<1>3. QED
  BY <1>1, <1>2, FS_EmptySet, SubmissionsAssumption

\* What one step does to both counts of one sender.
LEMMA QuotaOfSender ==
    ASSUME SubmissionsTypeOK, QuotaInv, NEW s \in Senders, NEW o \in Keys,
           \/ CountActive(s) \/ CountRecent(s) \/ SendRefused(s) \/ SendQueued(s)
           \/ \E key \in Digests, a \in Accounts \cup {NoAccount} : Send(s, key, a)
    PROVE  /\ Cardinality(ActiveSent(o)') + Cardinality(Counting(o)')
                <= ActiveJobs - 1 + Cardinality(Senders)
           /\ Cardinality(RecentSent(o)') + Cardinality(Splitting(o)')
                <= JobsPerHour - 1 + Cardinality(Senders)
<1>0. SendsInv /\ JobsInv /\ QueuedInv /\ AccountsInv
  BY TypeInParts
<1>1. /\ Cardinality(ActiveSent(o)) + Cardinality(Counting(o))
            <= ActiveJobs - 1 + Cardinality(Senders)
      /\ Cardinality(RecentSent(o)) + Cardinality(Splitting(o))
            <= JobsPerHour - 1 + Cardinality(Senders)
  BY DEF QuotaInv
<1>2. /\ Cardinality(ActiveSent(o)) \in Nat /\ Cardinality(Counting(o)) \in Nat
      /\ Cardinality(RecentSent(o)) \in Nat /\ Cardinality(Splitting(o)) \in Nat
      /\ Cardinality(ActiveSent(o)') \in Nat /\ Cardinality(Counting(o)') \in Nat
      /\ Cardinality(RecentSent(o)') \in Nat /\ Cardinality(Splitting(o)') \in Nat
      /\ Cardinality(Senders) \in Nat
  BY SetsAreSets, JobSetsAreFinite, SenderSetsAreFinite
<1>3. UNCHANGED jobs => ActiveSent(o)' = ActiveSent(o) /\ RecentSent(o)' = RecentSent(o)
  BY DEF ActiveSent, RecentSent, ActiveOf, RecentOf
<1>4. Counting(o)' \subseteq Counting(o) /\ UNCHANGED jobs =>
        Cardinality(ActiveSent(o)') + Cardinality(Counting(o)')
          <= ActiveJobs - 1 + Cardinality(Senders)
  <2> SUFFICES ASSUME Counting(o)' \subseteq Counting(o), UNCHANGED jobs
               PROVE  Cardinality(ActiveSent(o)') + Cardinality(Counting(o)')
                        <= ActiveJobs - 1 + Cardinality(Senders)
    OBVIOUS
  <2>1. Cardinality(ActiveSent(o)') + Cardinality(Counting(o)')
          <= Cardinality(ActiveSent(o)) + Cardinality(Counting(o))
    BY <1>3, SetsAreSets, FewerIsFewer
  <2>2. QED
    BY <1>1, <1>2, <2>1, SubmissionsAssumption
<1>5. Splitting(o)' \subseteq Splitting(o) /\ UNCHANGED jobs =>
        Cardinality(RecentSent(o)') + Cardinality(Splitting(o)')
          <= JobsPerHour - 1 + Cardinality(Senders)
  <2> SUFFICES ASSUME Splitting(o)' \subseteq Splitting(o), UNCHANGED jobs
               PROVE  Cardinality(RecentSent(o)') + Cardinality(Splitting(o)')
                        <= JobsPerHour - 1 + Cardinality(Senders)
    OBVIOUS
  <2>1. Cardinality(RecentSent(o)') + Cardinality(Splitting(o)')
          <= Cardinality(RecentSent(o)) + Cardinality(Splitting(o))
    BY <1>3, SetsAreSets, FewerIsFewer
  <2>2. QED
    BY <1>1, <1>2, <2>1, SubmissionsAssumption
<1>6. CASE sends' = [sends EXCEPT ![s] = Off] /\ UNCHANGED jobs
  <2>1. Off.at = "off"
    BY DEF Off
  <2>2. Counting(o)' \subseteq Counting(o) /\ Splitting(o)' \subseteq Splitting(o)
    BY <1>0, <1>6, <2>1 DEF Counting, Splitting, SendsInv
  <2>3. QED
    BY <1>4, <1>5, <1>6, <2>2
<1>7. ASSUME NEW key \in Digests, NEW a \in Accounts \cup {NoAccount}, Send(s, key, a)
      PROVE  Counting(o)' \subseteq Counting(o) /\ Splitting(o)' \subseteq Splitting(o)
             /\ UNCHANGED jobs
  <2> DEFINE r == [at |-> IF FiledUnder(key, a) = NoKey THEN "split" ELSE "active",
                   owner |-> FiledUnder(key, a), by |-> IF key = NoKey THEN a ELSE NoAccount]
  <2>1. sends' = [sends EXCEPT ![s] = r] /\ jobs' = jobs
    BY <1>7 DEF Send
  <2>2. r.owner = o => r.at = "active"
    BY SubmissionsAssumption
  <2> HIDE DEF r
  <2>3. QED
    BY <1>0, <2>1, <2>2 DEF Counting, Splitting, SendsInv
<1>8. CASE CountActive(s) /\ SendGoes(s, "hour") /\ sends[s].owner = o
  <2>1. Cardinality(ActiveOf(o)) \in Nat /\ ~(Cardinality(ActiveOf(o)) >= ActiveJobs)
    <3>1. Cardinality(ActiveOf(o)) \in Nat
      BY SetsAreSets, JobSetsAreFinite
    <3>2. sends[s].at = "active" /\ sends' = [sends EXCEPT ![s] = [sends[s] EXCEPT !.at = "hour"]]
      BY <1>8 DEF CountActive, SendGoes
    <3>3. sends'[s].at = "hour"
      BY <1>0, <3>2 DEF SendsInv, SendRecords
    <3>4. sends' # [sends EXCEPT ![s] = Off]
      BY <1>0, <3>3 DEF SendsInv, Off
    <3>5. QED
      BY <1>8, <3>1, <3>4 DEF CountActive
  <2>2. Cardinality(ActiveOf(o)) < ActiveJobs
    BY <2>1, SubmissionsAssumption
  <2>3. UNCHANGED jobs
    BY <1>8 DEF CountActive
  <2>4. Cardinality(ActiveSent(o)') + Cardinality(Counting(o)')
          <= ActiveJobs - 1 + Cardinality(Senders)
    BY <1>3, <2>2, <2>3, SetsAreSets, PassedHasRoom, SubmissionsAssumption
  <2>5. Splitting(o)' \subseteq Splitting(o)
    BY <1>0, <1>8 DEF SendGoes, Splitting, SendsInv, SendRecords
  <2>6. QED
    BY <1>5, <2>3, <2>4, <2>5
<1>9. CASE CountActive(s) /\ SendGoes(s, "hour") /\ sends[s].owner # o
  <2>1. Counting(o)' \subseteq Counting(o) /\ Splitting(o)' \subseteq Splitting(o)
    BY <1>0, <1>9 DEF SendGoes, Counting, Splitting, SendsInv, SendRecords
  <2>2. UNCHANGED jobs
    BY <1>9 DEF CountActive
  <2>3. QED
    BY <1>4, <1>5, <2>1, <2>2
<1>10. CASE CountRecent(s) /\ SendGoes(s, "split")
  <2>1. UNCHANGED jobs /\ sends[s].at = "hour"
    BY <1>10 DEF CountRecent
  <2>2. Counting(o)' \subseteq Counting(o)
    BY <1>0, <1>10, <2>1 DEF SendGoes, Counting, SendsInv, SendRecords
  <2>3. CASE sends[s].owner # o
    <3>1. Splitting(o)' \subseteq Splitting(o)
      BY <1>0, <1>10, <2>3 DEF SendGoes, Splitting, SendsInv, SendRecords
    <3>2. QED
      BY <1>4, <1>5, <2>1, <2>2, <3>1
  <2>4. CASE sends[s].owner = o
    <3>1. Cardinality(RecentOf(o)) \in Nat
      BY SetsAreSets, JobSetsAreFinite
    <3>2. sends' = [sends EXCEPT ![s] = [sends[s] EXCEPT !.at = "split"]]
      BY <1>10 DEF SendGoes
    <3>3. sends'[s].at = "split"
      BY <1>0, <3>2 DEF SendsInv, SendRecords
    <3>4. sends' # [sends EXCEPT ![s] = Off]
      BY <1>0, <3>3 DEF SendsInv, Off
    <3>5. ~(Cardinality(RecentOf(o)) >= JobsPerHour)
      BY <1>10, <2>4, <3>4 DEF CountRecent
    <3>6. Cardinality(RecentOf(o)) < JobsPerHour
      BY <3>1, <3>5, SubmissionsAssumption
    <3>7. Cardinality(RecentSent(o)') + Cardinality(Splitting(o)')
            <= JobsPerHour - 1 + Cardinality(Senders)
      BY <1>3, <2>1, <3>6, SetsAreSets, PassedHasRoom, SubmissionsAssumption
    <3>8. QED
      BY <1>4, <2>1, <2>2, <3>7
  <2>5. QED
    BY <2>3, <2>4
<1>11. CASE SendQueued(s)
  <2>1. sends[s].owner \in Digests /\ sends[s].by \in Accounts \cup {NoAccount}
    BY <1>0 DEF SendsInv, SendRecords
  <2>2. /\ queued + 1 \in JobIds
        /\ jobs' = [jobs EXCEPT ![queued + 1] = [owner |-> sends[s].owner, by |-> sends[s].by,
                                   how |-> "sent", active |-> TRUE, recent |-> TRUE]]
    BY <1>0, <1>11, <2>1, QueueingKeepsTheType DEF SendQueued
  <2>3. sends' = [sends EXCEPT ![s] = Off] /\ sends[s].at = "split" /\ Off.at = "off"
    BY <1>11 DEF SendQueued, Off
  <2>4. CASE sends[s].owner = o
    <3>1. /\ ActiveSent(o)' \subseteq ActiveSent(o) \cup {queued + 1}
          /\ RecentSent(o)' \subseteq RecentSent(o) \cup {queued + 1}
      BY <1>0, <2>2 DEF ActiveSent, RecentSent, ActiveOf, RecentOf, JobsInv
    <3>2. /\ s \in Counting(o) /\ Counting(o)' = Counting(o) \ {s}
          /\ s \in Splitting(o) /\ Splitting(o)' = Splitting(o) \ {s}
      BY <1>0, <2>3, <2>4 DEF Counting, Splitting, SendsInv
    <3>3. /\ Cardinality(ActiveSent(o)') + Cardinality(Counting(o) \ {s})
                <= Cardinality(ActiveSent(o)) + Cardinality(Counting(o))
          /\ Cardinality(RecentSent(o)') + Cardinality(Splitting(o) \ {s})
                <= Cardinality(RecentSent(o)) + Cardinality(Splitting(o))
      BY <2>2, <3>1, <3>2, SetsAreSets, OneForOne
    <3>4. QED
      BY <1>1, <1>2, <3>2, <3>3, SubmissionsAssumption
  <2>5. CASE sends[s].owner # o
    <3>1. ActiveSent(o)' \subseteq ActiveSent(o) /\ RecentSent(o)' \subseteq RecentSent(o)
      BY <1>0, <2>2, <2>5 DEF ActiveSent, RecentSent, ActiveOf, RecentOf, JobsInv
    <3>2. Counting(o)' \subseteq Counting(o) /\ Splitting(o)' \subseteq Splitting(o)
      BY <1>0, <2>3 DEF Counting, Splitting, SendsInv
    <3>3. /\ Cardinality(ActiveSent(o)') + Cardinality(Counting(o)')
                <= Cardinality(ActiveSent(o)) + Cardinality(Counting(o))
          /\ Cardinality(RecentSent(o)') + Cardinality(Splitting(o)')
                <= Cardinality(RecentSent(o)) + Cardinality(Splitting(o))
      BY <3>1, <3>2, SetsAreSets, FewerIsFewer
    <3>4. QED
      BY <1>1, <1>2, <3>3, SubmissionsAssumption
  <2>6. QED
    BY <2>4, <2>5
<1>12. CASE \E key \in Digests, a \in Accounts \cup {NoAccount} : Send(s, key, a)
  BY <1>4, <1>5, <1>7, <1>12
<1>13. QED
  <2>1. CASE CountActive(s)
    BY <1>6, <1>8, <1>9, <2>1 DEF CountActive
  <2>2. CASE CountRecent(s)
    BY <1>6, <1>10, <2>2 DEF CountRecent
  <2>3. CASE SendRefused(s)
    BY <1>6, <2>3 DEF SendRefused
  <2>4. QED
    BY <1>11, <1>12, <2>1, <2>2, <2>3

\* A job that ends, ages, is reopened or repeated adds nothing to what was sent.
LEMMA SentOnlyShrinks ==
    ASSUME SubmissionsTypeOK, NEW o \in Keys, NEW j \in JobIds,
           JobChanges(j) \/ JobAges(j)
             \/ \E key \in Digests, a \in Accounts \cup {NoAccount} : Rerun(j, key, a)
    PROVE  /\ ActiveSent(o)' \subseteq ActiveSent(o) /\ RecentSent(o)' \subseteq RecentSent(o)
           /\ UNCHANGED sends
<1>0. JobsInv /\ QueuedInv
  BY TypeInParts
<1> USE DEF ActiveSent, RecentSent, ActiveOf, RecentOf
<1>1. CASE JobChanges(j) \/ JobAges(j)
  <2>1. PICK r \in SentJobs :
          /\ jobs' = [jobs EXCEPT ![j] = r]
          /\ r.owner = jobs[j].owner
          /\ r.recent => jobs[j].recent
          /\ r.how = "sent" => jobs[j].how = "sent" /\ (r.active => jobs[j].active)
    BY <1>0, <1>1, ChangesAreSmall
  <2>2. sends' = sends
    BY <1>1 DEF JobChanges, JobAges
  <2>3. QED
    BY <1>0, <2>1, <2>2 DEF JobsInv
<1>2. CASE \E key \in Digests, a \in Accounts \cup {NoAccount} : Rerun(j, key, a)
  <2>1. jobs[j].owner \in Digests /\ jobs[j].by \in Accounts \cup {NoAccount}
    BY <1>0 DEF JobsInv, SentJobs
  <2>2. Queues(jobs[j].owner, jobs[j].by, "rerun") /\ sends' = sends
    BY <1>2 DEF Rerun
  <2>3. jobs' = [jobs EXCEPT ![queued + 1] = [owner |-> jobs[j].owner, by |-> jobs[j].by,
                                 how |-> "rerun", active |-> TRUE, recent |-> TRUE]]
    BY <1>0, <2>1, <2>2, QueueingKeepsTheType
  <2>4. QED
    BY <1>0, <2>2, <2>3 DEF JobsInv
<1>3. QED
  BY <1>1, <1>2

LEMMA QuotaKept ==
    SubmissionsTypeOK /\ QuotaInv /\ [SubmissionsNext]_submissionsVars => QuotaInv'
<1> SUFFICES ASSUME SubmissionsTypeOK, QuotaInv, [SubmissionsNext]_submissionsVars, NEW o \in Keys
             PROVE  /\ Cardinality(ActiveSent(o)') + Cardinality(Counting(o)')
                         <= ActiveJobs - 1 + Cardinality(Senders)
                    /\ Cardinality(RecentSent(o)') + Cardinality(Splitting(o)')
                         <= JobsPerHour - 1 + Cardinality(Senders)
  BY DEF QuotaInv
<1>1. /\ Cardinality(ActiveSent(o)) + Cardinality(Counting(o))
            <= ActiveJobs - 1 + Cardinality(Senders)
      /\ Cardinality(RecentSent(o)) + Cardinality(Splitting(o))
            <= JobsPerHour - 1 + Cardinality(Senders)
  BY DEF QuotaInv
<1>2. CASE UNCHANGED <<jobs, sends>>
  BY <1>1, <1>2 DEF ActiveSent, RecentSent, ActiveOf, RecentOf, Counting, Splitting
<1>3. ASSUME NEW j \in JobIds,
             JobChanges(j) \/ JobAges(j)
               \/ \E key \in Digests, a \in Accounts \cup {NoAccount} : Rerun(j, key, a)
      PROVE  /\ Cardinality(ActiveSent(o)') + Cardinality(Counting(o)')
                  <= ActiveJobs - 1 + Cardinality(Senders)
             /\ Cardinality(RecentSent(o)') + Cardinality(Splitting(o)')
                  <= JobsPerHour - 1 + Cardinality(Senders)
  <2>1. /\ ActiveSent(o)' \subseteq ActiveSent(o) /\ RecentSent(o)' \subseteq RecentSent(o)
        /\ Counting(o)' = Counting(o) /\ Splitting(o)' = Splitting(o)
    BY <1>3, SentOnlyShrinks DEF Counting, Splitting
  <2>2. /\ Cardinality(ActiveSent(o)') + Cardinality(Counting(o)')
              <= Cardinality(ActiveSent(o)) + Cardinality(Counting(o))
        /\ Cardinality(RecentSent(o)') + Cardinality(Splitting(o)')
              <= Cardinality(RecentSent(o)) + Cardinality(Splitting(o))
    BY <2>1, SetsAreSets, FewerIsFewer
  <2>3. /\ Cardinality(ActiveSent(o)) \in Nat /\ Cardinality(Counting(o)) \in Nat
        /\ Cardinality(RecentSent(o)) \in Nat /\ Cardinality(Splitting(o)) \in Nat
        /\ Cardinality(ActiveSent(o)') \in Nat /\ Cardinality(Counting(o)') \in Nat
        /\ Cardinality(RecentSent(o)') \in Nat /\ Cardinality(Splitting(o)') \in Nat
        /\ Cardinality(Senders) \in Nat
    BY SetsAreSets, JobSetsAreFinite, SenderSetsAreFinite
  <2>4. QED
    BY <1>1, <2>2, <2>3, SubmissionsAssumption
<1>4. AccountStep \/ UploadStep \/ UNCHANGED submissionsVars => UNCHANGED <<jobs, sends>>
  BY DEF AccountStep, SignIn, LinkKey, UploadStep, UploadStored, UploadChecked, UploadAges,
     submissionsVars
<1>5. QED
  BY <1>2, <1>3, <1>4, QuotaOfSender DEF SubmissionsNext, SendStep

\* However many submissions of one sender overlap, its unfinished jobs and its jobs
\* of the last hour go over their quota by less than the number of submissions
\* handled at once (quota.py check_new_job).
THEOREM JobQuotaHoldsCorrect == SubmissionsSpec => []JobQuotaHolds
<1>1. QuotaInv => JobQuotaHolds
  <2> SUFFICES ASSUME QuotaInv, NEW o \in Keys
               PROVE  /\ Cardinality(ActiveSent(o)) <= ActiveJobs + Cardinality(Senders) - 1
                      /\ Cardinality(RecentSent(o)) <= JobsPerHour + Cardinality(Senders) - 1
    BY DEF JobQuotaHolds
  <2>1. /\ Cardinality(ActiveSent(o)) + Cardinality(Counting(o))
              <= ActiveJobs - 1 + Cardinality(Senders)
        /\ Cardinality(RecentSent(o)) + Cardinality(Splitting(o))
              <= JobsPerHour - 1 + Cardinality(Senders)
    BY DEF QuotaInv
  <2>2. /\ Cardinality(ActiveSent(o)) \in Nat /\ Cardinality(Counting(o)) \in Nat
        /\ Cardinality(RecentSent(o)) \in Nat /\ Cardinality(Splitting(o)) \in Nat
        /\ Cardinality(Senders) \in Nat
    BY SetsAreSets, JobSetsAreFinite, SenderSetsAreFinite
  <2>3. QED
    BY <2>1, <2>2, SubmissionsAssumption
<1>2. QED
  BY <1>1, QuotaAtFirst, QuotaKept, SubmissionsTypeCorrect, PTL DEF SubmissionsSpec

-----------------------------------------------------------------------------
(* Bytes.  An upload that passed its check may store one artifact.         *)

Storing(k) == {u \in Uploaders : uploads[u] = k}
BytesInv ==
    \A k \in Keys : used[k] + MaxSize * Cardinality(Storing(k))
                      <= BytesPerDay - 1 + MaxSize * Cardinality(Uploaders)

LEMMA UploaderSetsAreFinite ==
    ASSUME NEW T \in SUBSET Uploaders
    PROVE  /\ IsFiniteSet(T) /\ Cardinality(T) \in Nat
           /\ Cardinality(T) <= Cardinality(Uploaders)
           /\ Cardinality(Uploaders) \in Nat
BY FS_Subset, FS_CardinalityType, SubmissionsAssumption

LEMMA TimesIsMonotone ==
    ASSUME NEW m \in Nat, NEW a \in Nat, NEW b \in Nat, a <= b
    PROVE  m * a <= m * b /\ m * a \in Nat /\ m * b \in Nat
<1>1. PICK d \in Nat : b = a + d
  <2>1. b - a \in Nat /\ b = a + (b - a)
    OBVIOUS
  <2>2. QED
    BY <2>1
<1>2. m * b = m * a + m * d /\ m * d \in Nat /\ m * a \in Nat
  BY <1>1
<1>3. QED
  BY <1>2

LEMMA BytesAtFirst == SubmissionsInit => BytesInv
<1> SUFFICES ASSUME SubmissionsInit, NEW k \in Keys
             PROVE  used[k] + MaxSize * Cardinality(Storing(k))
                      <= BytesPerDay - 1 + MaxSize * Cardinality(Uploaders)
  BY DEF BytesInv
<1>1. Storing(k) = {} /\ used[k] = 0
  BY SubmissionsAssumption DEF SubmissionsInit, Storing
<1>2. Cardinality(Storing(k)) = 0 /\ Cardinality(Uploaders) \in Nat
  BY <1>1, FS_EmptySet, FS_CardinalityType, SubmissionsAssumption
<1>3. MaxSize * 0 = 0 /\ MaxSize * Cardinality(Uploaders) \in Nat /\ BytesPerDay \in Nat \ {0}
  BY <1>2, SubmissionsAssumption
<1>4. QED
  BY <1>1, <1>2, <1>3

LEMMA BytesKept == SubmissionsTypeOK /\ BytesInv /\ [SubmissionsNext]_submissionsVars => BytesInv'
<1> SUFFICES ASSUME SubmissionsTypeOK, BytesInv, [SubmissionsNext]_submissionsVars, NEW k \in Keys
             PROVE  used'[k] + MaxSize * Cardinality(Storing(k)')
                      <= BytesPerDay - 1 + MaxSize * Cardinality(Uploaders)
  BY DEF BytesInv
<1>0. UploadsInv /\ UsedInv
  BY TypeInParts
<1>1. used[k] + MaxSize * Cardinality(Storing(k))
        <= BytesPerDay - 1 + MaxSize * Cardinality(Uploaders)
  BY DEF BytesInv
<1>2. /\ Storing(k) \in SUBSET Uploaders /\ Storing(k)' \in SUBSET Uploaders
      /\ used[k] \in Nat
  BY <1>0 DEF Storing, UsedInv
<1>3. /\ IsFiniteSet(Storing(k)) /\ Cardinality(Storing(k)) \in Nat
      /\ Cardinality(Storing(k)') \in Nat /\ Cardinality(Storing(k)') <= Cardinality(Uploaders)
      /\ Cardinality(Uploaders) \in Nat
  BY <1>2, UploaderSetsAreFinite
<1>4. CASE UNCHANGED <<uploads, used>>
  BY <1>1, <1>4 DEF Storing
<1>5. ASSUME NEW u \in Uploaders, NEW size \in 0..MaxSize, UploadStored(u, size)
      PROVE  used'[k] + MaxSize * Cardinality(Storing(k)')
               <= BytesPerDay - 1 + MaxSize * Cardinality(Uploaders)
  <2>0. /\ used' = [used EXCEPT ![uploads[u]] = used[uploads[u]] + size]
        /\ uploads' = [uploads EXCEPT ![u] = NoKey] /\ uploads[u] # NoKey
    BY <1>5 DEF UploadStored
  <2>1. CASE uploads[u] = k
    <3>1. used'[k] = used[k] + size /\ u \in Storing(k) /\ Storing(k)' = Storing(k) \ {u}
      BY <1>0, <2>0, <2>1, SubmissionsAssumption DEF UploadsInv, UsedInv, Storing
    <3>2. Cardinality(Storing(k)') = Cardinality(Storing(k)) - 1
      BY <1>3, <3>1, FS_RemoveElement
    <3> DEFINE c == Cardinality(Storing(k))
               d == Cardinality(Storing(k)')
               n == Cardinality(Uploaders)
    <3>3. c \in Nat /\ d \in Nat /\ n \in Nat /\ c = d + 1
      BY <1>3, <3>2
    <3>4. MaxSize * c = MaxSize * d + MaxSize /\ MaxSize * d \in Nat /\ MaxSize * n \in Nat
      <4> HIDE DEF c, d, n
      <4> QED
        BY <3>3, SubmissionsAssumption
    <3>5. used[k] + MaxSize * c <= BytesPerDay - 1 + MaxSize * n
      BY <1>1
    <3> HIDE DEF c, d, n
    <3>6. used'[k] + MaxSize * d <= BytesPerDay - 1 + MaxSize * n
      BY <1>2, <3>1, <3>4, <3>5, SubmissionsAssumption
    <3>7. QED
      BY <3>6 DEF d, n
  <2>2. CASE uploads[u] # k
    <3>1. used'[k] = used[k] /\ Storing(k)' = Storing(k)
      BY <1>0, <2>0, <2>2, SubmissionsAssumption DEF UploadsInv, UsedInv, Storing
    <3>2. QED
      BY <1>1, <3>1
  <2>3. QED
    BY <2>1, <2>2
<1>6. ASSUME NEW u \in Uploaders, NEW size \in 0..MaxSize, NEW l \in Keys, UploadChecked(u, l, size)
      PROVE  used'[k] + MaxSize * Cardinality(Storing(k)')
               <= BytesPerDay - 1 + MaxSize * Cardinality(Uploaders)
  <2>0. /\ used' = used /\ uploads' = [uploads EXCEPT ![u] = l] /\ uploads[u] = NoKey
        /\ size > 0 /\ used[l] + size <= BytesPerDay
    BY <1>6 DEF UploadChecked
  <2>1. CASE l = k
    <3>1. used[k] <= BytesPerDay - 1
      BY <1>2, <2>0, <2>1, SubmissionsAssumption
    <3>2. /\ MaxSize * Cardinality(Storing(k)') <= MaxSize * Cardinality(Uploaders)
          /\ MaxSize * Cardinality(Storing(k)') \in Nat
          /\ MaxSize * Cardinality(Uploaders) \in Nat
      BY <1>3, TimesIsMonotone, SubmissionsAssumption
    <3>3. QED
      BY <1>2, <2>0, <3>1, <3>2, SubmissionsAssumption
  <2>2. CASE l # k
    <3>1. Storing(k)' = Storing(k)
      BY <1>0, <2>0, <2>2, SubmissionsAssumption DEF UploadsInv, Storing
    <3>2. QED
      BY <1>1, <2>0, <3>1
  <2>3. QED
    BY <2>1, <2>2
<1>7. ASSUME NEW l \in Keys, UploadAges(l)
      PROVE  used'[k] + MaxSize * Cardinality(Storing(k)')
               <= BytesPerDay - 1 + MaxSize * Cardinality(Uploaders)
  <2>1. used'[k] \in {used[k], used[k] - 1} /\ Storing(k)' = Storing(k)
    BY <1>0, <1>7 DEF UploadAges, UsedInv, Storing
  <2> DEFINE x == MaxSize * Cardinality(Storing(k))
             y == MaxSize * Cardinality(Uploaders)
  <2>2. x \in Nat /\ y \in Nat
    BY <1>3, SubmissionsAssumption
  <2>3. used[k] + x <= BytesPerDay - 1 + y
    BY <1>1
  <2> HIDE DEF x, y
  <2>4. used'[k] + x <= BytesPerDay - 1 + y
    BY <1>2, <2>1, <2>2, <2>3, SubmissionsAssumption
  <2>5. QED
    BY <2>1, <2>4 DEF x, y
<1>8. AccountStep \/ SendStep \/ UNCHANGED submissionsVars => UNCHANGED <<uploads, used>>
  BY DEF AccountStep, SignIn, LinkKey, SendStep, CountActive, CountRecent, SendRefused, SendQueued,
     Send, JobChanges, JobAges, Rerun, submissionsVars
<1>9. QED
  BY <1>4, <1>5, <1>6, <1>7, <1>8 DEF SubmissionsNext, UploadStep

\* The bytes one key stored in a day stay below the limit and one largest artifact
\* for each upload handled at once (quota.py check_upload).
THEOREM ByteQuotaHoldsCorrect == SubmissionsSpec => []ByteQuotaHolds
<1>1. SubmissionsTypeOK /\ BytesInv => ByteQuotaHolds
  <2> SUFFICES ASSUME SubmissionsTypeOK, BytesInv, NEW k \in Keys
               PROVE  used[k] < BytesPerDay + MaxSize * Cardinality(Uploaders)
    BY DEF ByteQuotaHolds
  <2>1. used[k] \in Nat /\ Storing(k) \in SUBSET Uploaders
    BY DEF SubmissionsTypeOK, Storing
  <2> DEFINE x == MaxSize * Cardinality(Storing(k))
             y == MaxSize * Cardinality(Uploaders)
  <2>2. x \in Nat /\ y \in Nat
    BY <2>1, UploaderSetsAreFinite, SubmissionsAssumption
  <2>3. used[k] + x <= BytesPerDay - 1 + y
    BY DEF BytesInv
  <2> HIDE DEF x, y
  <2>4. used[k] < BytesPerDay + y
    BY <2>1, <2>2, <2>3, SubmissionsAssumption
  <2>5. QED
    BY <2>4 DEF y
<1>2. QED
  BY <1>1, BytesAtFirst, BytesKept, SubmissionsTypeCorrect, PTL DEF SubmissionsSpec
=============================================================================
