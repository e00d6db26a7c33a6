--------------------------- MODULE NodeAgentProofs ---------------------------
(***************************************************************************)
(* Proofs about NodeAgent, for any jobs and any bounds.                    *)
(***************************************************************************)
EXTENDS NodeAgent, SequenceTheorems, TLAPS

-----------------------------------------------------------------------------
(* The queue keeps its type.                                               *)

LEMMA QueueKeepsItsType ==
    ASSUME NEW q \in Seq(AgentJobs)
    PROVE  /\ \A j \in AgentJobs : Append(q, j) \in Seq(AgentJobs) /\ <<j>> \o q \in Seq(AgentJobs)
           /\ q # <<>> => Head(q) \in AgentJobs /\ Tail(q) \in Seq(AgentJobs)
           /\ \A i \in DOMAIN q : RemoveAt(q, i) \in Seq(AgentJobs)
<1>1. ASSUME NEW j \in AgentJobs
      PROVE  Append(q, j) \in Seq(AgentJobs) /\ <<j>> \o q \in Seq(AgentJobs)
  <2>1. <<j>> \in Seq(AgentJobs)
    OBVIOUS
  <2>2. QED
    BY <2>1, AppendProperties, ConcatProperties
<1>2. q # <<>> => Head(q) \in AgentJobs /\ Tail(q) \in Seq(AgentJobs)
  BY HeadTailProperties
<1>3. ASSUME NEW i \in DOMAIN q
      PROVE  RemoveAt(q, i) \in Seq(AgentJobs)
  <2>1. i \in 1..Len(q) /\ Len(q) \in Nat
    BY LenProperties
  <2>2. SubSeq(q, 1, i - 1) \in Seq(AgentJobs) /\ SubSeq(q, i + 1, Len(q)) \in Seq(AgentJobs)
    BY <2>1, SubSeqProperties
  <2>3. QED
    BY <2>2, ConcatProperties DEF RemoveAt
<1>4. QED
  BY <1>1, <1>2, <1>3

LEMMA LeavingKeepsTheType ==
    ASSUME queue \in Seq(AgentJobs), NEW j, Leaves(j)
    PROVE  queue' \in Seq(AgentJobs)
BY QueueKeepsItsType DEF Leaves

-----------------------------------------------------------------------------
(* Types.  Each request for a self test is counted once.                    *)

TestsCounted == tests.reading + tests.running <= asks
AgentTypes == AgentTypeOK /\ TestsCounted

LEMMA PlacesAreWaits ==
    /\ 0 \in Tokens /\ Idle \in Waits
    /\ token \in Tokens =>
         \A place \in {"idle", "claim", "peek", "expire", "run"} : At(place) \in Waits
<1>1. 0 \in Tokens
  BY AgentAssumption DEF Tokens
<1>2. QED
  BY <1>1 DEF Idle, Waits, At

LEMMA TypesAtFirst == AgentInit => AgentTypes
<1> SUFFICES ASSUME AgentInit
             PROVE  AgentTypes
  OBVIOUS
<1>1. /\ token \in Tokens /\ issued \in Tokens /\ beat \in Tokens
      /\ mode \in Modes /\ choice \in Modes \cup {"lost"}
      /\ disk \in [token : Tokens, mode : Modes]
      /\ loop \in Waits /\ click \in Waits
  BY PlacesAreWaits DEF AgentInit, Modes
<1>2. /\ hand \in [Hands -> AgentJobs \cup {NoWork}]
      /\ stage \in [Hands -> Stages]
      /\ told \in [Hands -> BOOLEAN]
  BY DEF AgentInit, Stages
<1>3. current \in [work : AgentJobs \cup {NoWork, SelfTest}, running : BOOLEAN, stop : BOOLEAN]
  BY DEF AgentInit, NothingCurrent
<1>4. /\ tests \in [reading : 0..AgentTests, running : 0..AgentTests]
      /\ restarts \in 0..AgentRestarts /\ asks \in 0..AgentTests /\ TestsCounted
  BY AgentAssumption DEF AgentInit, TestsCounted
<1>5. queue \in Seq(AgentJobs)
  BY EmptySeq DEF AgentInit
<1>6. QED
  BY <1>1, <1>2, <1>3, <1>4, <1>5 DEF AgentInit, AgentTypes, AgentTypeOK

LEMMA TypesOfSession ==
    ASSUME AgentTypes, SessionStep
    PROVE  AgentTypes'
<1> USE AgentAssumption DEF AgentTypes, AgentTypeOK, TestsCounted, Tokens, Modes,
       sessionVars, offerVars, runVars, testVars, outsideVars
<1>1. CASE HandOver
  BY <1>1 DEF HandOver, Saved
<1>2. CASE SendBeat
  BY <1>2 DEF SendBeat
<1>3. CASE BeatAnswered
  BY <1>3 DEF BeatAnswered, Saved
<1>4. CASE BeatLost
  BY <1>4 DEF BeatLost
<1>5. CASE Restart
  <2>1. /\ token' \in Tokens /\ mode' \in Modes /\ choice' \in Modes \cup {"lost"}
        /\ beat' \in Tokens /\ loop' \in Waits /\ click' \in Waits
    BY <1>5, PlacesAreWaits DEF Restart
  <2>2. /\ hand' \in [Hands -> AgentJobs \cup {NoWork}]
        /\ stage' \in [Hands -> Stages]
        /\ told' \in [Hands -> BOOLEAN]
        /\ current' \in [work : AgentJobs \cup {NoWork, SelfTest}, running : BOOLEAN,
                         stop : BOOLEAN]
    BY <1>5 DEF Restart, Stages, NothingCurrent
  <2>3. /\ tests' \in [reading : 0..AgentTests, running : 0..AgentTests]
        /\ restarts' \in 0..AgentRestarts /\ asks' \in 0..AgentTests /\ TestsCounted'
    BY <1>5 DEF Restart
  <2>4. QED
    BY <1>5, <2>1, <2>2, <2>3 DEF Restart
<1>6. ASSUME NEW m \in Modes, Choose(m)
      PROVE  AgentTypes'
  BY <1>6 DEF Choose, Saved
<1>7. QED
  BY <1>1, <1>2, <1>3, <1>4, <1>5, <1>6 DEF SessionStep

LEMMA TypesOfOutside ==
    ASSUME AgentTypes, OutsideStep
    PROVE  AgentTypes'
<1> USE DEF AgentTypes, AgentTypeOK, TestsCounted, sessionVars, offerVars, runVars, testVars,
        outsideVars
<1>1. ASSUME NEW j \in AgentJobs, Submitted(j) \/ ComesBack(j)
      PROVE  AgentTypes'
  <2>1. Append(queue, j) \in Seq(AgentJobs) /\ <<j>> \o queue \in Seq(AgentJobs)
    BY QueueKeepsItsType
  <2>2. queue' \in Seq(AgentJobs)
    BY <1>1, <2>1 DEF Submitted, ComesBack
  <2>3. QED
    BY <1>1, <2>2 DEF Submitted, ComesBack
<1>2. ASSUME NEW j \in AgentJobs, Withdrawn(j)
      PROVE  AgentTypes'
  BY <1>2, LeavingKeepsTheType DEF Withdrawn
<1>3. ASSUME NEW j \in AgentJobs, StopAsked(j)
      PROVE  AgentTypes'
  BY <1>3 DEF StopAsked
<1>4. ASSUME NEW t \in Tokens, TokenRefused(t)
      PROVE  AgentTypes'
  BY <1>4, AgentAssumption DEF TokenRefused, Tokens
<1>5. CASE Heats
  BY <1>5 DEF Heats
<1>6. QED
  BY <1>1, <1>2, <1>3, <1>4, <1>5 DEF OutsideStep

LEMMA TypesOfStart ==
    ASSUME AgentTypes, NEW h \in Hands, NEW j \in AgentJobs, Start(h, j)
    PROVE  /\ hand' \in [Hands -> AgentJobs \cup {NoWork}]
           /\ stage' \in [Hands -> Stages]
           /\ told' \in [Hands -> BOOLEAN]
           /\ current' \in [work : AgentJobs \cup {NoWork, SelfTest}, running : BOOLEAN,
                            stop : BOOLEAN]
           /\ shared' \in BOOLEAN /\ abandoned' \in BOOLEAN
BY DEF AgentTypes, AgentTypeOK, Start, Replace, Occupied, Occupying, Stages

LEMMA TypesOfLoop ==
    ASSUME AgentTypes, LoopStep
    PROVE  AgentTypes'
<1> USE DEF AgentTypes, AgentTypeOK, TestsCounted, sessionVars, offerVars, runVars, testVars,
        outsideVars
<1>1. CASE LoopClaims \/ LoopPeeks \/ LoopExpires
  BY <1>1, PlacesAreWaits DEF LoopClaims, LoopPeeks, LoopExpires
<1>2. CASE LoopRefused \/ LoopNothing
  BY <1>2, PlacesAreWaits DEF LoopRefused, LoopNothing, Dropped
<1>3. CASE LoopStarts
  <2>1. Head(queue) \in AgentJobs /\ queue' \in Seq(AgentJobs)
    BY <1>3, QueueKeepsItsType DEF LoopStarts
  <2>2. "loop" \in Hands /\ Start("loop", Head(queue))
    BY <1>3 DEF LoopStarts, Hands
  <2>3. /\ hand' \in [Hands -> AgentJobs \cup {NoWork}]
        /\ stage' \in [Hands -> Stages] /\ told' \in [Hands -> BOOLEAN]
        /\ current' \in [work : AgentJobs \cup {NoWork, SelfTest}, running : BOOLEAN,
                         stop : BOOLEAN]
        /\ shared' \in BOOLEAN /\ abandoned' \in BOOLEAN
    BY <2>1, <2>2, TypesOfStart
  <2>4. loop' \in Waits
    BY <1>3 DEF LoopStarts, Waits
  <2>5. QED
    BY <1>3, <2>1, <2>3, <2>4 DEF LoopStarts
<1>4. CASE LoopOffers
  <2>1. Head(queue) \in AgentJobs
    BY <1>4, QueueKeepsItsType DEF LoopOffers
  <2>2. QED
    BY <1>4, <2>1, PlacesAreWaits DEF LoopOffers
<1>5. CASE LoopExpired
  BY <1>5, PlacesAreWaits DEF LoopExpired
<1>6. QED
  BY <1>1, <1>2, <1>3, <1>4, <1>5 DEF LoopStep

LEMMA TypesOfOwner ==
    ASSUME AgentTypes, OwnerStep
    PROVE  AgentTypes'
<1> USE DEF AgentTypes, AgentTypeOK, TestsCounted, sessionVars, offerVars, runVars, testVars,
        outsideVars
<1>1. CASE Approve
  BY <1>1, PlacesAreWaits DEF Approve, Answer
<1>2. CASE ApprovedStarts
  <2>1. Head(queue) \in AgentJobs /\ queue' \in Seq(AgentJobs)
    BY <1>2, QueueKeepsItsType DEF ApprovedStarts
  <2>2. "owner" \in Hands /\ Start("owner", Head(queue))
    BY <1>2 DEF ApprovedStarts, Hands
  <2>3. /\ hand' \in [Hands -> AgentJobs \cup {NoWork}]
        /\ stage' \in [Hands -> Stages] /\ told' \in [Hands -> BOOLEAN]
        /\ current' \in [work : AgentJobs \cup {NoWork, SelfTest}, running : BOOLEAN,
                         stop : BOOLEAN]
        /\ shared' \in BOOLEAN /\ abandoned' \in BOOLEAN
    BY <2>1, <2>2, TypesOfStart
  <2>4. click' \in Waits
    BY <1>2, PlacesAreWaits DEF ApprovedStarts
  <2>5. QED
    BY <1>2, <2>1, <2>3, <2>4 DEF ApprovedStarts
<1>3. CASE ApprovedRefused \/ ApprovedNothing
  BY <1>3, PlacesAreWaits DEF ApprovedRefused, ApprovedNothing, Dropped
<1>4. CASE Decline
  BY <1>4 DEF Decline, Answer
<1>5. QED
  BY <1>1, <1>2, <1>3, <1>4 DEF OwnerStep

LEMMA TypesOfRun ==
    ASSUME AgentTypes, NEW h \in Hands, RunStep(h)
    PROVE  AgentTypes'
<1> USE DEF AgentTypes, AgentTypeOK, TestsCounted, Stages, sessionVars, offerVars, testVars,
        outsideVars
<1>1. CASE Fetched(h)
  BY <1>1 DEF Fetched
<1>2. CASE FetchFailed(h)
  BY <1>2 DEF FetchFailed
<1>3. CASE Watch(h)
  BY <1>3 DEF Watch
<1>4. CASE Trained(h)
  BY <1>4 DEF Trained
<1>5. CASE Uploaded(h)
  BY <1>5 DEF Uploaded
<1>6. CASE ReportSent(h)
  BY <1>6, PlacesAreWaits DEF ReportSent
<1>7. QED
  BY <1>1, <1>2, <1>3, <1>4, <1>5, <1>6 DEF RunStep

TestTypes ==
    /\ tests \in [reading : 0..AgentTests, running : 0..AgentTests]
    /\ asks \in 0..AgentTests /\ TestsCounted

LEMMA TestsAreCounted ==
    ASSUME TestTypes, TestStep
    PROVE  TestTypes'
<1> USE AgentAssumption DEF TestTypes, TestsCounted
<1> DEFINE a == tests.reading
           b == tests.running
<1>0. a \in Nat /\ b \in Nat /\ tests = [reading |-> a, running |-> b]
  OBVIOUS
<1> HIDE DEF a, b
<1>1. CASE AskTest
  <2>1. asks' = asks + 1 /\ asks < AgentTests /\ tests' = [reading |-> a + 1, running |-> b]
    BY <1>0, <1>1 DEF AskTest
  <2>2. QED
    BY <1>0, <2>1
<1>2. CASE TestRejected
  <2>1. asks' = asks /\ a > 0 /\ tests' = [reading |-> a - 1, running |-> b]
    BY <1>0, <1>2 DEF TestRejected
  <2>2. QED
    BY <1>0, <2>1
<1>3. CASE TestStarts
  <2>1. asks' = asks /\ a > 0 /\ tests' = [reading |-> a - 1, running |-> b + 1]
    BY <1>0, <1>3 DEF TestStarts
  <2>2. QED
    BY <1>0, <2>1
<1>4. CASE TestEnds
  <2>1. asks' = asks /\ b > 0 /\ tests' = [reading |-> a, running |-> b - 1]
    BY <1>0, <1>4 DEF TestEnds
  <2>2. QED
    BY <1>0, <2>1
<1>5. QED
  BY <1>1, <1>2, <1>3, <1>4 DEF TestStep

LEMMA TypesOfTest ==
    ASSUME AgentTypes, TestStep
    PROVE  AgentTypes'
<1>1. TestTypes'
  BY TestsAreCounted DEF AgentTypes, AgentTypeOK, TestTypes
<1>2. /\ current' \in [work : AgentJobs \cup {NoWork, SelfTest}, running : BOOLEAN,
                       stop : BOOLEAN]
      /\ testing' \in BOOLEAN /\ shared' \in BOOLEAN /\ abandoned' \in BOOLEAN
  <2> USE DEF AgentTypes, AgentTypeOK
  <2>1. CASE AskTest \/ TestRejected
    BY <2>1 DEF AskTest, TestRejected, runVars
  <2>2. CASE TestStarts
    <3>1. Occupied \in BOOLEAN
      BY DEF Occupied
    <3>2. QED
      BY <2>2, <3>1 DEF TestStarts, Replace
  <2>3. CASE TestEnds
    BY <2>3 DEF TestEnds
  <2>4. QED
    BY <2>1, <2>2, <2>3 DEF TestStep
<1>3. UNCHANGED <<hand, stage, told, sessionVars, loop, offerVars, outsideVars>>
  BY DEF TestStep, AskTest, TestRejected, TestStarts, TestEnds, runVars
<1>4. QED
  BY <1>1, <1>2, <1>3 DEF AgentTypes, AgentTypeOK, TestTypes, sessionVars, offerVars, outsideVars

LEMMA TypesKept == AgentTypes /\ [AgentNext]_agentVars => AgentTypes'
<1> SUFFICES ASSUME AgentTypes, [AgentNext]_agentVars
             PROVE  AgentTypes'
  OBVIOUS
<1>1. CASE UNCHANGED agentVars
  BY <1>1 DEF agentVars, sessionVars, offerVars, runVars, testVars, outsideVars, AgentTypes,
              AgentTypeOK, TestsCounted
<1>2. CASE AgentNext
  BY <1>2, TypesOfSession, TypesOfOutside, TypesOfLoop, TypesOfOwner, TypesOfRun, TypesOfTest
     DEF AgentNext
<1>3. QED
  BY <1>1, <1>2

\* What the agent keeps has its type through every interleaving of its
\* coroutines, and the requests for self tests do not outnumber those made.
THEOREM AgentTypeCorrect == AgentSpec => []AgentTypeOK
<1>1. AgentInit => AgentTypes
  BY TypesAtFirst
<1>2. AgentTypes /\ [AgentNext]_agentVars => AgentTypes'
  BY TypesKept
<1>3. AgentTypes => AgentTypeOK
  BY DEF AgentTypes
<1>4. QED
  BY <1>1, <1>2, <1>3, PTL DEF AgentSpec

-----------------------------------------------------------------------------
(* Answers and choices.                                                    *)

OfferInv == offer # NoWork => answered = {}

\* An offered job is approved or declined, never both, whatever the owner's
\* pages, the poll loop and the expiry do in between (approve_task, decline_task).
THEOREM OwnerAnswersOnceCorrect == AgentSpec => []OwnerAnswersOnce
<1> DEFINE Inv == OfferInv /\ OwnerAnswersOnce
<1>1. AgentInit => Inv
  BY DEF AgentInit, OfferInv, OwnerAnswersOnce
<1>2. Inv /\ [AgentNext]_agentVars => Inv'
  <2> SUFFICES ASSUME Inv, [AgentNext]_agentVars
               PROVE  Inv'
    OBVIOUS
  <2> USE DEF OfferInv, OwnerAnswersOnce
  <2>1. CASE UNCHANGED <<offer, answered>>
    BY <2>1
  <2>2. CASE Restart
    BY <2>2 DEF Restart
  <2>3. CASE LoopOffers \/ LoopExpired
    BY <2>3 DEF LoopOffers, LoopExpired
  <2>4. CASE Approve \/ Decline
    BY <2>4 DEF Approve, Decline, Answer
  <2>5. \/ UNCHANGED <<offer, answered>> \/ Restart \/ LoopOffers \/ LoopExpired
        \/ Approve \/ Decline
    <3>1. CASE LoopStep
      BY <3>1 DEF LoopStep, LoopClaims, LoopPeeks, LoopExpires, LoopRefused, LoopNothing,
                  LoopStarts, offerVars
    <3>2. CASE OwnerStep
      BY <3>2 DEF OwnerStep, ApprovedStarts, ApprovedRefused, ApprovedNothing
    <3>3. CASE TestStep
      BY <3>3 DEF TestStep, AskTest, TestRejected, TestStarts, TestEnds, offerVars
    <3>4. CASE SessionStep
      BY <3>4 DEF SessionStep, HandOver, SendBeat, BeatAnswered, BeatLost, Choose, offerVars
    <3>5. CASE OutsideStep
      BY <3>5 DEF OutsideStep, Submitted, ComesBack, Withdrawn, StopAsked, TokenRefused,
                  Heats, offerVars
    <3>6. ASSUME NEW h \in Hands, RunStep(h)
          PROVE  UNCHANGED <<offer, answered>>
      BY <3>6 DEF RunStep, Fetched, FetchFailed, Watch, Trained, Uploaded, ReportSent, offerVars
    <3>7. CASE UNCHANGED agentVars
      BY <3>7 DEF agentVars, offerVars
    <3>8. QED
      BY <3>1, <3>2, <3>3, <3>4, <3>5, <3>6, <3>7 DEF AgentNext
  <2>6. QED
    BY <2>1, <2>2, <2>3, <2>4, <2>5
<1>3. Inv => OwnerAnswersOnce
  OBVIOUS
<1>4. QED
  BY <1>1, <1>2, <1>3, PTL DEF AgentSpec

\* The mode in memory and in the session file is the one the owner chose last,
\* through new tokens, rejected ones and restarts with a session (save_session,
\* load_session).
THEOREM OwnersChoiceIsKeptCorrect == AgentSpec => []OwnersChoiceIsKept
<1> DEFINE Inv == AgentTypes /\ OwnersChoiceIsKept
<1>1. AgentInit => Inv
  BY TypesAtFirst DEF AgentInit, OwnersChoiceIsKept
<1>2. Inv /\ [AgentNext]_agentVars => Inv'
  <2> SUFFICES ASSUME Inv, [AgentNext]_agentVars
               PROVE  Inv'
    OBVIOUS
  <2>1. AgentTypes'
    BY TypesKept
  <2> USE DEF OwnersChoiceIsKept
  <2>2. CASE SessionStep
    <3>1. CASE HandOver
      BY <2>1, <3>1 DEF HandOver, Saved
    <3>2. CASE SendBeat \/ BeatLost
      BY <2>1, <3>2 DEF SendBeat, BeatLost
    <3>3. CASE BeatAnswered
      BY <2>1, <3>3 DEF BeatAnswered, Saved
    <3>4. CASE Restart
      <4>1. /\ disk' = disk
            /\ (mode' = disk.mode /\ choice' = choice) \/ choice' = "lost"
        BY <3>4 DEF Restart
      <4>2. QED
        BY <2>1, <4>1
    <3>5. ASSUME NEW m \in Modes, Choose(m)
          PROVE  OwnersChoiceIsKept'
      BY <3>5 DEF Choose, Saved
    <3>6. QED
      BY <2>1, <2>2, <3>1, <3>2, <3>3, <3>4, <3>5 DEF SessionStep
  <2>3. CASE UNCHANGED <<mode, disk, choice>>
    BY <2>1, <2>3
  <2>4. SessionStep \/ UNCHANGED <<mode, disk, choice>>
    <3>1. CASE LoopStep
      BY <3>1 DEF LoopStep, LoopClaims, LoopPeeks, LoopExpires, LoopRefused, LoopNothing,
                  LoopStarts, LoopOffers, LoopExpired, Dropped, sessionVars
    <3>2. CASE OwnerStep
      BY <3>2 DEF OwnerStep, Approve, ApprovedStarts, ApprovedRefused, ApprovedNothing, Decline,
                  Dropped, sessionVars
    <3>3. CASE TestStep
      BY <3>3 DEF TestStep, AskTest, TestRejected, TestStarts, TestEnds, sessionVars
    <3>4. CASE OutsideStep
      BY <3>4 DEF OutsideStep, Submitted, ComesBack, Withdrawn, StopAsked, TokenRefused,
                  Heats, sessionVars
    <3>5. ASSUME NEW h \in Hands, RunStep(h)
          PROVE  UNCHANGED <<mode, disk, choice>>
      BY <3>5 DEF RunStep, Fetched, FetchFailed, Watch, Trained, Uploaded, ReportSent,
                  sessionVars
    <3>6. CASE UNCHANGED agentVars
      BY <3>6 DEF agentVars, sessionVars
    <3>7. QED
      BY <3>1, <3>2, <3>3, <3>4, <3>5, <3>6 DEF AgentNext
  <2>5. QED
    BY <2>2, <2>3, <2>4
<1>3. Inv => OwnersChoiceIsKept
  OBVIOUS
<1>4. QED
  BY <1>1, <1>2, <1>3, PTL DEF AgentSpec

-----------------------------------------------------------------------------
(* Who has the machine.                                                    *)

\* Unless two works met, one at most has the machine, the current task runs while
\* one has it, and the self test says that it runs.
OneHasIt ==
    /\ tests.running <= 1
    /\ \A h \in Hands : Occupying(h) => tests.running = 0
    /\ \A h, k \in Hands : Occupying(h) /\ Occupying(k) => h = k
    /\ tests.running > 0 => testing
    /\ Occupied => current.running
    /\ ~abandoned /\ ~Occupied => ~current.running

\* The stop flag is that of the run that has the machine.
FlagIsItsOwn == \A h \in Hands : stage[h] \in {"fetch", "train"} => (current.stop <=> told[h])

\* A watcher looks for a request only after the fetch, and only for its own job.
ToldIsAsked ==
    \A h \in Hands : /\ stage[h] = "fetch" => ~told[h]
                     /\ told[h] /\ stage[h] = "train" => hand[h] \in stopAsked

MachineInv ==
    /\ testing => tests.running > 0
    /\ ToldIsAsked
    /\ ~shared => OneHasIt /\ FlagIsItsOwn

LEMMA NothingOccupies ==
    ASSUME AgentTypes, ~Occupied
    PROVE  tests.running = 0 /\ \A k \in Hands : stage[k] \notin {"fetch", "train", "upload"}
<1>1. tests.running \in Nat
  BY AgentAssumption DEF AgentTypes, AgentTypeOK
<1>2. ~(tests.running > 0) /\ \A k \in Hands : ~Occupying(k)
  BY DEF Occupied
<1>3. QED
  BY <1>1, <1>2 DEF Occupying

\* What a run changes of who has the machine is that its own hand frees it.
LEMMA MachineAtStart ==
    ASSUME AgentTypes, MachineInv, NEW h \in Hands, NEW j, Start(h, j), UNCHANGED testVars,
           UNCHANGED stopAsked
    PROVE  MachineInv'
<1> USE DEF AgentTypes, AgentTypeOK
<1>1. /\ stage' = [stage EXCEPT ![h] = "fetch"] /\ told' = [told EXCEPT ![h] = FALSE]
      /\ hand' = [hand EXCEPT ![h] = j]
      /\ current'.running /\ ~current'.stop /\ shared' = Occupied /\ ~abandoned'
      /\ tests' = tests /\ testing' = testing /\ stopAsked' = stopAsked
  BY DEF Start, Replace, testVars
<1>2. ToldIsAsked' /\ (testing' => tests'.running > 0)
  BY <1>1 DEF MachineInv, ToldIsAsked
<1>3. ASSUME ~shared'
      PROVE  OneHasIt' /\ FlagIsItsOwn'
  <2>1. tests.running = 0 /\ \A k \in Hands : stage[k] \notin {"fetch", "train", "upload"}
    BY <1>1, <1>3, NothingOccupies
  <2>2. \A k \in Hands : Occupying(k)' => k = h
    BY <1>1, <2>1 DEF Occupying
  <2>3. \A k \in Hands : stage'[k] \in {"fetch", "train"} => k = h
    BY <1>1, <2>1
  <2>4. Occupying(h)' /\ ~told'[h]
    BY <1>1 DEF Occupying
  <2>5. QED
    BY <1>1, <2>1, <2>2, <2>3, <2>4 DEF OneHasIt, FlagIsItsOwn, Occupied
<1>4. QED
  BY <1>2, <1>3 DEF MachineInv

\* A run that goes on to a stage which has the machine, or frees it.
LEMMA MachineOfRun ==
    ASSUME AgentTypes, MachineInv, NEW h \in Hands, RunStep(h)
    PROVE  MachineInv'
<1> USE DEF AgentTypes, AgentTypeOK
<1>1. tests' = tests /\ testing' = testing /\ stopAsked' = stopAsked /\ shared' = shared
  BY DEF RunStep, Fetched, FetchFailed, Watch, Trained, Uploaded, ReportSent, testVars,
         outsideVars
<1>2. ToldIsAsked'
  <2>1. CASE Fetched(h)
    BY <1>1, <2>1 DEF Fetched, MachineInv, ToldIsAsked
  <2>2. CASE FetchFailed(h)
    BY <1>1, <2>2 DEF FetchFailed, MachineInv, ToldIsAsked
  <2>3. CASE Watch(h)
    BY <1>1, <2>3 DEF Watch, MachineInv, ToldIsAsked
  <2>4. CASE Trained(h)
    BY <1>1, <2>4 DEF Trained, MachineInv, ToldIsAsked
  <2>5. CASE Uploaded(h)
    BY <1>1, <2>5 DEF Uploaded, MachineInv, ToldIsAsked
  <2>6. CASE ReportSent(h)
    BY <1>1, <2>6 DEF ReportSent, MachineInv, ToldIsAsked
  <2>7. QED
    BY <2>1, <2>2, <2>3, <2>4, <2>5, <2>6 DEF RunStep
<1>3. ASSUME ~shared'
      PROVE  OneHasIt' /\ FlagIsItsOwn'
  <2>0. OneHasIt /\ FlagIsItsOwn /\ ToldIsAsked
    BY <1>1, <1>3 DEF MachineInv
  <2>1. CASE Fetched(h) \/ Watch(h) \/ Trained(h)
    <3>1. /\ \A k \in Hands : Occupying(k)' <=> Occupying(k)
          /\ current'.running = current.running /\ abandoned' = abandoned
      BY <2>1 DEF Fetched, Watch, Trained, Occupying
    <3>2. OneHasIt'
      BY <1>1, <2>0, <3>1 DEF OneHasIt, Occupied
    <3>3. CASE Fetched(h)
      BY <2>0, <3>2, <3>3 DEF Fetched, FlagIsItsOwn
    <3>4. CASE Watch(h)
      <4>1. \A k \in Hands : stage'[k] \in {"fetch", "train"} => k = h
        BY <2>0, <3>4 DEF Watch, OneHasIt, Occupying
      <4>2. current'.stop /\ told'[h]
        BY <3>4 DEF Watch
      <4>3. QED
        BY <3>2, <4>1, <4>2 DEF FlagIsItsOwn
    <3>5. CASE Trained(h)
      BY <2>0, <3>2, <3>5 DEF Trained, FlagIsItsOwn
    <3>6. QED
      BY <2>1, <3>2, <3>3, <3>4, <3>5
  <2>2. CASE FetchFailed(h) \/ Uploaded(h)
    <3>1. /\ Occupying(h) /\ \A k \in Hands : ~Occupying(k)'
          /\ current'.stop = current.stop /\ told' = told
          /\ \A k \in Hands : stage'[k] \notin {"fetch", "train"}
      BY <2>0, <2>2 DEF FetchFailed, Uploaded, Occupying, OneHasIt
    <3>2. tests'.running = 0
      BY <1>1, <2>0, <3>1 DEF OneHasIt
    <3>3. abandoned' \/ ~current'.running
      BY <2>2 DEF FetchFailed, Uploaded
    <3>4. QED
      BY <3>1, <3>2, <3>3 DEF OneHasIt, FlagIsItsOwn, Occupied
  <2>3. CASE ReportSent(h)
    <3>1. /\ \A k \in Hands : Occupying(k)' <=> Occupying(k)
          /\ \A k \in Hands : stage'[k] \in {"fetch", "train"} => stage'[k] = stage[k]
          /\ current' = current /\ abandoned' = abandoned /\ told' = told
      BY <2>3 DEF ReportSent, Occupying
    <3>2. QED
      BY <1>1, <2>0, <3>1 DEF OneHasIt, FlagIsItsOwn, Occupied
  <2>4. QED
    BY <2>1, <2>2, <2>3 DEF RunStep
<1>4. QED
  BY <1>1, <1>2, <1>3 DEF MachineInv

LEMMA MachineOfTest ==
    ASSUME AgentTypes, MachineInv, TestStep
    PROVE  MachineInv'
<1> USE DEF AgentTypes, AgentTypeOK
<1>1. CASE AskTest \/ TestRejected
  <2>1. /\ UNCHANGED <<testing, stage, hand, told, current, shared, abandoned, stopAsked>>
        /\ tests'.running = tests.running
    BY <1>1 DEF AskTest, TestRejected, runVars, outsideVars
  <2>2. QED
    BY <2>1 DEF MachineInv, OneHasIt, FlagIsItsOwn, ToldIsAsked, Occupied, Occupying
<1>2. CASE TestStarts
  <2>1. /\ UNCHANGED <<stage, hand, told, stopAsked>> /\ testing' /\ ~abandoned'
        /\ tests'.running = tests.running + 1 /\ current'.running /\ shared' = Occupied
    BY <1>2 DEF TestStarts, Replace, outsideVars
  <2>2. tests.running \in Nat
    BY AgentAssumption
  <2>3. ASSUME ~shared'
        PROVE  OneHasIt' /\ FlagIsItsOwn'
    <3>1. tests.running = 0 /\ \A k \in Hands : stage[k] \notin {"fetch", "train", "upload"}
      BY <2>1, <2>3, NothingOccupies
    <3>2. QED
      BY <2>1, <3>1 DEF OneHasIt, FlagIsItsOwn, Occupied, Occupying
  <2>4. QED
    BY <2>1, <2>2, <2>3 DEF MachineInv, ToldIsAsked
<1>3. CASE TestEnds
  <2>1. /\ UNCHANGED <<stage, hand, told, stopAsked, shared, abandoned>> /\ ~testing'
        /\ tests'.running = tests.running - 1 /\ tests.running > 0
        /\ ~current'.running /\ current'.stop = current.stop
    BY <1>3 DEF TestEnds, outsideVars
  <2>2. tests.running \in Nat
    BY AgentAssumption
  <2>3. ASSUME ~shared', OneHasIt, FlagIsItsOwn
        PROVE  OneHasIt' /\ FlagIsItsOwn'
    <3>1. tests'.running = 0 /\ \A k \in Hands : ~Occupying(k)
      BY <2>1, <2>2, <2>3 DEF OneHasIt
    <3>2. \A k \in Hands : ~Occupying(k)'
      BY <2>1, <3>1 DEF Occupying
    <3>3. QED
      BY <2>1, <2>3, <3>1, <3>2 DEF OneHasIt, FlagIsItsOwn, Occupied
  <2>4. QED
    BY <2>1, <2>3 DEF MachineInv, ToldIsAsked
<1>4. QED
  BY <1>1, <1>2, <1>3 DEF TestStep

LEMMA MachineKept == AgentTypes /\ MachineInv /\ [AgentNext]_agentVars => MachineInv'
<1> SUFFICES ASSUME AgentTypes, MachineInv, [AgentNext]_agentVars
             PROVE  MachineInv'
  OBVIOUS
<1>1. CASE UNCHANGED <<runVars, testVars, stopAsked>>
  BY <1>1 DEF runVars, testVars, MachineInv, OneHasIt, FlagIsItsOwn, ToldIsAsked, Occupied,
              Occupying
<1>2. CASE LoopStarts \/ ApprovedStarts
  <2>1. \E h \in Hands : Start(h, Head(queue))
    BY <1>2 DEF LoopStarts, ApprovedStarts, Hands
  <2>2. UNCHANGED testVars /\ UNCHANGED stopAsked
    BY <1>2 DEF LoopStarts, ApprovedStarts
  <2>3. QED
    BY <2>1, <2>2, MachineAtStart
<1>3. CASE Restart
  <2>1. /\ \A k \in Hands : stage'[k] = "free" /\ ~told'[k]
        /\ tests'.running = 0 /\ ~testing' /\ ~current'.running
    BY <1>3 DEF Restart, NothingCurrent
  <2>2. QED
    BY <2>1 DEF MachineInv, OneHasIt, FlagIsItsOwn, ToldIsAsked, Occupied, Occupying
<1>4. ASSUME NEW j \in AgentJobs, StopAsked(j)
      PROVE  MachineInv'
  <2>1. UNCHANGED <<runVars, testVars>> /\ stopAsked \subseteq stopAsked'
    BY <1>4 DEF StopAsked
  <2>2. QED
    BY <2>1 DEF runVars, testVars, MachineInv, OneHasIt, FlagIsItsOwn, ToldIsAsked, Occupied,
                Occupying
<1>5. CASE \E h \in Hands : RunStep(h)
  BY <1>5, MachineOfRun
<1>6. CASE TestStep
  BY <1>6, MachineOfTest
<1>7. \/ UNCHANGED <<runVars, testVars, stopAsked>> \/ LoopStarts \/ ApprovedStarts \/ Restart
      \/ \E j \in AgentJobs : StopAsked(j)
      \/ \E h \in Hands : RunStep(h)
      \/ TestStep
  <2>1. CASE LoopStep
    BY <2>1 DEF LoopStep, LoopClaims, LoopPeeks, LoopExpires, LoopRefused, LoopNothing,
                LoopOffers, LoopExpired, outsideVars
  <2>2. CASE OwnerStep
    BY <2>2 DEF OwnerStep, Approve, ApprovedRefused, ApprovedNothing, Decline, outsideVars
  <2>3. CASE SessionStep
    BY <2>3 DEF SessionStep, HandOver, SendBeat, BeatAnswered, BeatLost, Choose, outsideVars
  <2>4. CASE OutsideStep
    BY <2>4 DEF OutsideStep, Submitted, ComesBack, Withdrawn, TokenRefused, Heats,
                outsideVars
  <2>5. CASE UNCHANGED agentVars
    BY <2>5 DEF agentVars, outsideVars
  <2>6. QED
    BY <2>1, <2>2, <2>3, <2>4, <2>5 DEF AgentNext
<1>8. QED
  BY <1>1, <1>2, <1>3, <1>4, <1>5, <1>6, <1>7

LEMMA MachineAlways == AgentSpec => [](AgentTypes /\ MachineInv)
<1>1. AgentInit => AgentTypes /\ MachineInv
  BY TypesAtFirst DEF AgentInit, NothingCurrent, MachineInv, OneHasIt, FlagIsItsOwn, ToldIsAsked,
     Occupied, Occupying
<1>2. QED
  BY <1>1, TypesKept, MachineKept, PTL DEF AgentSpec

\* The agent says that it is busy exactly while something has the machine, but
\* where two works met or a fetch failed (is_busy).
THEOREM BusyIsOccupiedCorrect == AgentSpec => []BusyIsOccupied
<1>1. AgentTypes /\ MachineInv => BusyIsOccupied
  BY DEF AgentTypes, AgentTypeOK, MachineInv, OneHasIt, BusyIsOccupied, IsBusy, Occupied
<1>2. QED
  BY <1>1, MachineAlways, PTL

\* A run that has the machine to itself is stopped by its own submitter's request
\* and by no flag an earlier job left up (_watch_for_cancel, on_progress).
THEOREM StopIsItsOwnCorrect == AgentSpec => []StopIsItsOwn
<1>1. AgentTypes /\ MachineInv => StopIsItsOwn
  BY DEF MachineInv, FlagIsItsOwn, ToldIsAsked, StopIsItsOwn
<1>2. QED
  BY <1>1, MachineAlways, PTL
=============================================================================
