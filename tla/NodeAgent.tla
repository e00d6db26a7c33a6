------------------------------ MODULE NodeAgent ------------------------------
(* The agent on a contributor's machine (backend/node.py): its session, the
   poll loop that claims jobs or shows them to the owner, the owner's answers,
   the runs, the self test and the heartbeat.  They are coroutines of one event
   loop: a step lasts from one await to the next, and everything they share
   (node_info, current_task, pending_approval, self_test) may be changed by
   another one in between.  The coordinator is the environment: the queue of
   the jobs that wait for this machine, oldest first, the tokens it rejects and
   the jobs whose submitter asked for a stop. *)
EXTENDS Naturals, Sequences, SequencesExt

CONSTANTS
  AgentJobs,      \* the jobs that may come to this machine
  NoWork,         \* no job: an empty current task, offer or hand
  SelfTest,       \* what the current task is while the owner tests the machine
  AgentTokens,    \* bound: session tokens handed over in a behaviour
  AgentRestarts,  \* bound: restarts of the agent
  AgentTests      \* bound: self tests asked for

ASSUME AgentAssumption ==
  /\ NoWork \notin AgentJobs /\ SelfTest \notin AgentJobs /\ NoWork # SelfTest
  /\ AgentTokens \in Nat /\ AgentRestarts \in Nat /\ AgentTests \in Nat

VARIABLES
  token,      \* node_info["session_token"], 0 when there is none
  mode,       \* node_info["approval_mode"]
  disk,       \* the session file
  choice,     \* the mode the owner chose last, "lost" since a restart without a
              \* session (history)
  issued,     \* tokens handed over so far
  refusedTokens, \* tokens the coordinator no longer accepts
  beat,       \* token of the heartbeat in flight, 0 when none is
  loop,       \* the poll loop: where it waits, with which token
  click,      \* the owner's approval in flight, with its token
  offer,      \* pending_approval
  answered,   \* what the owner answered to the last offer (history)
  hand,       \* the job each runner has: the poll loop's, and an approved one's
  stage,      \* where that run is
  told,       \* its watcher saw the request to stop, and returned
  current,    \* current_task
  tests,      \* the self test requests that wait for their body, and those that run
  testing,    \* self_test["running"]
  shared,     \* some work started while other work had the machine (history)
  abandoned,  \* the last work failed before it trained (history)
  queue,      \* the jobs that wait for this machine at the coordinator
  unseen,     \* jobs not submitted yet
  stopAsked,  \* jobs whose submitter asked for a stop
  tooHot,     \* a card is at the temperature that stops work
  restarts, asks

sessionVars == <<token, mode, disk, choice, issued, refusedTokens, beat, restarts>>
offerVars == <<click, offer, answered>>
runVars == <<hand, stage, told, current, shared, abandoned>>
testVars == <<tests, testing, asks>>
outsideVars == <<queue, unseen, stopAsked, tooHot>>
agentVars == <<sessionVars, loop, offerVars, runVars, testVars, outsideVars>>

Hands == {"loop", "owner"}
Modes == {"auto", "ask"}
Stages == {"free", "fetch", "train", "upload", "report"}
Tokens == 0..AgentTokens
Waits == [at : {"idle", "claim", "peek", "expire", "run"}, token : Tokens]
Idle == [at |-> "idle", token |-> 0]
At(place) == [at |-> place, token |-> token]

AgentTypeOK ==
  /\ token \in Tokens /\ issued \in Tokens /\ beat \in Tokens
  /\ mode \in Modes /\ choice \in Modes \cup {"lost"}
  /\ disk \in [token : Tokens, mode : Modes]
  /\ refusedTokens \subseteq Tokens
  /\ loop \in Waits /\ click \in Waits
  /\ offer \in AgentJobs \cup {NoWork}
  /\ answered \subseteq {"approved", "declined"}
  /\ hand \in [Hands -> AgentJobs \cup {NoWork}]
  /\ stage \in [Hands -> Stages]
  /\ told \in [Hands -> BOOLEAN]
  /\ current \in [work : AgentJobs \cup {NoWork, SelfTest}, running : BOOLEAN, stop : BOOLEAN]
  /\ tests \in [reading : 0..AgentTests, running : 0..AgentTests]
  /\ testing \in BOOLEAN /\ shared \in BOOLEAN /\ abandoned \in BOOLEAN /\ tooHot \in BOOLEAN
  /\ queue \in Seq(AgentJobs)
  /\ unseen \subseteq AgentJobs /\ stopAsked \subseteq AgentJobs
  /\ restarts \in 0..AgentRestarts /\ asks \in 0..AgentTests

NothingCurrent == [work |-> NoWork, running |-> FALSE, stop |-> FALSE]

AgentInit ==
  /\ token = 0 /\ mode = "auto" /\ disk = [token |-> 0, mode |-> "auto"]
  /\ choice = "auto" /\ issued = 0 /\ refusedTokens = {} /\ beat = 0
  /\ loop = Idle /\ click = Idle /\ offer = NoWork /\ answered = {}
  /\ hand = [h \in Hands |-> NoWork] /\ stage = [h \in Hands |-> "free"]
  /\ told = [h \in Hands |-> FALSE]
  /\ current = NothingCurrent
  /\ tests = [reading |-> 0, running |-> 0] /\ testing = FALSE
  /\ shared = FALSE /\ abandoned = FALSE
  /\ queue = <<>> /\ unseen = AgentJobs /\ stopAsked = {} /\ tooHot = FALSE
  /\ restarts = 0 /\ asks = 0

-----------------------------------------------------------------------------
(* The coordinator's side, as far as this machine sees it. *)

\* A job leaves the queue, if it is in it.
Leaves(j) == \E i \in DOMAIN queue : queue[i] = j /\ queue' = RemoveAt(queue, i)

\* A job is submitted to this machine; one moved here from another machine keeps
\* its age, so it may also appear in front.
Submitted(j) ==
  /\ j \in unseen
  /\ unseen' = unseen \ {j}
  /\ queue' \in {Append(queue, j), <<j>> \o queue}
  /\ UNCHANGED <<sessionVars, loop, offerVars, runVars, testVars, stopAsked, tooHot>>

\* A job that was here is written back to the queue, whatever became of it: the
\* sweep requeues one that runs for too long, a report that nobody answered also
\* one that was claimed, or ended, since it was shown.
ComesBack(j) ==
  /\ j \notin unseen \cup ToSet(queue)
  /\ queue' \in {Append(queue, j), <<j>> \o queue}
  /\ UNCHANGED <<sessionVars, loop, offerVars, runVars, testVars, unseen, stopAsked, tooHot>>

\* A waiting job is cancelled, or moved to another machine.
Withdrawn(j) ==
  /\ Leaves(j)
  /\ UNCHANGED <<sessionVars, loop, offerVars, runVars, testVars, unseen, stopAsked, tooHot>>

\* The submitter of a running job asks for a stop.
StopAsked(j) ==
  /\ \E h \in Hands : hand[h] = j
  /\ stopAsked' = stopAsked \cup {j}
  /\ UNCHANGED <<sessionVars, loop, offerVars, runVars, testVars, queue, unseen, tooHot>>

\* A token runs out, or the coordinator restarts with another secret.
TokenRefused(t) ==
  /\ t \in 1..issued
  /\ refusedTokens' = refusedTokens \cup {t}
  /\ UNCHANGED <<token, mode, disk, choice, issued, beat, restarts, loop, offerVars,
                 runVars, testVars, outsideVars>>

\* A card reaches that temperature, or cools down.
Heats ==
  /\ tooHot' = ~tooHot
  /\ UNCHANGED <<sessionVars, loop, offerVars, runVars, testVars, queue, unseen, stopAsked>>

-----------------------------------------------------------------------------
(* The session. *)

\* (mutant) only the token is written.
SavedToken(t, m) == disk' = [disk EXCEPT !.token = t]

\* save_session: what memory holds now goes to the file.
Saved(t, m) == disk' = [token |-> t, mode |-> m]

\* store_node_session: the browser hands over a token.
HandOver ==
  /\ issued < AgentTokens
  /\ issued' = issued + 1
  /\ token' = issued + 1
  /\ Saved(issued + 1, mode)
  /\ UNCHANGED <<mode, choice, refusedTokens, beat, restarts, loop, offerVars,
                 runVars, testVars, outsideVars>>

\* set_approval_mode.
Choose(m) ==
  /\ m # mode \/ m # choice
  /\ mode' = m /\ choice' = m
  /\ Saved(token, m)
  /\ UNCHANGED <<token, issued, refusedTokens, beat, restarts, loop, offerVars,
                 runVars, testVars, outsideVars>>

\* send_heartbeat_once, until it waits for the answer (bound: one at a time).
SendBeat ==
  /\ beat = 0 /\ token # 0
  /\ beat' = token
  /\ UNCHANGED <<token, mode, disk, choice, issued, refusedTokens, restarts, loop, offerVars,
                 runVars, testVars, outsideVars>>

\* (mutant) the status of the answer is not looked at.
BeatUnread ==
  /\ beat # 0
  /\ beat' = 0
  /\ UNCHANGED <<token, mode, disk, choice, issued, refusedTokens, restarts, loop, offerVars,
                 runVars, testVars, outsideVars>>

\* The answer: a rejected token is dropped, whichever token there is by now.
BeatAnswered ==
  /\ beat # 0
  /\ beat' = 0
  /\ IF beat \in refusedTokens
     THEN token' = 0 /\ Saved(0, mode)
     ELSE UNCHANGED <<token, disk>>
  /\ UNCHANGED <<mode, choice, issued, refusedTokens, restarts, loop, offerVars,
                 runVars, testVars, outsideVars>>

\* No answer within the timeout.
BeatLost ==
  /\ beat # 0
  /\ beat' = 0
  /\ UNCHANGED <<token, mode, disk, choice, issued, refusedTokens, restarts, loop, offerVars,
                 runVars, testVars, outsideVars>>

\* The agent restarts.  load_session restores a file that has a token; without
\* one it returns before it looks at the mode.
Restart ==
  /\ restarts < AgentRestarts
  /\ restarts' = restarts + 1
  /\ token' = disk.token
  /\ IF disk.token # 0 THEN mode' = disk.mode /\ UNCHANGED choice
                       ELSE mode' = "auto" /\ choice' = "lost"
  /\ beat' = 0 /\ loop' = Idle /\ click' = Idle /\ offer' = NoWork
  /\ hand' = [h \in Hands |-> NoWork] /\ stage' = [h \in Hands |-> "free"]
  /\ told' = [h \in Hands |-> FALSE]
  /\ current' = NothingCurrent /\ shared' = FALSE /\ abandoned' = FALSE
  /\ tests' = [reading |-> 0, running |-> 0] /\ testing' = FALSE
  /\ UNCHANGED <<disk, issued, refusedTokens, answered, asks, outsideVars>>

-----------------------------------------------------------------------------
(* Runs.  Both runners write the one current task. *)

\* What has the machine: a run before its result is packed and sent, a test.
Occupying(h) == stage[h] \in {"fetch", "train", "upload"}
Occupied == tests.running > 0 \/ \E h \in Hands : Occupying(h)
IsBusy == current.running \/ testing

\* (mutant) the current task is updated without being cleared.
UpdateOnly(w) ==
  /\ current' = [current EXCEPT !.work = w, !.running = TRUE]
  /\ shared' = Occupied
  /\ abandoned' = FALSE

\* The current task is replaced; what it says of other work is lost.
Replace(w) ==
  /\ current' = [work |-> w, running |-> TRUE, stop |-> FALSE]
  /\ shared' = Occupied
  /\ abandoned' = FALSE

\* _run_task up to its first await.
Start(h, j) ==
  /\ hand' = [hand EXCEPT ![h] = j]
  /\ stage' = [stage EXCEPT ![h] = "fetch"]
  /\ told' = [told EXCEPT ![h] = FALSE]
  /\ Replace(j)

\* The dataset and the starting weights are there, if the job has any.
Fetched(h) ==
  /\ stage[h] = "fetch"
  /\ stage' = [stage EXCEPT ![h] = "train"]
  /\ UNCHANGED <<hand, told, current, shared, abandoned, sessionVars, loop, offerVars, testVars,
                 outsideVars>>

\* One of them is not, or is not readable: the job is reported failed, and the
\* current task is left as it is.
FetchFailed(h) ==
  /\ stage[h] = "fetch"
  /\ stage' = [stage EXCEPT ![h] = "report"]
  /\ abandoned' = TRUE
  /\ UNCHANGED <<hand, told, current, shared, sessionVars, loop, offerVars, testVars,
                 outsideVars>>

\* _watch_for_cancel raises the flag of the current task, whosever it is, and
\* returns.
Watch(h) ==
  /\ stage[h] = "train" /\ ~told[h] /\ hand[h] \in stopAsked
  /\ told' = [told EXCEPT ![h] = TRUE]
  /\ current' = [current EXCEPT !.stop = TRUE]
  /\ UNCHANGED <<hand, stage, shared, abandoned, sessionVars, loop, offerVars, testVars,
                 outsideVars>>

\* execute_task returns or raises, on its own or because on_progress saw the
\* flag: in each case the watcher is cancelled and the weights are sent.
Trained(h) ==
  /\ stage[h] = "train"
  /\ stage' = [stage EXCEPT ![h] = "upload"]
  /\ UNCHANGED <<hand, told, current, shared, abandoned, sessionVars, loop, offerVars, testVars,
                 outsideVars>>

\* (mutant) the end of a run is not written on the current task.
UploadedSilently(h) ==
  /\ stage[h] = "upload"
  /\ stage' = [stage EXCEPT ![h] = "report"]
  /\ UNCHANGED <<hand, told, current, shared, abandoned, sessionVars, loop, offerVars, testVars,
                 outsideVars>>

\* The weights were sent or could not be: the current task is over.
Uploaded(h) ==
  /\ stage[h] = "upload"
  /\ stage' = [stage EXCEPT ![h] = "report"]
  /\ current' = [current EXCEPT !.running = FALSE]
  /\ UNCHANGED <<hand, told, shared, abandoned, sessionVars, loop, offerVars, testVars,
                 outsideVars>>

\* _report_result, whose failure is only logged; the poll loop goes on polling.
ReportSent(h) ==
  /\ stage[h] = "report"
  /\ hand' = [hand EXCEPT ![h] = NoWork]
  /\ stage' = [stage EXCEPT ![h] = "free"]
  /\ loop' = IF h = "loop" THEN Idle ELSE loop
  /\ UNCHANGED <<told, current, shared, abandoned, sessionVars, offerVars, testVars,
                 outsideVars>>

-----------------------------------------------------------------------------
(* The poll loop. *)

\* A pass that finds no session, a test or a card too hot is over before it looks
\* at the mode: it claims nothing, shows nothing and hands nothing back.
MayPoll == loop.at = "idle" /\ token # 0 /\ ~testing /\ ~tooHot

\* claim_and_run_one_task asks for a job.
LoopClaims ==
  /\ MayPoll /\ mode = "auto"
  /\ loop' = At("claim")
  /\ UNCHANGED <<sessionVars, offerVars, runVars, testVars, outsideVars>>

\* _handle_approval_mode asks for a look at the next one.
LoopPeeks ==
  /\ MayPoll /\ mode = "ask" /\ offer = NoWork
  /\ loop' = At("peek")
  /\ UNCHANGED <<sessionVars, offerVars, runVars, testVars, outsideVars>>

\* The owner did not answer in time: the job is handed back first, and the
\* offer withdrawn when that call is over.
LoopExpires ==
  /\ MayPoll /\ mode = "ask" /\ offer # NoWork
  /\ loop' = At("expire")
  /\ UNCHANGED <<sessionVars, offerVars, runVars, testVars, outsideVars>>

\* _fetch_next_task drops a rejected token, and does not save that.
Dropped == token' = 0 /\ UNCHANGED <<mode, disk, choice, issued, refusedTokens, beat, restarts>>

LoopRefused ==
  /\ loop.at \in {"claim", "peek"} /\ loop.token \in refusedTokens
  /\ loop' = Idle
  /\ Dropped
  /\ UNCHANGED <<offerVars, runVars, testVars, outsideVars>>

\* There is no job, or the call failed.
LoopNothing ==
  /\ loop.at \in {"claim", "peek"}
  /\ loop' = Idle
  /\ UNCHANGED <<sessionVars, offerVars, runVars, testVars, outsideVars>>

LoopStarts ==
  /\ loop.at = "claim" /\ loop.token \notin refusedTokens /\ queue # <<>>
  /\ queue' = Tail(queue)
  /\ loop' = [loop EXCEPT !.at = "run"]
  /\ Start("loop", Head(queue))
  /\ UNCHANGED <<sessionVars, offerVars, testVars, unseen, stopAsked, tooHot>>

LoopOffers ==
  /\ loop.at = "peek" /\ loop.token \notin refusedTokens /\ queue # <<>>
  /\ offer' = Head(queue)
  /\ answered' = {}
  /\ loop' = Idle
  /\ UNCHANGED <<sessionVars, click, runVars, testVars, outsideVars>>

\* (mutant) the job is handed back, and stays on offer.
ExpiredButOffered ==
  /\ loop.at = "expire"
  /\ loop' = Idle
  /\ UNCHANGED <<offer, sessionVars, click, answered, runVars, testVars, outsideVars>>

\* The call is over, and the offer withdrawn whatever came of it: the coordinator
\* may have written the job back to the queue (ComesBack), or not have heard.
LoopExpired ==
  /\ loop.at = "expire"
  /\ loop' = Idle
  /\ offer' = NoWork
  /\ UNCHANGED <<sessionVars, click, answered, runVars, testVars, outsideVars>>

-----------------------------------------------------------------------------
(* The owner's answers. *)

\* (mutant) the offer is cleared when the call is over, as where it expires.
AnswerThenClear(word) ==
  /\ offer # NoWork /\ token # 0
  /\ UNCHANGED offer
  /\ answered' = answered \cup {word}

\* The check and the clearing are one step of the event loop.
Answer(word) ==
  /\ offer # NoWork /\ token # 0
  /\ offer' = NoWork
  /\ answered' = answered \cup {word}

\* approve_task, up to the claim; one approved job at a time (bound).
Approve ==
  /\ click = Idle /\ stage["owner"] = "free"
  /\ Answer("approved")
  /\ click' = At("claim")
  /\ UNCHANGED <<sessionVars, loop, runVars, testVars, outsideVars>>

\* The claim is answered with the oldest job there is by now.
ApprovedStarts ==
  /\ click.at = "claim" /\ click.token \notin refusedTokens /\ queue # <<>>
  /\ queue' = Tail(queue)
  /\ click' = Idle
  /\ Start("owner", Head(queue))
  /\ UNCHANGED <<sessionVars, loop, offer, answered, testVars, unseen, stopAsked, tooHot>>

ApprovedRefused ==
  /\ click.at = "claim" /\ click.token \in refusedTokens
  /\ click' = Idle
  /\ Dropped
  /\ UNCHANGED <<loop, offer, answered, runVars, testVars, outsideVars>>

\* There is no job any more, or the call failed.
ApprovedNothing ==
  /\ click.at = "claim"
  /\ click' = Idle
  /\ UNCHANGED <<sessionVars, loop, offer, answered, runVars, testVars, outsideVars>>

\* decline_task; the coordinator moves or ends the job (Withdrawn), if the call
\* reaches it.
Decline ==
  /\ Answer("declined")
  /\ UNCHANGED <<click, sessionVars, loop, runVars, testVars, outsideVars>>

-----------------------------------------------------------------------------
(* The self test. *)

\* run_self_test checks that the machine is free, then waits for the body.
AskTest ==
  /\ ~IsBusy
  /\ asks < AgentTests /\ asks' = asks + 1
  /\ tests' = [tests EXCEPT !.reading = @ + 1]
  /\ UNCHANGED <<testing, sessionVars, loop, offerVars, runVars, outsideVars>>

\* There is a body, and it is refused: one that parses too, since five values are
\* taken as three.
TestRejected ==
  /\ tests.reading > 0
  /\ tests' = [tests EXCEPT !.reading = @ - 1]
  /\ UNCHANGED <<testing, asks, sessionVars, loop, offerVars, runVars, outsideVars>>

\* The body is empty: the test starts without a second look.
TestStarts ==
  /\ tests.reading > 0
  /\ tests' = [reading |-> tests.reading - 1, running |-> tests.running + 1]
  /\ testing' = TRUE
  /\ Replace(SelfTest)
  /\ UNCHANGED <<asks, hand, stage, told, sessionVars, loop, offerVars, outsideVars>>

\* It ends, at its last step, at the owner's request or when the time is up.
TestEnds ==
  /\ tests.running > 0
  /\ tests' = [tests EXCEPT !.running = @ - 1]
  /\ testing' = FALSE
  /\ current' = [current EXCEPT !.running = FALSE]
  /\ UNCHANGED <<asks, hand, stage, told, shared, abandoned, sessionVars, loop, offerVars,
                 outsideVars>>

-----------------------------------------------------------------------------
LoopStep ==
  \/ LoopClaims \/ LoopPeeks \/ LoopExpires
  \/ LoopRefused \/ LoopNothing \/ LoopStarts \/ LoopOffers \/ LoopExpired
RunStep(h) ==
  \/ Fetched(h) \/ FetchFailed(h) \/ Watch(h) \/ Trained(h) \/ Uploaded(h) \/ ReportSent(h)
OwnerStep ==
  \/ Approve \/ ApprovedStarts \/ ApprovedRefused \/ ApprovedNothing \/ Decline
TestStep == AskTest \/ TestRejected \/ TestStarts \/ TestEnds
SessionStep ==
  \/ HandOver \/ SendBeat \/ BeatAnswered \/ BeatLost \/ Restart
  \/ \E m \in Modes : Choose(m)
OutsideStep ==
  \/ \E j \in AgentJobs : Submitted(j) \/ ComesBack(j) \/ Withdrawn(j) \/ StopAsked(j)
  \/ \E t \in Tokens : TokenRefused(t)
  \/ Heats

AgentNext ==
  \/ LoopStep \/ OwnerStep \/ TestStep \/ SessionStep \/ OutsideStep
  \/ \E h \in Hands : RunStep(h)

AgentSpec == AgentInit /\ [][AgentNext]_agentVars

-----------------------------------------------------------------------------
(* Safety. *)

\* The agent reports itself busy, to the coordinator and to the owner who wants
\* to test the machine, exactly while something has the machine - unless two
\* works met, or the last job failed before it trained: those two leave the
\* current task wrong until the next one (node.py is_busy, _run_task).
BusyIsOccupied == ~shared /\ ~abandoned => (IsBusy <=> Occupied)

\* Where a run has the machine to itself, the stop flag is up exactly when its
\* watcher saw that its own submitter asked: a flag left by another job does not
\* stop it, and a request that was seen is not lost (node.py _watch_for_cancel).
StopIsItsOwn ==
  ~shared => \A h \in Hands :
    /\ told[h] /\ stage[h] = "train" => hand[h] \in stopAsked
    /\ stage[h] = "train" => (current.stop <=> told[h])

\* An offered job is approved or declined by its owner, never both, although
\* two pages may be open and both answers may be in flight (node.py approve_task,
\* decline_task).
OwnerAnswersOnce == answered # {"approved", "declined"}

\* Whether the owner is asked before each job is as the owner chose last, in
\* memory and on disk, through new sessions, rejected tokens and restarts - but not
\* a restart without a session, which turns the asking off (node.py save_session,
\* load_session).
OwnersChoiceIsKept == choice = "lost" \/ (mode = choice /\ disk.mode = choice)

-----------------------------------------------------------------------------
(* Liveness.  The poll loop, the runs and the tests are coroutines that the
   event loop does not starve, and a run or a test ends; the heartbeat is sent
   every minute and is answered now and then.  Nothing makes a card cool down. *)
AgentFairness ==
  /\ WF_agentVars(LoopExpires) /\ WF_agentVars(LoopExpired) /\ WF_agentVars(LoopNothing)
  /\ \A h \in Hands : /\ WF_agentVars(Fetched(h)) /\ WF_agentVars(Trained(h))
                      /\ WF_agentVars(Uploaded(h)) /\ WF_agentVars(ReportSent(h))
  /\ WF_agentVars(TestEnds)
  /\ WF_agentVars(SendBeat) /\ SF_agentVars(BeatAnswered)

AgentFairSpec == AgentSpec /\ AgentFairness

\* A job shown to an owner who never answers does not wait for ever: it is handed
\* back, unless the agent stops asking or has no session - or a card is too hot
\* again and again, since a pass that finds it so does not look at the offer
\* (node.py claim_and_run_one_task, _handle_approval_mode).
OfferIsWithdrawn ==
  \/ []<>tooHot
  \/ \A j \in AgentJobs : offer = j ~> (offer # j \/ mode # "ask" \/ token = 0)

\* A token the coordinator no longer accepts does not stay in use: it is dropped
\* or replaced (node.py send_heartbeat_once).
RefusedTokenGoes ==
  \A t \in 1..AgentTokens : (token = t /\ t \in refusedTokens) ~> token # t
=============================================================================
