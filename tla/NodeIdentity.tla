---------------------------- MODULE NodeIdentity ----------------------------
(* How a machine gets its id and its session: the agent asks the coordinator
   for the id of its public key and registers the key if it gets none
   (backend/node.py finalize_connection, authNodeService, connectionService),
   again and again when a call fails; the coordinator looks the key up and
   writes the row in two steps (routes/nodes.py register_node), for calls the
   agent has given up on as well.  Then the owner's browser proves that it has
   the key (generate_challenge, verify_node_challenge).  One machine, one key. *)
EXTENDS Naturals, FiniteSets

CONSTANTS
  Flows,       \* calls of finalize_connection: two pages, or a second click
  MaxRetries,  \* max_retries of background_connection_handler
  NodeIds,     \* bound: ids made by uuid4, numbered in the order they are made
  Challenges,  \* bound: challenges generated
  Overlap      \* bound: verifications of one challenge in flight at once

ASSUME IdentityAssumption ==
  /\ NodeIds \in Nat /\ MaxRetries \in Nat \ {0} /\ Challenges \in Nat
  /\ Overlap \in Nat \ {0}

VARIABLES
  rowId,       \* the id in the row of this key, NoId without a row
  nodeId,      \* node_info["node_id"]
  flow,        \* where each flow is, and how often it posted
  made,        \* ids made so far
  posted,      \* calls of register_node at the coordinator, with the id they use
  idsGiven,    \* ids the coordinator answered for this key (history)
  challenge,   \* node_challenges: the number of the outstanding one, 0 for none
  outdated,    \* it is more than two minutes old
  generated,   \* how many challenges there were
  verifying,   \* how many verifications in flight have read each challenge
  tokens       \* how many session tokens each challenge was turned into (history)

identityVars == <<rowId, nodeId, made, flow, posted, idsGiven, challenge, outdated, generated,
                  verifying, tokens>>
challengeVars == <<challenge, outdated, generated, verifying, tokens>>

Places == {"off", "ask", "ask again", "post", "wait", "done", "failed"}
NoId == 0
Ids == 0..NodeIds
Posts == [flow : Flows, try : 1..MaxRetries, at : {"look", "write"}, id : Ids]

IdentityTypeOK ==
  /\ rowId \in Ids /\ nodeId \in Ids /\ made \in Ids
  /\ flow \in [Flows -> [at : Places, tries : 0..MaxRetries]]
  /\ posted \subseteq Posts
  /\ idsGiven \subseteq 1..NodeIds
  /\ challenge \in 0..Challenges /\ generated \in 0..Challenges
  /\ outdated \in BOOLEAN
  /\ verifying \in [1..Challenges -> 0..Overlap] /\ tokens \in [1..Challenges -> Nat]
  /\ \A p \in posted : p.at = "write" => p.id # NoId

IdentityInit ==
  /\ rowId = NoId /\ nodeId = NoId /\ made = 0
  /\ flow = [f \in Flows |-> [at |-> "off", tries |-> 0]]
  /\ posted = {} /\ idsGiven = {}
  /\ challenge = 0 /\ outdated = FALSE /\ generated = 0
  /\ verifying = [c \in 1..Challenges |-> 0] /\ tokens = [c \in 1..Challenges |-> 0]

-----------------------------------------------------------------------------
Goes(f, place) == flow' = [flow EXCEPT ![f].at = place]

\* finalize_connection is called.
Connect(f) ==
  /\ flow[f].at = "off"
  /\ Goes(f, "ask")
  /\ UNCHANGED <<rowId, nodeId, made, posted, idsGiven, challengeVars>>

\* find_node_id_by_public_key answers with the id of the row.
Found(f) ==
  /\ flow[f].at \in {"ask", "ask again"} /\ rowId # NoId
  /\ Goes(f, "done")
  /\ nodeId' = rowId
  /\ idsGiven' = idsGiven \cup {rowId}
  /\ UNCHANGED <<rowId, made, posted, challengeVars>>

\* There is none, or the coordinator cannot be reached: it is asked once more by
\* trigger_background_connection, which then forgets the id it had.
NotFound(f) ==
  /\ flow[f].at \in {"ask", "ask again"}
  /\ IF flow[f].at = "ask" THEN Goes(f, "ask again") /\ UNCHANGED nodeId
                           ELSE Goes(f, "post") /\ nodeId' = NoId
  /\ UNCHANGED <<rowId, made, posted, idsGiven, challengeVars>>

\* background_connection_handler posts the registration.
Post(f) ==
  LET n == flow[f].tries + 1
  IN /\ flow[f].at = "post"
     /\ flow' = [flow EXCEPT ![f] = [at |-> "wait", tries |-> n]]
     /\ posted' = posted \cup {[flow |-> f, try |-> n, at |-> "look", id |-> NoId]}
     /\ UNCHANGED <<rowId, nodeId, made, idsGiven, challengeVars>>

\* (mutant) after the last attempt it goes on waiting.
AgainOrWait(f) ==
  IF flow[f].tries < MaxRetries THEN Goes(f, "post") ELSE UNCHANGED flow

\* It got no answer, or an error: another attempt, or the last one failed.
Again(f) ==
  IF flow[f].tries < MaxRetries THEN Goes(f, "post") ELSE Goes(f, "failed")

TimedOut(f) ==
  /\ flow[f].at = "wait"
  /\ Again(f)
  /\ UNCHANGED <<rowId, nodeId, made, posted, idsGiven, challengeVars>>

\* A call that never reached the coordinator.
PostLost(p) ==
  /\ p.at = "look"
  /\ posted' = posted \ {p}
  /\ UNCHANGED <<rowId, nodeId, made, flow, idsGiven, challengeVars>>

\* register_node looks the key up, and makes an id of its own if it is new ...
LookUp(p) ==
  LET write(id) == (posted \ {p}) \cup {[p EXCEPT !.at = "write", !.id = id]}
  IN /\ p.at = "look"
     /\ IF rowId # NoId
        THEN posted' = write(rowId) /\ UNCHANGED made
        ELSE made < NodeIds /\ made' = made + 1 /\ posted' = write(made + 1)
     /\ UNCHANGED <<rowId, nodeId, flow, idsGiven, challengeVars>>

\* What became of the answer: the agent may wait for it, or have given up.
Answered(p, ok) ==
  /\ posted' = posted \ {p}
  /\ \/ /\ flow[p.flow] = [at |-> "wait", tries |-> p.try]
        /\ IF ok THEN Goes(p.flow, "done") /\ nodeId' = p.id
                 ELSE Again(p.flow) /\ UNCHANGED nodeId
     \/ UNCHANGED <<flow, nodeId>>

\* (mutant) the upsert puts the new id over the one of the other call.
WriteOver(p) ==
  /\ p.at = "write"
  /\ rowId' = p.id
  /\ idsGiven' = idsGiven \cup {p.id}
  /\ Answered(p, TRUE)
  /\ UNCHANGED <<made, challengeVars>>

\* ... and upserts the row of that id; a second id of the key breaks the unique
\* index, which is an error 500.
WriteRow(p) ==
  /\ p.at = "write"
  /\ IF rowId \in {NoId, p.id}
     THEN rowId' = p.id /\ idsGiven' = idsGiven \cup {p.id} /\ Answered(p, TRUE)
     ELSE Answered(p, FALSE) /\ UNCHANGED <<rowId, idsGiven>>
  /\ UNCHANGED <<made, challengeVars>>

-----------------------------------------------------------------------------
\* generate_challenge: the one before is replaced.
Generate ==
  /\ rowId # NoId /\ generated < Challenges
  /\ generated' = generated + 1 /\ challenge' = generated + 1 /\ outdated' = FALSE
  /\ UNCHANGED <<rowId, nodeId, made, flow, posted, idsGiven, verifying, tokens>>

\* Two minutes pass.
Outdate ==
  /\ challenge # 0 /\ outdated' = TRUE
  /\ UNCHANGED <<rowId, nodeId, made, flow, posted, idsGiven, challenge, generated, verifying, tokens>>

\* verify_node_challenge reads the challenge, and waits for the row.
VerifyReads ==
  /\ challenge # 0 /\ ~outdated
  /\ verifying[challenge] < Overlap
  /\ verifying' = [verifying EXCEPT ![challenge] = @ + 1]
  /\ UNCHANGED <<rowId, nodeId, made, flow, posted, idsGiven, challenge, outdated, generated, tokens>>

\* One of the verifications that read the challenge goes on.
Resumes(c) == verifying[c] > 0 /\ verifying' = [verifying EXCEPT ![c] = @ - 1]

\* (mutant) the challenge stays after it was answered.
VerifiedOnly(c) ==
  /\ Resumes(c)
  /\ tokens' = [tokens EXCEPT ![c] = @ + 1]
  /\ UNCHANGED <<rowId, nodeId, made, flow, posted, idsGiven, challenge, outdated, generated>>

\* The signature fits: whatever challenge is outstanding is dropped, and a token
\* is issued, also for one that another verification was given a token for.
Verified(c) ==
  /\ Resumes(c)
  /\ tokens' = [tokens EXCEPT ![c] = @ + 1]
  /\ challenge' = 0 /\ outdated' = FALSE
  /\ UNCHANGED <<rowId, nodeId, made, flow, posted, idsGiven, generated>>

\* It does not: the challenge may be answered again.
NotVerified(c) ==
  /\ Resumes(c)
  /\ UNCHANGED <<rowId, nodeId, made, flow, posted, idsGiven, challenge, outdated, generated, tokens>>

\* cleanup_expired_challenges, every minute.
Cleanup ==
  /\ outdated
  /\ challenge' = 0 /\ outdated' = FALSE
  /\ UNCHANGED <<rowId, nodeId, made, flow, posted, idsGiven, generated, verifying, tokens>>

-----------------------------------------------------------------------------
FlowStep(f) == Connect(f) \/ Found(f) \/ NotFound(f) \/ Post(f) \/ TimedOut(f)
PostStep(p) == PostLost(p) \/ LookUp(p) \/ WriteRow(p)
ChallengeStep ==
  \/ Generate \/ Outdate \/ VerifyReads \/ Cleanup
  \/ \E c \in 1..Challenges : Verified(c) \/ NotVerified(c)
IdentityNext ==
  \/ \E f \in Flows : FlowStep(f)
  \/ \E p \in posted : PostStep(p)
  \/ ChallengeStep

IdentitySpec == IdentityInit /\ [][IdentityNext]_identityVars
\* Every wait has a timeout.
IdentityFairness ==
  \A f \in Flows : WF_identityVars(NotFound(f)) /\ WF_identityVars(Post(f))
                   /\ WF_identityVars(TimedOut(f))
IdentityFairSpec == IdentitySpec /\ IdentityFairness

-----------------------------------------------------------------------------
\* A key keeps its id: whatever calls are lost, repeated or overlap, the
\* coordinator never answers one key with two ids, and the agent has that one or
\* none (nodes.py register_node with the unique index of deps.py).
IdentityIsKept ==
  /\ idsGiven \subseteq {rowId}
  /\ nodeId \in {NoId, rowId}

\* A challenge may be turned into several tokens, by verifications that overlap:
\* each reads it, and waits for the database twice before it drops it.  It is not
\* read again once there is a token for it, so there are never more tokens than
\* verifications that were in flight at once, although they drop a newer
\* challenge with it, refuse signatures and outlive its two minutes (nodes.py
\* generate_challenge, verify_node_challenge).
TokensOfOneRound ==
  \A c \in 1..Challenges : tokens[c] + verifying[c] <= Overlap

\* An owner who connects gets an answer: with the id, or that it failed after the
\* last retry (connectionService.py background_connection_handler).
ConnectEnds ==
  \A f \in Flows : flow[f].at = "ask" ~> flow[f].at \in {"done", "failed"}
=============================================================================
