------------------------------ MODULE JobBoard ------------------------------
(***************************************************************************)
(* What the coordinator promises about its jobs however its handlers       *)
(* interleave: a board on which a job is put up once, for one machine;     *)
(* only the machine it is put up for can take it, and only while it is up; *)
(* each taking is a new attempt; a job pinned to a machine stays there.    *)
(*                                                                         *)
(* It promises no more: an ended job may be put up again (PutUpAgain has   *)
(* no guard on the state), because the code's late writes can do that.     *)
(***************************************************************************)
EXTENDS Naturals

CONSTANTS Job, Machine, Nowhere

VARIABLES
    state,    \* none, up, taken, ended
    place,    \* the machine the job is up for
    pinned,   \* jobs that may not change machine
    attempt   \* how many times the job was taken

board == <<state, place, pinned, attempt>>

Init ==
    /\ state = [j \in Job |-> "none"]
    /\ place = [j \in Job |-> Nowhere]
    /\ pinned = {}
    /\ attempt = [j \in Job |-> 0]

PutUp(j, m, pin) ==
    /\ state[j] = "none"
    /\ state' = [state EXCEPT ![j] = "up"]
    /\ place' = [place EXCEPT ![j] = m]
    /\ pinned' = IF pin THEN pinned \union {j} ELSE pinned
    /\ UNCHANGED attempt

Take(j) ==
    /\ state[j] = "up"
    /\ state' = [state EXCEPT ![j] = "taken"]
    /\ attempt' = [attempt EXCEPT ![j] = @ + 1]
    /\ UNCHANGED <<place, pinned>>

End(j) ==
    /\ state[j] # "none"
    /\ state' = [state EXCEPT ![j] = "ended"]
    /\ UNCHANGED <<place, pinned, attempt>>

PutUpAgain(j, m) ==
    /\ state[j] # "none"
    /\ j \in pinned => m = place[j]
    /\ state' = [state EXCEPT ![j] = "up"]
    /\ place' = [place EXCEPT ![j] = m]
    /\ UNCHANGED <<pinned, attempt>>

Next ==
    \E j \in Job :
       \/ \E m \in Machine : PutUpAgain(j, m) \/ \E pin \in BOOLEAN : PutUp(j, m, pin)
       \/ Take(j)
       \/ End(j)

Spec == Init /\ [][Next]_board

=============================================================================
