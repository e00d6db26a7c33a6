--------------------------- MODULE MCTaskLifecycle ---------------------------
(***************************************************************************)
(* TaskLifecycle on small instances.                                       *)
(***************************************************************************)
EXTENDS TaskLifecycle

(* Liveness is checked of jobs whose submitters do not cancel them: a      *)
(* cancellation only ends a job sooner, and its states are most of them.   *)
UncancelledNext == Submitting \/ Machine \/ Reporting \/ Sweeping

UncancelledFairSpec ==
    /\ Init /\ [][UncancelledNext]_vars
    /\ SweepFairness /\ HandlerFairness
    /\ \A n \in Node : MachineFairness(n)

=============================================================================
