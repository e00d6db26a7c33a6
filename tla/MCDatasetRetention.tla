------------------------- MODULE MCDatasetRetention -------------------------
(* The instances TLC runs.  The bounds of DatasetRetention multiply, so a run   *)
(* has several parts, of which the first state picks one: a part is the set of  *)
(* the things that occur in it.                                                 *)
EXTENDS DatasetRetention

CONSTANT Parts
VARIABLE part

Within ==
    /\ ("datasets" \notin part) =>    \* one dataset
         \A d \in Data \ {1} : store'[<<d, "upload">>] = "unwritten"
    /\ ("owners" \notin part) =>      \* no submitter has a key
         accounts' = {} /\ \A t \in Job : job'[t].owner = NoOwner
    /\ ("late" \notin part) => late' = {}
    /\ ("restarts" \notin part) => restarts' = 0

PartInit == Init /\ part \in Parts
PartNext == Next /\ Within /\ part' = part
PartSpec == PartInit /\ [][PartNext]_<<vars, part>>

(* No step that is fair is ruled out by a part. *)
FairPartSpec == PartSpec /\ Fairness
=============================================================================
