---------------------------- MODULE DKGStatusSpec ----------------------------
(***************************************************************************)
(* What the node promises about the DKG status of the group it caches      *)
(* (spec 3, Group, and spec 8, "DKG status monotonicity"): the cache holds *)
(* one group, identified by (group_index, epoch); a new group starts at    *)
(* None, and the status of a group only moves along                        *)
(*   None -> InPhase -> CommitSuccess -> WaitForPostProcess -> None        *)
(* with Timeout a terminal fork from any non-terminal status.  The last    *)
(* None is a different point of the DAG from the first: a group that has   *)
(* been post-processed is called Done here, and is terminal too.           *)
(***************************************************************************)
CONSTANTS Keys, NoKey

VARIABLES key, status

Statuses == {"None", "InPhase", "CommitSuccess", "WaitForPostProcess",
             "Done", "Timeout"}

\* The edges of the status DAG.
Succ == [s \in Statuses |->
           IF s = "None" THEN {"InPhase", "Timeout"}
           ELSE IF s = "InPhase" THEN {"CommitSuccess", "Timeout"}
           ELSE IF s = "CommitSuccess" THEN {"WaitForPostProcess", "Timeout"}
           ELSE IF s = "WaitForPostProcess" THEN {"Done", "Timeout"}
           ELSE {}]

Init == key = NoKey /\ status = "None"

\* Another group (another index, or the next epoch) replaces the cached one.
Regroup(k) == k # key /\ key' = k /\ status' = "None"

\* The cached group moves one edge along the DAG.
Advance == status' \in Succ[status] /\ UNCHANGED key

Next == (\E k \in Keys : Regroup(k)) \/ Advance

Spec == Init /\ [][Next]_<<key, status>>

=============================================================================
