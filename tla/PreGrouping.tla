----------------------------- MODULE PreGrouping -----------------------------
(***************************************************************************)
(* PreGroupingSubscriber::notify, the handler of NewDKGTask, between the   *)
(* controller's DKGTask logs and the DKG it starts.                        *)
(*                                                                         *)
(*  - The controller emits DKGTask logs for this node; each regrouping of  *)
(*    a group increments its epoch (spec 3, glossary "Epoch").             *)
(*  - The PreGrouping listener publishes a NewDKGTask per log and, since   *)
(*    delivery is at least once, may publish the current task again       *)
(*    (spec 4.1, 4.2).  The queue dispatches synchronously: one notify at *)
(*    a time, run to completion or to its first error, which is logged   *)
(*    and dropped.                                                         *)
(*  - notify reads the cached (index, epoch), unwrap_or(0) when the cache  *)
(*    holds no group, and when the task differs it saves the task info,    *)
(*    sets the status to InPhase and, if that changed it, publishes RunDKG.*)
(*    Each of the two group-cache writes may fail (a database error); the  *)
(*    `?` returns at once.                                                 *)
(*  - The DKG pipeline then moves the status on (spec 4.3): DKG success or *)
(*    Timeout, then post-processing.  update_dkg_status names the group    *)
(*    it updates, so a step for a group no longer cached changes nothing.  *)
(***************************************************************************)
EXTENDS Naturals, Sequences

CONSTANTS
    Indexes,       \* group indices the controller may assign this node to
    MaxTasks,      \* bound on the DKGTask logs emitted
    MaxFailures,   \* bound on the database errors of the group cache
    FailingCalls   \* which writes may fail: "save_task_info", "update_dkg_status"

ASSUME PreGroupingAssumption ==
    /\ Indexes \subseteq Nat /\ Indexes # {}
    /\ MaxTasks \in Nat
    /\ MaxFailures \in Nat
    /\ FailingCalls \subseteq {"save_task_info", "update_dkg_status"}

VARIABLES
    tasks,      \* the DKGTask logs emitted so far, in order
    published,  \* how many of them the listener has published
    ev,         \* the log whose NewDKGTask notify is handling (0: none)
    pc,         \* where notify is: "idle", "check", "save", "update", "publish"
    hasGroup,   \* the group cache holds a group
    group,      \* its index, epoch and dkg_status
    runDKG,     \* the RunDKG events published, in order
    failures,   \* database errors so far
    groupEpoch  \* the controller's epoch counter of each group index

vars == <<tasks, published, ev, pc, hasGroup, group, runDKG, failures, groupEpoch>>

Task == [index: Indexes, epoch: 1..MaxTasks]

Statuses == {"None", "InPhase", "CommitSuccess", "WaitForPostProcess", "Timeout"}

Key(g) == [index |-> g.index, epoch |-> g.epoch]

\* The tasks whose DKG has been started.
RunTasks == {runDKG[j] : j \in 1..Len(runDKG)}

\* A write of the group cache fails with a database error.
CanFail(call) == call \in FailingCalls /\ failures < MaxFailures

-----------------------------------------------------------------------------
(* The group cache (GroupInfoFetcher / GroupInfoUpdater).                 *)

\* get_index().unwrap_or(0) and get_epoch().unwrap_or(0).
CacheIndex == IF hasGroup THEN group.index ELSE 0

CacheEpoch == IF hasGroup THEN group.epoch ELSE 0

\* Mutant: the task fields are stored the other way round.
SavedGroupSwapped(t) == [index |-> t.epoch, epoch |-> t.index, status |-> "None"]

\* save_task_info(self_index, dkg_task): the cache now holds the task's
\* group, with no DKG run yet.
SavedGroup(t) == [index |-> t.index, epoch |-> t.epoch, status |-> "None"]

\* Mutant: the comparison is dropped.
DiffersAlways(t) == TRUE

\* cache_index != task_group_index || cache_epoch != task_epoch
Differs(t) == CacheIndex # t.index \/ CacheEpoch # t.epoch

-----------------------------------------------------------------------------

Init ==
    /\ tasks = <<>>
    /\ published = 0
    /\ ev = 0
    /\ pc = "idle"
    /\ hasGroup = FALSE
    /\ group = [index |-> 0, epoch |-> 0, status |-> "None"]
    /\ runDKG = <<>>
    /\ failures = 0
    /\ groupEpoch = [i \in Indexes |-> 0]

\* The controller assigns this node to group i at its next epoch.
EmitTask(i) ==
    /\ Len(tasks) < MaxTasks
    /\ groupEpoch' = [groupEpoch EXCEPT ![i] = @ + 1]
    /\ tasks' = Append(tasks, [index |-> i, epoch |-> groupEpoch[i] + 1])
    /\ UNCHANGED <<published, ev, pc, hasGroup, group, runDKG, failures>>

\* The listener publishes NewDKGTask for the next log; the queue calls notify.
PublishTask ==
    /\ pc = "idle"
    /\ published < Len(tasks)
    /\ published' = published + 1
    /\ ev' = published + 1
    /\ pc' = "check"
    /\ UNCHANGED <<tasks, hasGroup, group, runDKG, failures, groupEpoch>>

\* The listener publishes the current task once more (at-least-once).
RepublishTask ==
    /\ pc = "idle"
    /\ published > 0
    /\ ev' = published
    /\ pc' = "check"
    /\ UNCHANGED <<tasks, published, hasGroup, group, runDKG, failures, groupEpoch>>

\* notify reads the cached index and epoch and compares them with the task.
Check ==
    /\ pc = "check"
    /\ pc' = IF Differs(tasks[ev]) THEN "save" ELSE "idle"
    /\ UNCHANGED <<tasks, published, ev, hasGroup, group, runDKG, failures, groupEpoch>>

\* group_cache.write().save_task_info(self_index, dkg_task)?
SaveTaskInfo ==
    /\ pc = "save"
    /\ \/ /\ hasGroup' = TRUE
          /\ group' = SavedGroup(tasks[ev])
          /\ pc' = "update"
          /\ UNCHANGED failures
       \/ /\ CanFail("save_task_info")
          /\ failures' = failures + 1
          /\ pc' = "idle"
          /\ UNCHANGED <<hasGroup, group>>
    /\ UNCHANGED <<tasks, published, ev, runDKG, groupEpoch>>

\* group_cache.write().update_dkg_status(index, epoch, InPhase)?; RunDKG is
\* published only when the status changed.  The group it names is the one
\* save_task_info has just stored: only notify changes the cached key.
UpdateDKGStatus ==
    /\ pc = "update"
    /\ \/ /\ group' = [group EXCEPT !.status = "InPhase"]
          /\ pc' = IF group.status # "InPhase" THEN "publish" ELSE "idle"
          /\ UNCHANGED failures
       \/ /\ CanFail("update_dkg_status")
          /\ failures' = failures + 1
          /\ pc' = "idle"
          /\ UNCHANGED group
    /\ UNCHANGED <<tasks, published, ev, hasGroup, runDKG, groupEpoch>>

\* self.publish(RunDKG { dkg_task }).
PublishRunDKG ==
    /\ pc = "publish"
    /\ runDKG' = Append(runDKG, tasks[ev])
    /\ pc' = "idle"
    /\ UNCHANGED <<tasks, published, ev, hasGroup, group, failures, groupEpoch>>

\* The DKG started for the cached group ends: on success the DKGSuccess
\* event sets CommitSuccess, on failure the runner sets Timeout.
DKGEnd(s) ==
    /\ hasGroup
    /\ group.status = "InPhase"
    /\ Key(group) \in RunTasks
    /\ group' = [group EXCEPT !.status = s]
    /\ UNCHANGED <<tasks, published, ev, pc, hasGroup, runDKG, failures, groupEpoch>>

\* DKGPostProcess: WaitForPostProcess, then None once confirmed.
PostProcess ==
    /\ hasGroup
    /\ group.status \in {"CommitSuccess", "WaitForPostProcess"}
    /\ group' = [group EXCEPT !.status = IF group.status = "CommitSuccess"
                                           THEN "WaitForPostProcess" ELSE "None"]
    /\ UNCHANGED <<tasks, published, ev, pc, hasGroup, runDKG, failures, groupEpoch>>

Notify == Check \/ SaveTaskInfo \/ UpdateDKGStatus \/ PublishRunDKG

Next ==
    \/ \E i \in Indexes : EmitTask(i)
    \/ PublishTask \/ RepublishTask
    \/ Notify
    \/ \E s \in {"CommitSuccess", "Timeout"} : DKGEnd(s)
    \/ PostProcess

Spec == Init /\ [][Next]_vars

\* A generous environment, used only to show that the pipeline can stay
\* stuck even under it: every log is published, the current task is
\* published again and again while nothing else is, and notify runs to
\* completion.  Spec 4.1 promises at-least-once delivery, not redelivery
\* of a task whose handler failed (the error is only logged), so the
\* RepublishTask fairness is stronger than the code gives.  The
\* controller, the database errors and the DKG get no fairness.
Fairness ==
    /\ SF_vars(PublishTask)
    /\ WF_vars(RepublishTask)
    /\ WF_vars(Notify)

FairSpec == Spec /\ Fairness

-----------------------------------------------------------------------------
(* Properties *)

TypeOK ==
    /\ tasks \in Seq(Task) /\ Len(tasks) <= MaxTasks
    /\ published \in 0..Len(tasks)
    /\ ev \in 0..published
    /\ pc \in {"idle", "check", "save", "update", "publish"}
    /\ hasGroup \in BOOLEAN
    /\ group \in [index: Indexes \cup {0}, epoch: 0..MaxTasks, status: Statuses]
    /\ runDKG \in Seq(Task)
    /\ failures \in 0..MaxFailures
    /\ groupEpoch \in [Indexes -> 0..MaxTasks]

\* Every DKG task the controller emits is eventually started (RunDKG is
\* published for it) unless a later task supersedes it: the spec's promise
\* that the pipeline heals from a failed step when it re-evaluates the
\* state on the next event, which notify's early `?` returns must keep.
TaskEventuallyRun ==
    \A k \in 1..MaxTasks :
        Len(tasks) >= k ~> (Len(tasks) > k \/ (Len(tasks) = k /\ tasks[k] \in RunTasks))

\* The refinement mapping: the cached group's key, and its status with the
\* None of a group whose DKG was started and post-processed read as Done.
AbsKey == IF hasGroup THEN Key(group) ELSE [index |-> 0, epoch |-> 0]

AbsStatus ==
    IF hasGroup /\ group.status = "None" /\ Key(group) \in RunTasks
      THEN "Done" ELSE group.status

DS == INSTANCE DKGStatusSpec
        WITH Keys <- Task, NoKey <- [index |-> 0, epoch |-> 0],
             key <- AbsKey, status <- AbsStatus

\* The cached group's status moves only along the spec's DAG, and a
\* (group_index, epoch) replaces the cached group only when it is another
\* group: a NewDKGTask delivered again never restarts or resets a DKG.
ImplementsDKGStatus == DS!Spec

=============================================================================
