-------------------------- MODULE PreGroupingProofs --------------------------
(***************************************************************************)
(* Proofs about PreGrouping for every value of its constants: the type    *)
(* invariant and the refinement of the DKG status DAG (DKGStatusSpec).     *)
(***************************************************************************)
EXTENDS TLAPS, PreGrouping

-----------------------------------------------------------------------------
(* The inductive invariant *)

\* While notify runs it handles the task the listener published last.
HandlingInv ==
    pc # "idle" => ev = published /\ published \in 1..Len(tasks)

\* The controller's epoch counter is at least every epoch it emitted, and
\* at most the number of its logs: no two logs name the same group.
EpochInv ==
    /\ \A j \in 1..Len(tasks) : tasks[j].epoch <= groupEpoch[tasks[j].index]
    /\ \A i \in Indexes : groupEpoch[i] <= Len(tasks)

TasksDistinct ==
    \A j, l \in 1..Len(tasks) : tasks[j] = tasks[l] => j = l

\* RunDKG is published only for tasks the listener has published.
RunInv ==
    \A j \in 1..Len(runDKG) : \E l \in 1..published : runDKG[j] = tasks[l]

\* A started current task is still the cached group: nothing but notify
\* changes the cached key, and notify skips a task it has saved.
CurrentRunInv ==
    published >= 1 /\ tasks[published] \in RunTasks =>
        hasGroup /\ Key(group) = tasks[published]

\* What notify has established at each of its awaits.
NotifyInv ==
    /\ pc = "save" => Differs(tasks[ev])
    /\ pc \in {"update", "publish"} =>
           hasGroup /\ Key(group) = tasks[ev] /\ tasks[ev] \notin RunTasks
    /\ pc = "update" => group.status = "None"
    /\ pc = "publish" => group.status = "InPhase"

\* A status past InPhase belongs to a group whose DKG was started.
StatusInv ==
    /\ ~hasGroup => group.status = "None"
    /\ group.status \in {"CommitSuccess", "WaitForPostProcess", "Timeout"} =>
           Key(group) \in RunTasks

IInv ==
    /\ TypeOK
    /\ HandlingInv
    /\ EpochInv
    /\ TasksDistinct
    /\ RunInv
    /\ CurrentRunInv
    /\ NotifyInv
    /\ StatusInv

-----------------------------------------------------------------------------
(* Type correctness *)

LEMMA InitIInv == Init => IInv
<1> SUFFICES ASSUME Init PROVE IInv
  OBVIOUS
<1>1. tasks \in Seq(Task) /\ Len(tasks) <= MaxTasks
  BY PreGroupingAssumption DEF Init
<1>2. group \in [index: Indexes \cup {0}, epoch: 0..MaxTasks, status: Statuses]
  BY PreGroupingAssumption DEF Init, Statuses
<1>3. groupEpoch \in [Indexes -> 0..MaxTasks]
  BY PreGroupingAssumption DEF Init
<1>4. runDKG \in Seq(Task) /\ published \in 0..Len(tasks) /\ ev \in 0..published
  BY DEF Init
<1>5. failures \in 0..MaxFailures
  BY PreGroupingAssumption DEF Init
<1>6. TypeOK
  BY <1>1, <1>2, <1>3, <1>4, <1>5, Zenon DEF Init, TypeOK
<1>7. EpochInv /\ TasksDistinct /\ RunInv
  <2>1. Len(tasks) = 0 /\ Len(runDKG) = 0
    BY DEF Init
  <2>2. \A i \in Indexes : groupEpoch[i] = 0
    BY DEF Init
  <2>3. QED
    BY <2>1, <2>2 DEF EpochInv, TasksDistinct, RunInv
<1>8. RunTasks = {}
  BY DEF Init, RunTasks
<1>9. HandlingInv /\ CurrentRunInv /\ NotifyInv /\ StatusInv
  BY <1>8 DEF Init, HandlingInv, CurrentRunInv, NotifyInv, StatusInv
<1>10. QED
  BY <1>6, <1>7, <1>9 DEF IInv

\* Every action keeps each variable in its type.
LEMMA NextTypeOK == IInv /\ [Next]_vars => TypeOK'
<1> SUFFICES ASSUME IInv, [Next]_vars PROVE TypeOK'
  OBVIOUS
<1> USE PreGroupingAssumption
<1>0. TypeOK /\ EpochInv /\ HandlingInv
  BY DEF IInv
<1>1. ASSUME NEW i \in Indexes, EmitTask(i) PROVE TypeOK'
  <2>0. groupEpoch[i] <= Len(tasks) /\ Len(tasks) < MaxTasks
    BY <1>0, <1>1 DEF EmitTask, EpochInv
  <2>1. groupEpoch[i] + 1 <= MaxTasks
    BY <2>0, <1>0 DEF TypeOK
  <2>2. QED
    BY <1>0, <1>1, <2>1 DEF EmitTask, TypeOK, Task
<1>2. CASE PublishTask
  BY <1>0, <1>2 DEF PublishTask, TypeOK
<1>3. CASE RepublishTask
  BY <1>0, <1>3 DEF RepublishTask, TypeOK
<1>4. CASE Check
  BY <1>0, <1>4 DEF Check, TypeOK
<1>5. CASE SaveTaskInfo
  <2>1. tasks[ev] \in Task
    BY <1>0, <1>5 DEF SaveTaskInfo, HandlingInv, TypeOK
  <2>2. SavedGroup(tasks[ev]) \in [index: Indexes \cup {0}, epoch: 0..MaxTasks,
                                   status: Statuses]
    BY <2>1 DEF SavedGroup, Task, Statuses
  <2>3. CASE group' = SavedGroup(tasks[ev]) /\ hasGroup' = TRUE /\ UNCHANGED failures
    BY <1>0, <1>5, <2>2, <2>3 DEF SaveTaskInfo, TypeOK
  <2>4. CASE CanFail("save_task_info") /\ failures' = failures + 1
             /\ UNCHANGED <<hasGroup, group>>
    BY <1>0, <1>5, <2>4 DEF SaveTaskInfo, CanFail, TypeOK
  <2>5. QED
    BY <1>5, <2>3, <2>4 DEF SaveTaskInfo
<1>6. CASE UpdateDKGStatus
  BY <1>0, <1>6 DEF UpdateDKGStatus, CanFail, TypeOK, Statuses
<1>7. CASE PublishRunDKG
  <2>1. tasks[ev] \in Task
    BY <1>0, <1>7 DEF PublishRunDKG, HandlingInv, TypeOK
  <2>2. QED
    BY <1>0, <1>7, <2>1 DEF PublishRunDKG, TypeOK
<1>8. ASSUME NEW s \in {"CommitSuccess", "Timeout"}, DKGEnd(s) PROVE TypeOK'
  BY <1>0, <1>8 DEF DKGEnd, TypeOK, Statuses
<1>9. CASE PostProcess
  BY <1>0, <1>9 DEF PostProcess, TypeOK, Statuses
<1>10. CASE UNCHANGED vars
  BY <1>0, <1>10 DEF vars, TypeOK
<1>11. QED
  BY <1>1, <1>2, <1>3, <1>4, <1>5, <1>6, <1>7, <1>8, <1>9, <1>10
     DEF Next, Notify

-----------------------------------------------------------------------------
(* The inductive invariant is preserved *)

\* save_task_info stores exactly the key of the task it is given.
LEMMA SavedKey == \A t \in Task : Key(SavedGroup(t)) = t
  BY DEF Key, SavedGroup, Task

\* notify handles the last published log, which the listener has.
LEMMA NextHandlingInv == IInv /\ [Next]_vars => HandlingInv'
<1> SUFFICES ASSUME IInv, [Next]_vars PROVE HandlingInv'
  OBVIOUS
<1>0. TypeOK /\ HandlingInv
  BY DEF IInv
<1>1. ASSUME NEW i \in Indexes, EmitTask(i) PROVE HandlingInv'
  BY <1>0, <1>1 DEF EmitTask, HandlingInv, TypeOK
<1>2. CASE PublishTask
  BY <1>0, <1>2 DEF PublishTask, HandlingInv, TypeOK
<1>3. CASE RepublishTask
  BY <1>0, <1>3 DEF RepublishTask, HandlingInv, TypeOK
<1>4. CASE Notify
  BY <1>0, <1>4 DEF Notify, Check, SaveTaskInfo, UpdateDKGStatus,
                    PublishRunDKG, HandlingInv
<1>5. ASSUME NEW s \in {"CommitSuccess", "Timeout"}, DKGEnd(s)
      PROVE HandlingInv'
  BY <1>0, <1>5 DEF DKGEnd, HandlingInv
<1>6. CASE PostProcess
  BY <1>0, <1>6 DEF PostProcess, HandlingInv
<1>7. CASE UNCHANGED vars
  BY <1>0, <1>7 DEF vars, HandlingInv
<1>8. QED
  BY <1>1, <1>2, <1>3, <1>4, <1>5, <1>6, <1>7 DEF Next

\* Only the controller's EmitTask touches the logs and the epoch counters,
\* and it emits an epoch above every earlier one of that group.
LEMMA EmitEpochs ==
  ASSUME IInv, NEW i \in Indexes, EmitTask(i)
  PROVE  EpochInv' /\ TasksDistinct'
<1> DEFINE t == [index |-> i, epoch |-> groupEpoch[i] + 1]
<1>0. TypeOK /\ EpochInv /\ TasksDistinct
  BY DEF IInv
<1>1. tasks' = Append(tasks, t) /\ groupEpoch' = [groupEpoch EXCEPT ![i] = @ + 1]
  BY DEF EmitTask
<1>2. Len(tasks') = Len(tasks) + 1 /\ tasks'[Len(tasks) + 1] = t
      /\ \A j \in 1..Len(tasks) : tasks'[j] = tasks[j]
  BY <1>0, <1>1 DEF TypeOK
<1>3. \A k \in Indexes : groupEpoch'[k] \in Nat /\ groupEpoch'[k] >= groupEpoch[k]
  BY <1>0, <1>1 DEF TypeOK
<1>4. \A j \in 1..Len(tasks) : tasks[j].index \in Indexes
  <2>1. \A j \in 1..Len(tasks) : tasks[j] \in Task
    BY <1>0 DEF TypeOK
  <2>2. QED
    BY <2>1 DEF Task
<1>5. EpochInv'
  <2>1. ASSUME NEW j \in 1..Len(tasks')
        PROVE  tasks'[j].epoch <= groupEpoch'[tasks'[j].index]
    <3>1. CASE j \in 1..Len(tasks)
      <4>1. tasks[j].epoch <= groupEpoch[tasks[j].index]
        BY <1>0, <3>1 DEF EpochInv
      <4>2. tasks[j] \in Task
        BY <1>0, <3>1 DEF TypeOK
      <4>3. tasks[j].epoch \in Nat /\ tasks[j].index \in Indexes
        BY <4>2 DEF Task
      <4>4. groupEpoch[tasks[j].index] \in Nat
            /\ groupEpoch'[tasks[j].index] \in Nat
            /\ groupEpoch'[tasks[j].index] >= groupEpoch[tasks[j].index]
        BY <1>0, <1>3, <4>3 DEF TypeOK
      <4>5. QED
        BY <1>2, <3>1, <4>1, <4>3, <4>4
    <3>2. CASE j = Len(tasks) + 1
      BY <1>0, <1>1, <1>2, <3>2 DEF TypeOK
    <3>3. QED
      BY <1>0, <1>2, <3>1, <3>2 DEF TypeOK
  <2>2. \A k \in Indexes : groupEpoch'[k] <= Len(tasks')
    BY <1>0, <1>1, <1>2 DEF EpochInv, TypeOK
  <2>3. QED
    BY <2>1, <2>2 DEF EpochInv
<1>6. \A l \in 1..Len(tasks) : tasks[l] # t
  BY <1>0, <1>4 DEF EpochInv, TypeOK
<1>7. TasksDistinct'
  BY <1>0, <1>2, <1>6 DEF TasksDistinct
<1>8. QED
  BY <1>5, <1>7

LEMMA NextEpochs == IInv /\ [Next]_vars => EpochInv' /\ TasksDistinct'
<1> SUFFICES ASSUME IInv, [Next]_vars PROVE EpochInv' /\ TasksDistinct'
  OBVIOUS
<1>0. EpochInv /\ TasksDistinct
  BY DEF IInv
<1>1. CASE \E i \in Indexes : EmitTask(i)
  BY <1>1, EmitEpochs
<1>2. CASE UNCHANGED <<tasks, groupEpoch>>
  BY <1>0, <1>2 DEF EpochInv, TasksDistinct
<1>3. QED
  BY <1>1, <1>2 DEF Next, vars, PublishTask, RepublishTask, Notify, Check,
                    SaveTaskInfo, UpdateDKGStatus, PublishRunDKG, DKGEnd,
                    PostProcess

\* The elements of the logs and of the RunDKG history are tasks.
LEMMA TaskElems ==
  ASSUME TypeOK
  PROVE  /\ \A j \in 1..Len(tasks) : tasks[j] \in Task
         /\ \A j \in 1..Len(runDKG) : runDKG[j] \in Task
  BY DEF TypeOK

\* Publishing RunDKG for a task adds exactly that task to RunTasks.
LEMMA RunTasksAppend ==
  ASSUME TypeOK, NEW x \in Task, runDKG' = Append(runDKG, x)
  PROVE  RunTasks' = RunTasks \cup {x}
<1>1. Len(runDKG') = Len(runDKG) + 1 /\ runDKG'[Len(runDKG) + 1] = x
      /\ \A j \in 1..Len(runDKG) : runDKG'[j] = runDKG[j]
  BY DEF TypeOK
<1>2. RunTasks' \subseteq RunTasks \cup {x}
  BY <1>1 DEF RunTasks, TypeOK
<1>3. RunTasks \cup {x} \subseteq RunTasks'
  BY <1>1 DEF RunTasks, TypeOK
<1>4. QED
  BY <1>2, <1>3

\* RunDKG is published only for the log notify handles, which is published.
LEMMA NextRunInv == IInv /\ [Next]_vars => RunInv'
<1> SUFFICES ASSUME IInv, [Next]_vars PROVE RunInv'
  OBVIOUS
<1>0. TypeOK /\ HandlingInv /\ RunInv
  BY DEF IInv
<1>1. ASSUME NEW i \in Indexes, EmitTask(i) PROVE RunInv'
  <2>1. \A l \in 1..published : tasks'[l] = tasks[l]
    BY <1>0, <1>1 DEF EmitTask, TypeOK
  <2>2. ASSUME NEW j \in 1..Len(runDKG')
        PROVE  \E l \in 1..published' : runDKG'[j] = tasks'[l]
    <3>1. runDKG' = runDKG /\ published' = published
      BY <1>1 DEF EmitTask
    <3>2. PICK l \in 1..published : runDKG[j] = tasks[l]
      BY <1>0, <2>2, <3>1 DEF RunInv
    <3>3. QED
      BY <2>1, <3>1, <3>2
  <2>3. QED
    BY <2>2 DEF RunInv
<1>2. CASE PublishTask
  BY <1>0, <1>2 DEF PublishTask, RunInv, TypeOK
<1>3. CASE PublishRunDKG
  <2>1. ev = published /\ published \in 1..Len(tasks) /\ tasks[ev] \in Task
    BY <1>0, <1>3, TaskElems DEF PublishRunDKG, HandlingInv
  <2>2. Len(runDKG') = Len(runDKG) + 1 /\ runDKG'[Len(runDKG) + 1] = tasks[ev]
        /\ \A j \in 1..Len(runDKG) : runDKG'[j] = runDKG[j]
    BY <1>0, <1>3, <2>1 DEF PublishRunDKG, TypeOK
  <2>3. QED
    BY <1>0, <1>3, <2>1, <2>2 DEF PublishRunDKG, RunInv, TypeOK
<1>4. CASE UNCHANGED <<tasks, published, runDKG>>
  BY <1>0, <1>4 DEF RunInv
<1>5. QED
  BY <1>1, <1>2, <1>3, <1>4
     DEF Next, vars, RepublishTask, Notify, Check, SaveTaskInfo,
         UpdateDKGStatus, DKGEnd, PostProcess

\* A task notify is about to save has not been started: were it started,
\* it would still be the cached group and the guard would have skipped it.
LEMMA SaveNotStarted ==
  ASSUME IInv, pc = "save"
  PROVE  tasks[ev] \notin RunTasks
<1>1. ev = published /\ published \in 1..Len(tasks)
  BY DEF IInv, HandlingInv
<1>2. Differs(tasks[ev])
  BY DEF IInv, NotifyInv
<1>3. SUFFICES ASSUME tasks[ev] \in RunTasks PROVE FALSE
  OBVIOUS
<1>4. hasGroup /\ Key(group) = tasks[published]
  BY <1>1, <1>3 DEF IInv, CurrentRunInv
<1>5. QED
  BY <1>1, <1>2, <1>4 DEF Differs, CacheIndex, CacheEpoch, Key

\* The status steps of the DKG pipeline leave the cached key alone.
LEMMA StatusStepKeepsKey ==
  ASSUME TypeOK, NEW st, group' = [group EXCEPT !.status = st]
  PROVE  Key(group') = Key(group)
  BY DEF TypeOK, Key

\* A log the listener publishes next has not been started.
LEMMA NextLogNotStarted ==
  ASSUME IInv, published < Len(tasks)
  PROVE  tasks[published + 1] \notin RunTasks
<1>0. TypeOK /\ TasksDistinct /\ RunInv
  BY DEF IInv
<1>1. SUFFICES ASSUME NEW j \in 1..Len(runDKG), runDKG[j] = tasks[published + 1]
               PROVE  FALSE
  BY DEF RunTasks
<1>2. PICK l \in 1..published : runDKG[j] = tasks[l]
  BY <1>0, <1>1 DEF RunInv
<1>3. l \in 1..Len(tasks) /\ published + 1 \in 1..Len(tasks) /\ l # published + 1
  BY <1>0, <1>2 DEF TypeOK
<1>4. QED
  BY <1>0, <1>1, <1>2, <1>3 DEF TasksDistinct

LEMMA NextCurrentRunInv == IInv /\ [Next]_vars => CurrentRunInv'
<1> SUFFICES ASSUME IInv, [Next]_vars PROVE CurrentRunInv'
  OBVIOUS
<1>0. TypeOK /\ HandlingInv /\ CurrentRunInv /\ NotifyInv
  BY DEF IInv
<1>1. ASSUME NEW i \in Indexes, EmitTask(i) PROVE CurrentRunInv'
  <2>1. published >= 1 => tasks'[published] = tasks[published]
    BY <1>0, <1>1 DEF EmitTask, TypeOK
  <2>2. QED
    BY <1>0, <1>1, <2>1 DEF EmitTask, CurrentRunInv, RunTasks
<1>2. CASE PublishTask
  <2>1. tasks[published + 1] \notin RunTasks
    BY <1>2, NextLogNotStarted DEF PublishTask
  <2>2. QED
    BY <1>2, <2>1 DEF PublishTask, CurrentRunInv, RunTasks
<1>3. CASE RepublishTask \/ Check
  BY <1>0, <1>3 DEF RepublishTask, Check, CurrentRunInv, RunTasks
<1>4. CASE SaveTaskInfo
  <2>1. ev = published /\ published \in 1..Len(tasks) /\ tasks[ev] \in Task
    BY <1>0, <1>4, TaskElems DEF SaveTaskInfo, HandlingInv
  <2>2. CASE hasGroup' = TRUE /\ group' = SavedGroup(tasks[ev])
    BY <1>4, <2>1, <2>2, SavedKey DEF SaveTaskInfo, CurrentRunInv, RunTasks
  <2>3. CASE UNCHANGED <<hasGroup, group>>
    BY <1>0, <1>4, <2>3 DEF SaveTaskInfo, CurrentRunInv, RunTasks
  <2>4. QED
    BY <1>4, <2>2, <2>3 DEF SaveTaskInfo
<1>5. CASE UpdateDKGStatus
  <2>1. Key(group') = Key(group)
    BY <1>0, <1>5, StatusStepKeepsKey DEF UpdateDKGStatus
  <2>2. QED
    BY <1>0, <1>5, <2>1 DEF UpdateDKGStatus, CurrentRunInv, RunTasks
<1>6. CASE PublishRunDKG
  <2>1. ev = published /\ published \in 1..Len(tasks) /\ tasks[ev] \in Task
    BY <1>0, <1>6, TaskElems DEF PublishRunDKG, HandlingInv
  <2>2. RunTasks' = RunTasks \cup {tasks[ev]}
    BY <1>0, <1>6, <2>1, RunTasksAppend DEF PublishRunDKG
  <2>3. hasGroup /\ Key(group) = tasks[ev]
    BY <1>0, <1>6 DEF PublishRunDKG, NotifyInv
  <2>4. QED
    BY <1>0, <1>6, <2>1, <2>2, <2>3 DEF PublishRunDKG, CurrentRunInv
<1>7. ASSUME NEW s \in {"CommitSuccess", "Timeout"}, DKGEnd(s)
      PROVE CurrentRunInv'
  <2>1. Key(group') = Key(group)
    BY <1>0, <1>7, StatusStepKeepsKey DEF DKGEnd
  <2>2. QED
    BY <1>0, <1>7, <2>1 DEF DKGEnd, CurrentRunInv, RunTasks
<1>8. CASE PostProcess
  <2>1. Key(group') = Key(group)
    BY <1>0, <1>8, StatusStepKeepsKey DEF PostProcess
  <2>2. QED
    BY <1>0, <1>8, <2>1 DEF PostProcess, CurrentRunInv, RunTasks
<1>9. CASE UNCHANGED vars
  BY <1>0, <1>9 DEF vars, CurrentRunInv, RunTasks
<1>10. QED
  BY <1>1, <1>2, <1>3, <1>4, <1>5, <1>6, <1>7, <1>8, <1>9 DEF Next, Notify

LEMMA NextNotifyInv == IInv /\ [Next]_vars => NotifyInv'
<1> SUFFICES ASSUME IInv, [Next]_vars PROVE NotifyInv'
  OBVIOUS
<1>0. TypeOK /\ HandlingInv /\ NotifyInv
  BY DEF IInv
<1>1. ASSUME NEW i \in Indexes, EmitTask(i) PROVE NotifyInv'
  <2>1. pc # "idle" => tasks'[ev] = tasks[ev]
    BY <1>0, <1>1 DEF EmitTask, HandlingInv, TypeOK
  <2>2. QED
    BY <1>0, <1>1, <2>1 DEF EmitTask, NotifyInv, RunTasks, Differs,
                            CacheIndex, CacheEpoch
<1>2. CASE PublishTask \/ RepublishTask
  BY <1>2 DEF PublishTask, RepublishTask, NotifyInv
<1>3. CASE Check
  BY <1>0, <1>3 DEF Check, NotifyInv, Differs, CacheIndex, CacheEpoch
<1>4. CASE SaveTaskInfo
  <2>1. tasks[ev] \in Task /\ tasks[ev] \notin RunTasks
    BY <1>0, <1>4, TaskElems, SaveNotStarted DEF SaveTaskInfo, HandlingInv
  <2>2. CASE hasGroup' = TRUE /\ group' = SavedGroup(tasks[ev]) /\ pc' = "update"
    <3>1. Key(group') = tasks[ev] /\ group'.status = "None"
      BY <2>1, <2>2, SavedKey DEF SavedGroup
    <3>2. QED
      BY <1>4, <2>1, <2>2, <3>1 DEF SaveTaskInfo, NotifyInv, RunTasks
  <2>3. CASE pc' = "idle"
    BY <2>3 DEF NotifyInv
  <2>4. QED
    BY <1>4, <2>2, <2>3 DEF SaveTaskInfo
<1>5. CASE UpdateDKGStatus
  <2>1. CASE group' = [group EXCEPT !.status = "InPhase"]
             /\ pc' = IF group.status # "InPhase" THEN "publish" ELSE "idle"
    <3>1. Key(group') = Key(group) /\ group'.status = "InPhase"
      BY <1>0, <2>1, StatusStepKeepsKey DEF TypeOK
    <3>2. QED
      BY <1>0, <1>5, <2>1, <3>1 DEF UpdateDKGStatus, NotifyInv, RunTasks
  <2>2. CASE pc' = "idle"
    BY <2>2 DEF NotifyInv
  <2>3. QED
    BY <1>5, <2>1, <2>2 DEF UpdateDKGStatus
<1>6. CASE PublishRunDKG
  BY <1>6 DEF PublishRunDKG, NotifyInv
<1>7. ASSUME NEW s \in {"CommitSuccess", "Timeout"}, DKGEnd(s)
      PROVE NotifyInv'
  <2>1. pc \notin {"update", "publish"}
    BY <1>0, <1>7 DEF DKGEnd, NotifyInv
  <2>2. Differs(tasks[ev])' = Differs(tasks[ev])
    BY <1>0, <1>7 DEF DKGEnd, TypeOK, Differs, CacheIndex, CacheEpoch
  <2>3. QED
    BY <1>0, <1>7, <2>1, <2>2 DEF DKGEnd, NotifyInv
<1>8. CASE PostProcess
  <2>1. pc \notin {"update", "publish"}
    BY <1>0, <1>8 DEF PostProcess, NotifyInv
  <2>2. Differs(tasks[ev])' = Differs(tasks[ev])
    BY <1>0, <1>8 DEF PostProcess, TypeOK, Differs, CacheIndex, CacheEpoch
  <2>3. QED
    BY <1>0, <1>8, <2>1, <2>2 DEF PostProcess, NotifyInv
<1>9. CASE UNCHANGED vars
  BY <1>0, <1>9 DEF vars, NotifyInv, RunTasks, Differs, CacheIndex, CacheEpoch
<1>10. QED
  BY <1>1, <1>2, <1>3, <1>4, <1>5, <1>6, <1>7, <1>8, <1>9 DEF Next, Notify

LEMMA NextStatusInv == IInv /\ [Next]_vars => StatusInv'
<1> SUFFICES ASSUME IInv, [Next]_vars PROVE StatusInv'
  OBVIOUS
<1>0. TypeOK /\ HandlingInv /\ NotifyInv /\ StatusInv
  BY DEF IInv
<1>1. CASE UNCHANGED <<hasGroup, group, runDKG>>
  BY <1>0, <1>1 DEF StatusInv, RunTasks
<1>2. CASE SaveTaskInfo
  <2>1. CASE hasGroup' = TRUE /\ group' = SavedGroup(tasks[ev]) /\ UNCHANGED runDKG
    BY <2>1 DEF StatusInv, SavedGroup
  <2>2. QED
    BY <1>1, <1>2, <2>1 DEF SaveTaskInfo
<1>3. CASE UpdateDKGStatus
  <2>1. CASE group' = [group EXCEPT !.status = "InPhase"]
    BY <1>0, <1>3, <2>1 DEF UpdateDKGStatus, NotifyInv, StatusInv, TypeOK
  <2>2. QED
    BY <1>1, <1>3, <2>1 DEF UpdateDKGStatus
<1>4. CASE PublishRunDKG
  <2>1. tasks[ev] \in Task
    BY <1>0, <1>4, TaskElems DEF PublishRunDKG, HandlingInv
  <2>2. RunTasks \subseteq RunTasks'
    BY <1>0, <1>4, <2>1, RunTasksAppend DEF PublishRunDKG
  <2>3. QED
    BY <1>0, <1>4, <2>2 DEF PublishRunDKG, StatusInv
<1>5. ASSUME NEW s \in {"CommitSuccess", "Timeout"}, DKGEnd(s)
      PROVE StatusInv'
  <2>1. Key(group') = Key(group) /\ group'.status = s
    BY <1>0, <1>5, StatusStepKeepsKey DEF DKGEnd, TypeOK
  <2>2. QED
    BY <1>5, <2>1 DEF DKGEnd, StatusInv, RunTasks
<1>6. CASE PostProcess
  <2>1. Key(group') = Key(group)
        /\ group'.status \in {"WaitForPostProcess", "None"}
    BY <1>0, <1>6, StatusStepKeepsKey DEF PostProcess, TypeOK
  <2>2. QED
    BY <1>0, <1>6, <2>1 DEF PostProcess, StatusInv, RunTasks
<1>7. QED
  BY <1>1, <1>2, <1>3, <1>4, <1>5, <1>6
     DEF Next, vars, EmitTask, PublishTask, RepublishTask, Notify, Check

LEMMA NextIInv == IInv /\ [Next]_vars => IInv'
<1> SUFFICES ASSUME IInv, [Next]_vars PROVE IInv'
  OBVIOUS
<1>1. QED
  BY NextTypeOK, NextHandlingInv, NextEpochs, NextRunInv, NextCurrentRunInv,
     NextNotifyInv, NextStatusInv DEF IInv

\* IInv holds in every reachable state, for all values of the constants.
THEOREM IInvInvariant == Spec => []IInv
<1>1. Init => IInv
  BY InitIInv
<1>2. IInv /\ [Next]_vars => IInv'
  BY NextIInv
<1>3. QED
  BY <1>1, <1>2, PTL DEF Spec

\* Every variable of notify, the group cache and the controller keeps its
\* type: in particular notify only indexes logs the listener has.
THEOREM TypeCorrect == Spec => []TypeOK
<1>1. IInv => TypeOK
  BY DEF IInv
<1>2. QED
  BY <1>1, IInvInvariant, PTL

-----------------------------------------------------------------------------
(* Refinement of the DKG status DAG *)

LEMMA InitRefines == Init => DS!Init
  BY DEF Init, DS!Init, AbsKey, AbsStatus

\* A step that leaves the cached group and the started tasks alone is a
\* stutter of DKGStatusSpec.
LEMMA SameGroupStutters ==
  ASSUME UNCHANGED <<hasGroup, group, runDKG>>
  PROVE  UNCHANGED <<AbsKey, AbsStatus>>
  BY DEF AbsKey, AbsStatus, RunTasks

\* save_task_info replaces the cached group by another one, at None.
LEMMA SaveRefines ==
  ASSUME IInv, SaveTaskInfo, hasGroup' = TRUE, group' = SavedGroup(tasks[ev])
  PROVE  \E k \in Task : DS!Regroup(k)
<1>0. TypeOK /\ HandlingInv /\ NotifyInv
  BY DEF IInv
<1>1. tasks[ev] \in Task /\ tasks[ev] \notin RunTasks /\ Differs(tasks[ev])
  BY <1>0, TaskElems, SaveNotStarted DEF SaveTaskInfo, HandlingInv, NotifyInv
<1>2. tasks[ev] # AbsKey
  BY <1>0, <1>1 DEF Differs, CacheIndex, CacheEpoch, AbsKey, Key, Task
<1>3. Key(group') = tasks[ev] /\ group'.status = "None"
  BY <1>1, SavedKey DEF SavedGroup
<1>4. AbsKey' = tasks[ev] /\ AbsStatus' = "None"
  BY <1>1, <1>3 DEF SaveTaskInfo, AbsKey, AbsStatus, RunTasks
<1>5. QED
  BY <1>1, <1>2, <1>3, <1>4 DEF DS!Regroup

LEMMA RefineStep == IInv /\ [Next]_vars => [DS!Next]_<<AbsKey, AbsStatus>>
<1> SUFFICES ASSUME IInv, [Next]_vars PROVE [DS!Next]_<<AbsKey, AbsStatus>>
  OBVIOUS
<1>0. TypeOK /\ HandlingInv /\ NotifyInv /\ StatusInv
  BY DEF IInv
<1>1. CASE UNCHANGED <<hasGroup, group, runDKG>>
  BY <1>1, SameGroupStutters
<1>2. CASE SaveTaskInfo
  <2>1. CASE hasGroup' = TRUE /\ group' = SavedGroup(tasks[ev])
    BY <1>2, <2>1, SaveRefines DEF DS!Next
  <2>2. QED
    BY <1>1, <1>2, <2>1 DEF SaveTaskInfo
<1>3. CASE UpdateDKGStatus
  <2>1. CASE group' = [group EXCEPT !.status = "InPhase"]
    <3>1. hasGroup /\ Key(group) = tasks[ev] /\ tasks[ev] \notin RunTasks
          /\ group.status = "None"
      BY <1>0, <1>3 DEF UpdateDKGStatus, NotifyInv
    <3>2. Key(group') = Key(group) /\ group'.status = "InPhase"
      BY <1>0, <2>1, StatusStepKeepsKey DEF TypeOK
    <3>3. AbsStatus = "None" /\ AbsStatus' = "InPhase" /\ AbsKey' = AbsKey
      BY <1>3, <3>1, <3>2 DEF UpdateDKGStatus, AbsStatus, AbsKey, RunTasks
    <3>4. QED
      BY <3>3 DEF DS!Next, DS!Advance, DS!Succ, DS!Statuses
  <2>2. QED
    BY <1>1, <1>3, <2>1 DEF UpdateDKGStatus
<1>4. CASE PublishRunDKG
  <2>1. hasGroup /\ group.status = "InPhase"
    BY <1>0, <1>4 DEF PublishRunDKG, NotifyInv
  <2>2. QED
    BY <1>4, <2>1 DEF PublishRunDKG, AbsKey, AbsStatus
<1>5. ASSUME NEW s \in {"CommitSuccess", "Timeout"}, DKGEnd(s)
      PROVE [DS!Next]_<<AbsKey, AbsStatus>>
  <2>1. Key(group') = Key(group) /\ group'.status = s
    BY <1>0, <1>5, StatusStepKeepsKey DEF DKGEnd, TypeOK
  <2>2. AbsStatus = "InPhase" /\ AbsStatus' = s /\ AbsKey' = AbsKey
    BY <1>5, <2>1 DEF DKGEnd, AbsStatus, AbsKey
  <2>3. QED
    BY <2>2 DEF DS!Next, DS!Advance, DS!Succ, DS!Statuses
<1>6. CASE PostProcess
  <2>1. Key(group') = Key(group) /\ Key(group) \in RunTasks
    BY <1>0, <1>6, StatusStepKeepsKey DEF PostProcess, StatusInv
  <2>2. CASE group.status = "CommitSuccess"
    <3>1. AbsStatus = "CommitSuccess" /\ AbsStatus' = "WaitForPostProcess"
          /\ AbsKey' = AbsKey
      BY <1>0, <1>6, <2>1, <2>2 DEF PostProcess, AbsStatus, AbsKey, TypeOK
    <3>2. QED
      BY <3>1 DEF DS!Next, DS!Advance, DS!Succ, DS!Statuses
  <2>3. CASE group.status = "WaitForPostProcess"
    <3>1. AbsStatus = "WaitForPostProcess" /\ AbsStatus' = "Done"
          /\ AbsKey' = AbsKey
      BY <1>0, <1>6, <2>1, <2>3 DEF PostProcess, AbsStatus, AbsKey, TypeOK,
                                    RunTasks
    <3>2. QED
      BY <3>1 DEF DS!Next, DS!Advance, DS!Succ, DS!Statuses
  <2>4. QED
    BY <1>6, <2>2, <2>3 DEF PostProcess
<1>7. QED
  BY <1>1, <1>2, <1>3, <1>4, <1>5, <1>6
     DEF Next, vars, EmitTask, PublishTask, RepublishTask, Notify, Check

\* PreGrouping implements DKGStatusSpec under the mapping AbsKey/AbsStatus:
\* notify, redelivered NewDKGTask events, database errors at either `?` and
\* the DKG pipeline only ever move the cached group's status along the DAG,
\* and replace the cached group only by a group with another key.
THEOREM Refinement == Spec => ImplementsDKGStatus
<1>1. Init => DS!Init
  BY InitRefines
<1>2. IInv /\ [Next]_vars => [DS!Next]_<<AbsKey, AbsStatus>>
  BY RefineStep
<1>3. QED
  BY <1>1, <1>2, IInvInvariant, PTL DEF Spec, ImplementsDKGStatus, DS!Spec

=============================================================================
