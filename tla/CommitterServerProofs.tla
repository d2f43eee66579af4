------------------------ MODULE CommitterServerProofs ------------------------
(***************************************************************************)
(* Proofs about CommitterServer for every value of its constants.          *)
(***************************************************************************)
EXTENDS CommitterServer, TLAPS

-----------------------------------------------------------------------------
(* Type correctness *)

\* Some request exists, so the CHOOSE of Init picks a Request.
LEMMA RequestNonEmpty == \E q \in Request : TRUE
<1>1. PICK r \in Requests : TRUE
  BY ConstAssumption
<1>2. [from |-> Self, route |-> [type |-> "Randomness", chain |-> 0],
       index |-> r, msg |-> r, valid |-> TRUE] \in Request
  BY <1>1, ConstAssumption DEF Request, Routes, Messages
<1>3. QED
  BY <1>2

LEMMA InitTypeOK == Init => TypeOK
<1> SUFFICES ASSUME Init PROVE TypeOK
  OBVIOUS
<1>1. (CHOOSE q \in Request : TRUE) \in Request
  BY RequestNonEmpty
<1>2. NoGroup \in Group
  BY ConstAssumption DEF NoGroup, Group, DKGStatus
<1>3. QED
  BY <1>1, <1>2, ConstAssumption DEF Init, TypeOK, Pcs, Replies

\* Every action keeps each variable in its type; AddPartial needs the
\* handler invariant to know that the sender it stores is an address.
LEMMA NextTypeOK == TypeOK /\ HandlerInv /\ [Next]_vars => TypeOK'
<1> SUFFICES ASSUME TypeOK, HandlerInv, [Next]_vars PROVE TypeOK'
  OBVIOUS
<1>1. ASSUME NEW h \in Handlers, NEW q \in Request, Receive(h, q) PROVE TypeOK'
  BY <1>1 DEF Receive, TypeOK, Pcs, Replies
<1>2. ASSUME NEW h \in Handlers, CheckState(h) PROVE TypeOK'
  BY <1>2 DEF CheckState, Goto, Reply, TypeOK, Pcs, Replies
<1>3. ASSUME NEW h \in Handlers, CheckCommitter(h) PROVE TypeOK'
  BY <1>3 DEF CheckCommitter, Goto, Reply, TypeOK, Pcs, Replies
<1>4. ASSUME NEW h \in Handlers, CheckMember(h) PROVE TypeOK'
  BY <1>4 DEF CheckMember, MemberVerdict, Goto, Reply, TypeOK, Pcs, Replies
<1>5. ASSUME NEW h \in Handlers, CheckContains(h) PROVE TypeOK'
  BY <1>5 DEF CheckContains, Goto, Reply, TypeOK, Pcs, Replies
<1>6. ASSUME NEW h \in Handlers, CheckMessage(h) PROVE TypeOK'
  BY <1>6 DEF CheckMessage, MessageVerdict, Goto, Reply, TypeOK, Pcs, Replies
<1>7. ASSUME NEW h \in Handlers, AddPartial(h) PROVE TypeOK'
  <2>1. req[h].from \in Nodes
    BY <1>7 DEF AddPartial, HandlerInv, HoldsGroupRead, TypeOK, Group
  <2> DEFINE q == req[h]
             p == [from |-> q.from, msg |-> q.msg, valid |-> q.valid]
  <2>2. p \in Partial
    BY <2>1 DEF TypeOK, Request, Partial
  <2>3. ASSUME NEW e \in Entry PROVE WithPartial(e, p) \in Entry
    BY <2>2 DEF WithPartial, Entry
  <2>4. cache' \in [Requests -> Entry \cup {NoEntry}]
    BY <1>7, <2>3 DEF AddPartial, TypeOK, HasEntry, Request
  <2>5. QED
    BY <1>7, <2>4 DEF AddPartial, Reply, TypeOK, Pcs, Replies
<1>8. CASE ChainNewDKGTask
  BY <1>8, ConstAssumption DEF ChainNewDKGTask, TypeOK
<1>9. CASE PreGroupingSaveTask
  BY <1>9, ConstAssumption DEF PreGroupingSaveTask, TypeOK, Group, NoGroup, DKGStatus
<1>10. CASE PreGroupingUpdateStatus
  BY <1>10 DEF PreGroupingUpdateStatus, TypeOK, Group, DKGStatus
<1>11. ASSUME NEW Q \in SUBSET Nodes, DKGSaveOutput(Q) PROVE TypeOK'
  BY <1>11 DEF DKGSaveOutput, TypeOK, Group
<1>12. ASSUME NEW C \in SUBSET Nodes, DKGSuccess(C) PROVE TypeOK'
  BY <1>12 DEF DKGSuccess, TypeOK, Group, DKGStatus
<1>13. ASSUME NEW r \in Requests, ReadyToHandle(r) PROVE TypeOK'
  BY <1>13, ConstAssumption DEF ReadyToHandle, TypeOK, Entry, Partial, Messages, CacheState
<1>14. ASSUME NEW r \in Requests, ReadyToCommit(r) PROVE TypeOK'
  BY <1>14 DEF ReadyToCommit, WithState, TypeOK, Entry, CacheState, HasEntry, NoEntry
<1>15. ASSUME NEW r \in Requests, NEW s \in CacheState, CommitResult(r, s) PROVE TypeOK'
  BY <1>15 DEF CommitResult, WithState, TypeOK, Entry, CacheState, HasEntry, NoEntry
<1>16. ASSUME NEW r \in Requests, RemoveEntry(r) PROVE TypeOK'
  BY <1>16 DEF RemoveEntry, TypeOK
<1>17. CASE UNCHANGED vars
  BY <1>17 DEF vars, TypeOK
<1>18. QED
  BY <1>1, <1>2, <1>3, <1>4, <1>5, <1>6, <1>7, <1>8, <1>9, <1>10, <1>11,
     <1>12, <1>13, <1>14, <1>15, <1>16, <1>17 DEF Next, Handler

-----------------------------------------------------------------------------
(* The entry invariant: what the cache holds *)

\* The steps that change neither the cache nor the handled set.
CacheSteps ==
    \/ \E h \in Handlers : AddPartial(h)
    \/ \E r \in Requests : \/ ReadyToHandle(r) \/ ReadyToCommit(r) \/ RemoveEntry(r)
                          \/ \E s \in CacheState : CommitResult(r, s)

LEMMA CacheUnchangedSteps == [Next]_vars /\ ~CacheSteps => UNCHANGED <<cache, handled>>
BY DEF CacheSteps, Next, Handler, vars, Receive, CheckState, CheckCommitter, CheckMember,
       CheckContains, CheckMessage, ChainNewDKGTask, PreGroupingSaveTask,
       PreGroupingUpdateStatus, DKGSaveOutput, DKGSuccess

LEMMA NextEntryInv == TypeOK /\ EntryInv /\ HandlerInv /\ [Next]_vars => EntryInv'
<1> SUFFICES ASSUME TypeOK, EntryInv, HandlerInv, [Next]_vars PROVE EntryInv'
  OBVIOUS
<1>1. ASSUME NEW h \in Handlers, AddPartial(h) PROVE EntryInv'
  <2> DEFINE q == req[h]
             p == [from |-> q.from, msg |-> q.msg, valid |-> q.valid]
  <2>1. q.valid /\ q.msg = q.index
    BY <1>1 DEF AddPartial, HandlerInv, HoldsGroupRead
  <2>2. q.index \in Requests
    BY DEF TypeOK, Request
  <2>3. CASE HasEntry(q.index) /\ ~\E o \in cache[q.index].partials : o.from = q.from
    <3>1. cache' = [cache EXCEPT ![q.index] = WithPartial(@, p)]
      BY <1>1, <2>3 DEF AddPartial
    <3>2. UNCHANGED handled
      BY <1>1 DEF AddPartial
    <3>3. QED
      BY <3>1, <3>2, <2>1, <2>2, <2>3 DEF EntryInv, WithPartial, HasEntry, TypeOK
  <2>4. CASE ~(HasEntry(q.index) /\ ~\E o \in cache[q.index].partials : o.from = q.from)
    <3>1. UNCHANGED <<cache, handled>>
      BY <1>1, <2>4 DEF AddPartial
    <3>2. QED
      BY <3>1 DEF EntryInv, HasEntry
  <2>5. QED
    BY <2>3, <2>4
<1>2. ASSUME NEW x \in Requests, ReadyToHandle(x) PROVE EntryInv'
  <2> SUFFICES ASSUME NEW r \in Requests, HasEntry(r)'
               PROVE  (/\ r \in handled
                       /\ cache[r].message = r
                       /\ [from |-> Self, msg |-> r, valid |-> TRUE] \in cache[r].partials
                       /\ \A p \in cache[r].partials : p.valid /\ p.msg = r)'
    BY DEF EntryInv
  <2>1. CASE r = x
    <3>1. cache'[r] = [message |-> r, state |-> "NotCommitted",
                       partials |-> {[from |-> Self, msg |-> r, valid |-> TRUE]}]
      BY <1>2, <2>1 DEF ReadyToHandle, TypeOK
    <3>2. r \in handled'
      BY <1>2, <2>1 DEF ReadyToHandle
    <3>3. QED
      BY <3>1, <3>2
  <2>2. CASE r # x
    BY <1>2, <2>2 DEF ReadyToHandle, EntryInv, HasEntry, TypeOK
  <2>3. QED
    BY <2>1, <2>2
<1>3. ASSUME NEW x \in Requests, ReadyToCommit(x) PROVE EntryInv'
  BY <1>3 DEF ReadyToCommit, WithState, EntryInv, HasEntry, TypeOK
<1>4. ASSUME NEW x \in Requests, NEW s \in CacheState, CommitResult(x, s) PROVE EntryInv'
  BY <1>4 DEF CommitResult, WithState, EntryInv, HasEntry, TypeOK
<1>5. ASSUME NEW x \in Requests, RemoveEntry(x) PROVE EntryInv'
  BY <1>5 DEF RemoveEntry, EntryInv, HasEntry, TypeOK
<1>6. CASE UNCHANGED <<cache, handled>>
  BY <1>6 DEF EntryInv, HasEntry
<1>7. QED
  <2>1. CASE \E h \in Handlers : AddPartial(h)
    BY <2>1, <1>1
  <2>2. CASE \E x \in Requests : ReadyToHandle(x) \/ ReadyToCommit(x) \/ RemoveEntry(x)
                                 \/ \E s \in CacheState : CommitResult(x, s)
    <3>1. PICK x \in Requests : ReadyToHandle(x) \/ ReadyToCommit(x) \/ RemoveEntry(x)
                                 \/ \E s \in CacheState : CommitResult(x, s)
      BY <2>2
    <3>2. QED
      BY <3>1, <1>2, <1>3, <1>4, <1>5
  <2>3. CASE ~CacheSteps
    BY <2>3, <1>6, CacheUnchangedSteps
  <2>4. QED
    BY <2>1, <2>2, <2>3 DEF CacheSteps

-----------------------------------------------------------------------------
(* The handler invariant: what a handler has checked still holds *)

HandlerOK(k) ==
    /\ pc[k] \in HoldsGroupRead => req[k].valid /\ req[k].from \in group.keyed
    /\ pc[k] = "add" => req[k].msg = req[k].index

\* A step that leaves the group and the handler's own pc and request alone
\* keeps what the handler established.
LEMMA HandlerFrame ==
    ASSUME NEW k \in Handlers, HandlerOK(k),
           group' = group, pc'[k] = pc[k], req'[k] = req[k]
    PROVE  HandlerOK(k)'
BY DEF HandlerOK

\* A step that moves a handler to a pc before get_member, or back to idle.
LEMMA HandlerOutside ==
    ASSUME NEW k \in Handlers, pc'[k] \in {"idle", "state", "committer", "member"}
    PROVE  HandlerOK(k)'
BY DEF HandlerOK, HoldsGroupRead

LEMMA NextHandlerInv == TypeOK /\ EntryInv /\ HandlerInv /\ [Next]_vars => HandlerInv'
<1> SUFFICES ASSUME NEW k \in Handlers, TypeOK, EntryInv, HandlerInv, [Next]_vars
             PROVE  HandlerOK(k)'
  BY DEF HandlerInv, HandlerOK
<1>0. HandlerOK(k)
  BY DEF HandlerInv, HandlerOK
<1>1. ASSUME NEW h \in Handlers, h # k, Handler(h) PROVE HandlerOK(k)'
  <2>1. group' = group /\ pc'[k] = pc[k] /\ req'[k] = req[k]
    BY <1>1 DEF Handler, Receive, CheckState, CheckCommitter, CheckMember,
               CheckContains, CheckMessage, AddPartial, Goto, Reply, TypeOK
  <2>2. QED
    BY <1>0, <2>1, HandlerFrame
<1>2. ASSUME NEW q \in Request, Receive(k, q) PROVE HandlerOK(k)'
  BY <1>2, HandlerOutside DEF Receive, TypeOK
<1>3. CASE CheckState(k)
  BY <1>3, HandlerOutside DEF CheckState, Goto, Reply, TypeOK
<1>4. CASE CheckCommitter(k)
  BY <1>4, HandlerOutside DEF CheckCommitter, Goto, Reply, TypeOK
<1>5. CASE CheckMember(k)
  <2>1. CASE MemberVerdict(req[k]) = "pass"
    <3>1. req[k].valid /\ req[k].from \in group.keyed
      BY <2>1 DEF MemberVerdict
    <3>2. QED
      BY <1>5, <2>1, <3>1 DEF CheckMember, Goto, HandlerOK, TypeOK
  <2>4. CASE MemberVerdict(req[k]) # "pass"
    BY <1>5, <2>4, HandlerOutside DEF CheckMember, Reply, TypeOK
  <2>5. QED
    BY <2>1, <2>4
<1>6. CASE CheckContains(k)
  BY <1>0, <1>6 DEF CheckContains, Goto, Reply, HandlerOK, HoldsGroupRead, TypeOK
<1>7. CASE CheckMessage(k)
  <2>1. CASE MessageVerdict(req[k]) = "pass"
    <3>1. req[k].msg = req[k].index
      BY <2>1 DEF MessageVerdict, EntryInv, TypeOK, Request
    <3>2. QED
      BY <1>0, <1>7, <2>1, <3>1 DEF CheckMessage, Goto, HandlerOK, HoldsGroupRead, TypeOK
  <2>4. CASE MessageVerdict(req[k]) # "pass"
    BY <1>7, <2>4, HandlerOutside DEF CheckMessage, Reply, TypeOK
  <2>5. QED
    BY <2>1, <2>4
<1>8. CASE AddPartial(k)
  BY <1>8, HandlerOutside DEF AddPartial, Reply, TypeOK
<1>9. CASE PreGroupingSaveTask \/ PreGroupingUpdateStatus
             \/ \E Q \in SUBSET Nodes : DKGSaveOutput(Q)
             \/ \E C \in SUBSET Nodes : DKGSuccess(C)
  <2>1. GroupWriteAllowed /\ UNCHANGED pc
    BY <1>9 DEF PreGroupingSaveTask, PreGroupingUpdateStatus, DKGSaveOutput, DKGSuccess
  <2>2. QED
    BY <2>1 DEF GroupWriteAllowed, HandlerOK, HoldsGroupRead
<1>10. CASE \/ ChainNewDKGTask
            \/ \E r \in Requests :
                 \/ ReadyToHandle(r) \/ ReadyToCommit(r) \/ RemoveEntry(r)
                 \/ \E s \in CacheState : CommitResult(r, s)
  <2>1. UNCHANGED <<group, pc, req>>
    BY <1>10 DEF ChainNewDKGTask, ReadyToHandle, ReadyToCommit,
                 RemoveEntry, CommitResult
  <2>2. QED
    BY <1>0, <2>1, HandlerFrame
<1>11. CASE UNCHANGED vars
  BY <1>0, <1>11, HandlerFrame DEF vars
<1>12. QED
  <2>1. CASE \E h \in Handlers : Handler(h)
    <3>1. PICK h \in Handlers : Handler(h)
      BY <2>1
    <3>2. CASE h # k
      BY <3>1, <3>2, <1>1
    <3>3. CASE h = k
      BY <3>1, <3>3, <1>2, <1>3, <1>4, <1>5, <1>6, <1>7, <1>8 DEF Handler
    <3>4. QED
      BY <3>2, <3>3
  <2>2. QED
    BY <2>1, <1>9, <1>10, <1>11 DEF Next

-----------------------------------------------------------------------------
(* The step PartialFromKeyedMember constrains *)

LEMMA NextKeyedStep == IInv /\ [Next]_vars => KeyedStep
<1> SUFFICES ASSUME IInv, [Next]_vars, NEW r \in Requests, HasEntry(r), HasEntry(r)',
                    NEW p \in cache'[r].partials \ cache[r].partials
             PROVE  p.from \in group.keyed
  BY DEF KeyedStep
<1>0. TypeOK /\ EntryInv /\ HandlerInv
  BY DEF IInv
<1>1. ASSUME NEW h \in Handlers, AddPartial(h) PROVE p.from \in group.keyed
  <2>1. pc[h] = "add" /\ req[h].from \in group.keyed
    BY <1>0, <1>1 DEF AddPartial, HandlerInv, HoldsGroupRead
  <2>2. r = req[h].index /\ ~\E o \in cache[r].partials : o.from = req[h].from
    BY <1>0, <1>1 DEF AddPartial, Reply, TypeOK
  <2>3. cache'[r] = WithPartial(cache[r], [from |-> req[h].from, msg |-> req[h].msg,
                                           valid |-> req[h].valid])
    BY <1>0, <1>1, <2>2 DEF AddPartial, TypeOK
  <2>4. QED
    BY <2>1, <2>3 DEF WithPartial
<1>2. ASSUME NEW x \in Requests, ReadyToHandle(x) PROVE p.from \in group.keyed
  <2>1. r # x
    BY <1>0, <1>2 DEF ReadyToHandle, EntryInv
  <2>2. QED
    BY <1>0, <1>2, <2>1 DEF ReadyToHandle, TypeOK
<1>3. ASSUME NEW x \in Requests, NEW st \in CacheState,
             ReadyToCommit(x) \/ CommitResult(x, st)
      PROVE  p.from \in group.keyed
  <2>1. cache' = [cache EXCEPT ![x] = WithState(cache[x], "Committing")]
        \/ cache' = [cache EXCEPT ![x] = WithState(cache[x], st)]
    BY <1>3 DEF ReadyToCommit, CommitResult
  <2>2. cache'[r].partials = cache[r].partials
    BY <1>0, <2>1 DEF WithState, TypeOK
  <2>3. QED
    BY <2>2
<1>4. ASSUME NEW x \in Requests, RemoveEntry(x) PROVE p.from \in group.keyed
  BY <1>0, <1>4 DEF RemoveEntry, HasEntry, TypeOK
<1>5. CASE ~CacheSteps
  BY <1>5, CacheUnchangedSteps
<1>6. QED
  <2>1. CASE CacheSteps
    <3>1. CASE \E h \in Handlers : AddPartial(h)
      BY <3>1, <1>1
    <3>2. CASE \E x \in Requests : ReadyToHandle(x) \/ ReadyToCommit(x) \/ RemoveEntry(x)
               \/ \E st \in CacheState : CommitResult(x, st)
      <4>1. PICK x \in Requests : ReadyToHandle(x) \/ ReadyToCommit(x) \/ RemoveEntry(x)
               \/ \E st \in CacheState : CommitResult(x, st)
        BY <3>2
      <4>2. QED
        BY <4>1, <1>2, <1>3, <1>4 DEF CacheState
    <3>3. QED
      BY <2>1, <3>1, <3>2 DEF CacheSteps
  <2>2. QED
    BY <2>1, <1>5

-----------------------------------------------------------------------------
(* Theorems *)

\* IInv is an invariant of the committer server: the strengthening that
\* the properties below rest on.
THEOREM IInvInvariant == Spec => []IInv
<1>1. Init => IInv
  <2> SUFFICES ASSUME Init PROVE IInv
    OBVIOUS
  <2>1. TypeOK
    BY InitTypeOK
  <2>2. EntryInv
    BY DEF Init, EntryInv, HasEntry
  <2>3. HandlerInv
    BY DEF Init, HandlerInv, HoldsGroupRead
  <2>4. QED
    BY <2>1, <2>2, <2>3 DEF IInv
<1>2. IInv /\ [Next]_vars => IInv'
  <2> SUFFICES ASSUME IInv, [Next]_vars PROVE IInv'
    OBVIOUS
  <2>1. TypeOK /\ EntryInv /\ HandlerInv
    BY DEF IInv
  <2>2. TypeOK'
    BY <2>1, NextTypeOK
  <2>3. EntryInv'
    BY <2>1, NextEntryInv
  <2>4. HandlerInv'
    BY <2>1, NextHandlerInv
  <2>5. QED
    BY <2>2, <2>3, <2>4 DEF IInv
<1>3. QED
  BY <1>1, <1>2, PTL DEF Spec

\* Type correctness of the committer server, the cache and the pre-grouping
\* subscriber for all values of the constants.
THEOREM TypeCorrect == Spec => []TypeOK
BY IInvInvariant, PTL DEF IInv

\* Every partial signature the signature cache holds verifies and signs the
\* entry's message (commit_partial_signature's partial_verify and message
\* check), for any number of nodes, handlers and tasks.
THEOREM CachedPartialsVerifyHolds == Spec => []CachedPartialsVerify
<1>1. IInv => CachedPartialsVerify
  BY DEF IInv, EntryInv, CachedPartialsVerify
<1>2. QED
  BY <1>1, IInvInvariant, PTL

\* A partial enters an existing cache entry only from a keyed member of the
\* current group: the group read lock held from get_member to
\* add_partial_signature keeps pre-grouping from replacing the group.
THEOREM PartialFromKeyedMemberHolds == Spec => PartialFromKeyedMember
<1>1. IInv /\ [Next]_vars => [KeyedStep]_vars
  BY NextKeyedStep
<1>2. QED
  BY <1>1, IInvInvariant, PTL DEF PartialFromKeyedMember, Spec

=============================================================================
