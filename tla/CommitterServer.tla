--------------------------- MODULE CommitterServer ---------------------------
(***************************************************************************)
(* The committer side of the partial-signature exchange of one node:       *)
(*   - the group cache (GroupInfoFetcher/Updater) behind a RwLock,          *)
(*   - the randomness signature-result cache (SignatureResultCache traits), *)
(*   - concurrent invocations of the committer RPC handler                 *)
(*     BLSCommitterServiceServer::commit_partial_signature, one step per   *)
(*     lock acquisition it makes,                                          *)
(*   - PreGroupingSubscriber::notify, which replaces the group on a new    *)
(*     DKG task,                                                           *)
(*   - the DKG / randomness pipeline steps that feed both caches (their    *)
(*     code is not in this repository; they follow the spec).             *)
(* Data is abstracted: a message is identified by the request whose        *)
(* message it is (or Forged), a partial signature by whether it verifies.  *)
(***************************************************************************)
EXTENDS Naturals, FiniteSets

CONSTANTS
    Nodes,      \* id addresses of the nodes that can be group members
    Self,       \* this node's id address
    Malformed,  \* an id_address string that does not parse as an Address
    Requests,   \* signature indices (task keys) of randomness tasks
    Forged,     \* a message that is not the message of any task
    Handlers,   \* concurrent invocations of commit_partial_signature
    MaxEpoch,   \* bound on the DKG epochs the chain emits
    Threshold   \* group threshold t

ASSUME ConstAssumption ==
    /\ Self \in Nodes
    /\ Malformed \notin Nodes
    /\ Requests # {}
    /\ Forged \notin Requests
    /\ MaxEpoch \in Nat
    /\ Threshold \in Nat \ {0}

VARIABLES
    group,       \* the node's group cache
    chainEpoch,  \* epoch of the latest DKGTask the controller emitted
    pg,          \* PreGroupingSubscriber progress: "idle" or "saved"
    cache,       \* randomness_result_cache: Requests -> entry or NoEntry
    handled,     \* BLS tasks already taken by check_and_get_available_tasks
    pc,          \* per handler: the await the handler is at
    req,         \* per handler: the CommitPartialSignatureRequest it serves
    reply        \* per handler: the last reply it returned

vars == <<group, chainEpoch, pg, cache, handled, pc, req, reply>>

-----------------------------------------------------------------------------
(* Types *)

DKGStatus == {"None", "InPhase", "CommitSuccess", "WaitForPostProcess"}

Group == [epoch: 0..MaxEpoch, state: BOOLEAN, status: DKGStatus,
          members: SUBSET Nodes,     \* addresses with a Member record
          keyed: SUBSET Nodes,       \* members whose partial_public_key is Some
          committers: SUBSET Nodes]

\* get_index()/get_epoch() fail on an empty cache; notify reads 0 then.
NoGroup == [epoch |-> 0, state |-> FALSE, status |-> "None",
            members |-> {}, keyed |-> {}, committers |-> {}]

Messages == Requests \cup {Forged}

CacheState == {"NotCommitted", "Committing", "Committed", "CommittedByOthers"}

Partial == [from: Nodes, msg: Messages, valid: BOOLEAN]

Entry == [message: Messages, state: CacheState, partials: SUBSET Partial]

\* The value of an index the cache holds no entry for.
NoEntry == [message |-> Forged, state |-> "Absent", partials |-> {}]

\* TaskType::from(task_type) and chain_id of a request; the handler
\* checks the first before the second.
Routes == {[type |-> "Randomness", chain |-> 0],
           [type |-> "Randomness", chain |-> 1],
           [type |-> "GroupRelay", chain |-> 0]}

Request == [from: Nodes \cup {Malformed}, route: Routes, index: Requests,
            msg: Messages, valid: BOOLEAN]

Replies == {"none", "accepted", "NotFound", "InvalidArgument", "Internal",
            "PanicNoPartialKey", "PanicNoCacheEntry"}

\* Awaits of commit_partial_signature; "idle" is between requests.
Pcs == {"idle", "state", "committer", "member", "contains", "get", "add"}

\* The guard of group_cache.read() in `if let Ok(member) = ...` lives to
\* the end of the if-let, so the handler holds the group read lock here.
HoldsGroupRead == {"contains", "get", "add"}

-----------------------------------------------------------------------------
(* Helpers *)

\* Mutant: the group read guard is dropped right after get_member.
GroupWriteAllowedGuardDropped == TRUE

\* A write() on the group cache is granted only when no reader holds it.
GroupWriteAllowed == \A h \in Handlers : pc[h] \notin HoldsGroupRead

Goto(h, l) == /\ pc' = [pc EXCEPT ![h] = l]
              /\ UNCHANGED reply

Reply(h, r) == /\ pc' = [pc EXCEPT ![h] = "idle"]
               /\ reply' = [reply EXCEPT ![h] = r]

HasEntry(r) == cache[r] # NoEntry

\* Entry e with its state set to s, and with partial p added.
WithState(e, s) == [message |-> e.message, state |-> s, partials |-> e.partials]

WithPartial(e, p) == [message |-> e.message, state |-> e.state,
                      partials |-> e.partials \cup {p}]

-----------------------------------------------------------------------------
(* Initial state: empty caches, no group, idle server. *)

Init ==
    /\ group = NoGroup
    /\ chainEpoch = 0
    /\ pg = "idle"
    /\ cache = [r \in Requests |-> NoEntry]
    /\ handled = {}
    /\ pc = [h \in Handlers |-> "idle"]
    /\ req = [h \in Handlers |-> CHOOSE q \in Request : TRUE]
    /\ reply = [h \in Handlers |-> "none"]

-----------------------------------------------------------------------------
(* commit_partial_signature, one action per lock acquisition. *)

Receive(h, q) ==
    /\ pc[h] = "idle"
    /\ req' = [req EXCEPT ![h] = q]
    /\ pc' = [pc EXCEPT ![h] = "state"]
    /\ reply' = [reply EXCEPT ![h] = "none"]
    /\ UNCHANGED <<group, chainEpoch, pg, cache, handled>>

\* group_cache.read().get_state(): not ready -> NotFound(GroupNotReady)
CheckState(h) ==
    /\ pc[h] = "state"
    /\ IF group.state THEN Goto(h, "committer") ELSE Reply(h, "NotFound")
    /\ UNCHANGED <<group, chainEpoch, pg, cache, handled, req>>

\* group_cache.read().is_committer(id_address): else NotFound(NotCommitter)
CheckCommitter(h) ==
    /\ pc[h] = "committer"
    /\ IF Self \in group.committers THEN Goto(h, "member")
                                    ELSE Reply(h, "NotFound")
    /\ UNCHANGED <<group, chainEpoch, pg, cache, handled, req>>

\* Mutant: the result of parse and get_member is ignored.
MemberVerdictNoLookup(q) ==
    IF ~q.valid THEN "Internal"
    ELSE IF q.route.type # "Randomness" THEN "InvalidArgument"
    ELSE IF q.route.chain # 0 THEN "InvalidArgument"
    ELSE "pass"

\* Parse id_address, then take the read lock held to the end and look up
\* the member; unwrap its partial_public_key, partial_verify, then check
\* the task type and the chain id.  The first failing check is the reply.
MemberVerdict(q) ==
    IF q.from = Malformed THEN "InvalidArgument"
    ELSE IF q.from \notin group.members THEN "NotFound"
    ELSE IF q.from \notin group.keyed THEN "PanicNoPartialKey"
    ELSE IF ~q.valid THEN "Internal"
    ELSE IF q.route.type # "Randomness" THEN "InvalidArgument"
    ELSE IF q.route.chain # 0 THEN "InvalidArgument"
    ELSE "pass"

CheckMember(h) ==
    /\ pc[h] = "member"
    /\ IF MemberVerdict(req[h]) = "pass" THEN Goto(h, "contains")
                                        ELSE Reply(h, MemberVerdict(req[h]))
    /\ UNCHANGED <<group, chainEpoch, pg, cache, handled, req>>

\* randomness_result_cache.read().contains(signature_index): else
\* InvalidArgument(CommitterCacheNotExisted)
CheckContains(h) ==
    /\ pc[h] = "contains"
    /\ IF HasEntry(req[h].index) THEN Goto(h, "get")
                                 ELSE Reply(h, "InvalidArgument")
    /\ UNCHANGED <<group, chainEpoch, pg, cache, handled, req>>

\* Mutant: the request's message is not compared with the cached one.
CheckMessageNoCompare(h) ==
    /\ pc[h] = "get"
    /\ IF HasEntry(req[h].index) THEN Goto(h, "add")
                                 ELSE Reply(h, "PanicNoCacheEntry")
    /\ UNCHANGED <<group, chainEpoch, pg, cache, handled, req>>

\* randomness_result_cache.read().get(signature_index).unwrap() under a
\* second read lock, then compare the request's message with the cached one.
MessageVerdict(q) ==
    IF ~HasEntry(q.index) THEN "PanicNoCacheEntry"
    ELSE IF q.msg # cache[q.index].message THEN "InvalidArgument"
    ELSE "pass"

CheckMessage(h) ==
    /\ pc[h] = "get"
    /\ IF MessageVerdict(req[h]) = "pass" THEN Goto(h, "add")
                                         ELSE Reply(h, MessageVerdict(req[h]))
    /\ UNCHANGED <<group, chainEpoch, pg, cache, handled, req>>

\* add_partial_signature under the write lock; Err -> Internal.  What the
\* cache does is its implementation's, which is not in this repository and
\* is taken from the spec: an absent entry is an error, and a second
\* partial of the same member is not inserted but the reply is still true.
AddPartial(h) ==
    LET q == req[h]
        p == [from |-> q.from, msg |-> q.msg, valid |-> q.valid]
    IN
    /\ pc[h] = "add"
    /\ IF HasEntry(q.index)
         THEN /\ cache' =
                   IF \E o \in cache[q.index].partials : o.from = q.from
                     THEN cache
                     ELSE [cache EXCEPT ![q.index] = WithPartial(@, p)]
              /\ Reply(h, "accepted")
         ELSE /\ Reply(h, "Internal")
              /\ UNCHANGED cache
    /\ UNCHANGED <<group, chainEpoch, pg, handled, req>>

-----------------------------------------------------------------------------
(* PreGroupingSubscriber::notify on NewDKGTask.                            *)
(* The controller emits a new DKGTask for the node's group.                *)

ChainNewDKGTask ==
    /\ chainEpoch < MaxEpoch
    /\ chainEpoch' = chainEpoch + 1
    /\ UNCHANGED <<group, pg, cache, handled, pc, req, reply>>

\* (index, epoch) differs from the cache: save_task_info replaces the group
\* with the task's members, none of them with a partial public key yet.
PreGroupingSaveTask ==
    /\ pg = "idle"
    /\ chainEpoch > 0
    /\ group.epoch # chainEpoch
    /\ GroupWriteAllowed
    /\ group' = [NoGroup EXCEPT !.epoch = chainEpoch, !.members = Nodes]
    /\ pg' = "saved"
    /\ UNCHANGED <<chainEpoch, cache, handled, pc, req, reply>>

\* update_dkg_status(index, epoch, InPhase) returns true when it changed
\* the status of that group; then RunDKG is published.
PreGroupingUpdateStatus ==
    /\ pg = "saved"
    /\ GroupWriteAllowed
    /\ group' = IF group.status # "InPhase" THEN [group EXCEPT !.status = "InPhase"]
                                            ELSE group
    /\ pg' = "idle"
    /\ UNCHANGED <<chainEpoch, cache, handled, pc, req, reply>>

-----------------------------------------------------------------------------
(* Pipeline steps whose code is not in this repository (from the spec).   *)

\* InGroupingSubscriber: save_output keeps the qualified members (this node
\* among them) and stores their partial public keys.
DKGSaveOutput(Q) ==
    /\ group.status = "InPhase"
    /\ group.keyed = {}
    /\ Self \in Q
    /\ Q \subseteq group.members
    /\ GroupWriteAllowed
    /\ group' = [group EXCEPT !.members = Q, !.keyed = Q]
    /\ UNCHANGED <<chainEpoch, pg, cache, handled, pc, req, reply>>

\* PostSuccessGroupingSubscriber: CommitSuccess, committers from the chain.
DKGSuccess(C) ==
    /\ group.status = "InPhase"
    /\ group.keyed # {}
    /\ C # {}
    /\ C \subseteq group.keyed
    /\ GroupWriteAllowed
    /\ group' = [group EXCEPT !.status = "CommitSuccess", !.state = TRUE,
                              !.committers = C]
    /\ UNCHANGED <<chainEpoch, pg, cache, handled, pc, req, reply>>

\* ReadyToHandleRandomnessTaskSubscriber: sign with the share and build the
\* cache entry with the task's message and this node's own partial.
ReadyToHandle(r) ==
    /\ group.state
    /\ r \notin handled
    /\ handled' = handled \cup {r}
    /\ cache' = [cache EXCEPT ![r] =
                    [message |-> r, state |-> "NotCommitted",
                     partials |-> {[from |-> Self, msg |-> r, valid |-> TRUE]}]]
    /\ UNCHANGED <<group, chainEpoch, pg, pc, req, reply>>

\* get_ready_to_commit_signatures: NotCommitted entries with enough partials
\* are flipped to Committing.
ReadyToCommit(r) ==
    /\ HasEntry(r)
    /\ cache[r].state = "NotCommitted"
    /\ Cardinality(cache[r].partials) >= Threshold
    /\ cache' = [cache EXCEPT ![r] = WithState(@, "Committing")]
    /\ UNCHANGED <<group, chainEpoch, pg, handled, pc, req, reply>>

\* update_commit_result after fulfill_randomness / is_task_pending.
CommitResult(r, s) ==
    /\ HasEntry(r)
    /\ \/ cache[r].state = "Committing" /\ s \in {"Committed", "NotCommitted"}
       \/ cache[r].state \in {"NotCommitted", "Committing"} /\ s = "CommittedByOthers"
    /\ cache' = [cache EXCEPT ![r] = WithState(@, s)]
    /\ UNCHANGED <<group, chainEpoch, pg, handled, pc, req, reply>>

\* Entries in a terminal state are removed after the retention window.
RemoveEntry(r) ==
    /\ HasEntry(r)
    /\ cache[r].state \in {"Committed", "CommittedByOthers"}
    /\ cache' = [cache EXCEPT ![r] = NoEntry]
    /\ UNCHANGED <<group, chainEpoch, pg, handled, pc, req, reply>>

-----------------------------------------------------------------------------

Handler(h) ==
    \/ \E q \in Request : Receive(h, q)
    \/ CheckState(h) \/ CheckCommitter(h) \/ CheckMember(h)
    \/ CheckContains(h) \/ CheckMessage(h) \/ AddPartial(h)

Next ==
    \/ \E h \in Handlers : Handler(h)
    \/ ChainNewDKGTask \/ PreGroupingSaveTask \/ PreGroupingUpdateStatus
    \/ \E Q \in SUBSET Nodes : DKGSaveOutput(Q)
    \/ \E C \in SUBSET Nodes : DKGSuccess(C)
    \/ \E r \in Requests :
         \/ ReadyToHandle(r) \/ ReadyToCommit(r) \/ RemoveEntry(r)
         \/ \E s \in CacheState : CommitResult(r, s)

Spec == Init /\ [][Next]_vars

-----------------------------------------------------------------------------
(* Properties *)

TypeOK ==
    /\ group \in Group
    /\ chainEpoch \in 0..MaxEpoch
    /\ pg \in {"idle", "saved"}
    /\ cache \in [Requests -> Entry \cup {NoEntry}]
    /\ handled \subseteq Requests
    /\ pc \in [Handlers -> Pcs]
    /\ req \in [Handlers -> Request]
    /\ reply \in [Handlers -> Replies]

\* Every partial signature held in a cache entry verifies and signs that
\* entry's message: commit_partial_signature stores a peer's partial only
\* after partial_verify and the comparison with the cached message.
CachedPartialsVerify ==
    \A r \in Requests :
        HasEntry(r) =>
            \A p \in cache[r].partials : p.valid /\ p.msg = cache[r].message

\* A step that adds a peer's partial to the cache adds it only from a member
\* of the current group whose partial public key it holds: the group cannot
\* be replaced between get_member and add_partial_signature because the
\* handler keeps the group read lock over both.
KeyedStep ==
    \A r \in Requests :
        HasEntry(r) /\ HasEntry(r)' =>
            \A p \in cache'[r].partials \ cache[r].partials : p.from \in group.keyed

PartialFromKeyedMember == [][KeyedStep]_vars

\* The handler never panics on the cache entry it checked with contains():
\* the spec answers InvalidArgument when the entry is missing.
NeverPanicsOnCacheEntry ==
    \A h \in Handlers : reply[h] # "PanicNoCacheEntry"

\* The handler never unwraps an absent partial public key of a member.
NeverPanicsOnPartialKey ==
    \A h \in Handlers : reply[h] # "PanicNoPartialKey"

-----------------------------------------------------------------------------
(* The inductive strengthening the proofs in CommitterServerProofs use.  *)

\* A cache entry is the one ReadyToHandle built for its task: it carries
\* the task's message and this node's partial, and only verified partials
\* on that message.
EntryInv ==
    \A r \in Requests :
        HasEntry(r) =>
            /\ r \in handled
            /\ cache[r].message = r
            /\ [from |-> Self, msg |-> r, valid |-> TRUE] \in cache[r].partials
            /\ \A p \in cache[r].partials : p.valid /\ p.msg = r

\* What a handler has established by the await it is at: past get_member
\* it holds the group read lock, so the sender is still a keyed member and
\* its partial verified; past the message check the message is the task's.
HandlerInv ==
    \A h \in Handlers :
        /\ pc[h] \in HoldsGroupRead => req[h].valid /\ req[h].from \in group.keyed
        /\ pc[h] = "add" => req[h].msg = req[h].index

IInv == TypeOK /\ EntryInv /\ HandlerInv

=============================================================================
