# TLA+ models of the ARPA BLS threshold-signature node

This directory holds TLA+ specifications of the node under
`src/crates/arpa-node/src/node/`. It also holds the TLC configurations that
model-check them and five TLAPS proof modules. `PROJECT.json` lists every run,
mutant, finding and hazard, and maps each definition to the source lines it
translates.

## The system and its parts

The node joins a BLS threshold group. It runs a distributed key generation
(DKG) through the Coordinator contract, and for every randomness task it
signs the task message with its key share. A *committer* of the group
collects peers' partial signatures and aggregates them. The parts in this
repository:

| Part | Source | How it interacts |
|---|---|---|
| Committer RPC server | `committer/server.rs` | Peers call `commit_partial_signature`. It reads the **group cache** and writes the **signature result cache**, each behind a tokio `RwLock`. |
| Pre-grouping subscriber | `subscriber/pre_grouping.rs` | On `NewDKGTask` it replaces the group in the group cache, which races the server's reads. |
| Data access traits | `dal/src/lib.rs` | The group and signature-cache interfaces (traits only), plus `BLSResultCacheState`. |
| Contract client | `contract_client/src/lib.rs`, `ethers/coordinator.rs` | Retrying transaction and view calls. The Coordinator client uses them for `publish` (DKG shares) and six views. |
| Block subscription and listener | `ethers/provider.rs`, `listener/block.rs` | Follows new blocks and publishes `NewBlock` on the event queue. The scheduler, which is not in this repository, restarts the listener after errors. |
| Configuration | `core/src/types/config.rs` | `Config::initialize` (defaults), retry descriptors, the `jitter` helper and the byte-size parser `deserialize_limit`. |

The DKG runner, the other subscribers, the scheduler, the event queue and the
cache implementations are not in `src/`. The steps of theirs that feed the two
caches are modelled from `spec.md`, and `PROJECT.json` marks them
`spec_modelled`.

## Modules

- **`CommitterServer`** covers the server, the two caches, pre-grouping and the
  pipeline steps that feed them.
  - State: `group` (the group cache: epoch, state, DKG status, members, members
    with a partial public key, committers), `cache` (request → entry with
    message, state and partials), and per handler `pc`, `req` and `reply`.
  - `pc` is the `await` the handler is at. There is one action per lock
    acquisition: `CheckState` and `CheckCommitter` take one read lock each.
    `CheckMember` holds the group read guard of the `if let`, which lives to
    the end of the branch (`HoldsGroupRead`). Then come `CheckContains`,
    `CheckMessage` (a second cache read lock) and `AddPartial` (the cache write
    lock).
  - `MemberVerdict` and `MessageVerdict` return the first failing check in the
    code's order, including the two `unwrap()` panics.
  - Group writers (`PreGroupingSaveTask`, `PreGroupingUpdateStatus`,
    `DKGSaveOutput`, `DKGSuccess`) are enabled only when no handler holds the
    group read lock (`GroupWriteAllowed`, the `RwLock` semantics).
  - Data is abstracted: a message is the request it belongs to, or `Forged`,
    and a partial is its sender plus whether it verifies.
- **`MC_CommitterServer`** instantiates it with two nodes, two tasks, one
  handler per run, two DKG epochs and threshold 2.
- **`RetryBackoff`** is the strategy both callers build:
  `ExponentialBackoff::from_millis(base).factor(factor)`, then `jitter`, then
  `take(max_attempts)`. The k-th delay is `factor * base^(k+1)`, and jitter
  gives any value in `[d/2, d]`.
- **`TransactionCaller`** is one `call_contract_transaction` as `publish` calls
  it.
  - The attempt is split into `send()` (`SendError`, `SendReverted` when gas
    estimation reverts because the share is already on chain, `Broadcast`)
    and the receipt: `ReceiptError` (the provider fails), `ReceiptNotFound`
    (`pending_tx.await` resolves to `None` while the transaction is still in a
    mempool, and `ok_or` turns it into `NoTransactionReceipt`), and `Receipt`
    (dropped, status 0, or success).
  - `Fail` is `RetryIf`: it sleeps the next delay, or returns the error.
  - The chain mines (`Mine`, with the Coordinator reverting a second
    publication) or drops pending transactions.
- **`ViewCaller`** is one `call_contract_view`. `Retry` retries every error
  (`CallError`) until the strategy has no delay left; `CallOk` ends the call.
  The value read and its conversion are abstracted away.
- **`ConfigInit`** is `Config::initialize`: the four `Option` defaults and the
  guarded `match` on `time_limits`.
- **`SizeLimit`** is `deserialize_limit`, a pure function.
  - A string is abstracted to its shape: leading blank, value of the leading
    digit run, blank, unit word, trailing blank.
  - The u64 overflow is kept, with the word width and the unit width as
    constants. They are 64 and 10 in the code, and 16 and 3 in the run, so the
    products fit TLC's integers and the same boundary cases occur.
  - The spec's reading of a size is written as a reference (`SpecBytes`).
  - `visit_i64` gets `-1` and the non-negative numbers up to half the word.
    An i64 has one bit fewer than the u64 word, so a non-negative i64 always
    fits it.
- **`BlockListener`** covers `listen` and `subscribe_new_block_height`. A
  `watch_blocks` filter reports blocks mined after it was installed (the
  node's `eth_newBlockFilter` semantics, `WatchFrom`). It is followed by
  `get_block`, the `NewBlock` callback, the `?` error exits and the
  scheduler's restart (from the spec). Two simplifications are stated in the
  module: the chain is linear (`ChainMine` appends, there are no reorgs), and
  the stream never ends, since ethers' `FilterWatcher` swallows polling
  errors; the final `FetchingBlockError` after the loop is therefore not an
  action.
- **`PreGrouping`** is `PreGroupingSubscriber::notify` on its own, with the
  event delivery around it. This module keeps what `CommitterServer` leaves out.
  - The controller emits `DKGTask` logs (`EmitTask`); each regrouping of an
    index gets the next epoch. The listener publishes each log in order
    (`PublishTask`) and may deliver the current one again (`RepublishTask`,
    at-least-once delivery).
  - `notify` is split at its awaits: `Check` (the cached index and epoch,
    `unwrap_or(0)`), `SaveTaskInfo`, `UpdateDKGStatus` and `PublishRunDKG`.
    Each of the two cache writes may fail with a database error (`CanFail`,
    bounded by `MaxFailures`), and the `?` then drops the event.
  - `DKGEnd` and `PostProcess` are the DKG pipeline's later status writes,
    modelled from the spec.
- **`DKGStatusSpec`** is the abstract promise about the cached group: a new
  `(index, epoch)` starts at `None`, and the status only moves along the DAG
  `None -> InPhase -> CommitSuccess -> WaitForPostProcess -> Done`, with
  `Timeout` as a terminal fork. `PreGrouping` implements it under the mapping
  `AbsKey` / `AbsStatus`. A post-processed group's `None` is read as `Done`.
- **Proof modules.** `CommitterServerProofs`, `PreGroupingProofs`,
  `ViewCallerProofs`, `TransactionCallerProofs` and
  `ConfigInitProofs` hold the TLAPS proofs (see Proofs).

## Runs

| Run | Checks | Result |
|---|---|---|
| `committer_safety` | `TypeOK`, `CachedPartialsVerify`, `PartialFromKeyedMember` | pass, about 478k states |
| `committer_cache_panic` | `NeverPanicsOnCacheEntry` | violated |
| `committer_key_panic` | `NeverPanicsOnPartialKey` | violated |
| `tx_caller` | `TypeOK`, `OkMeansMined`, `CallReturns` | pass (fair spec) |
| `tx_resend` | `FailedMeansNotPublished` | violated |
| `view_caller` | `TypeOK` | pass |
| `view_attempts` | `RetryBound` | violated |
| `config_init` | `TypeOK`, `DeserializeMatchesSpec`, `UserValuesKept` | pass (composes `SizeLimit`) |
| `config_limits` | `InitializedLimitsPositive` | violated |
| `block_gap` | `EveryBlockPublished` | violated |
| `pregroup` | `TypeOK`, `ImplementsDKGStatus` | pass, about 3.7k states |
| `pregroup_stuck` | `TaskEventuallyRun` | violated |

What the passing runs show:

- **`CachedPartialsVerify`.** A cached partial always verifies and signs the
  cached message.
- **`PartialFromKeyedMember`.** A partial is added only from a member that is
  keyed in the *current* group. The group read guard held from `get_member` to
  `add_partial_signature` is what makes this hold. The mutant that drops the
  guard early breaks it.
- **`TypeOK` of `view_caller`.** Every delay the call sleeps is a natural
  number of milliseconds, one of the jittered strategy's choices for its
  position. The mutant that reads the strategy one position late breaks it.
- **`OkMeansMined`.** `Ok(hash)` is returned only for a transaction mined with
  success status.
- **`UserValuesKept`.** `initialize` never overwrites a non-zero configured
  limit.
- **`DeserializeMatchesSpec`.** Every size the spec describes is read as its
  exact byte count, or refused when it overflows, and never wrapped.
- **`CallReturns`.** Every transaction call returns, provided the chain
  eventually mines or drops each pending transaction. `pending_tx.await`
  (`lib.rs:56`) has no timeout. When the chain assumption is removed, TLC
  finds a call that waits forever after `Broadcast`.
- **`ImplementsDKGStatus`.** `PreGrouping` refines `DKGStatusSpec`. The cached
  status moves only along the DAG. A redelivered `NewDKGTask` never restarts
  or resets a DKG: the guard at `pre_grouping.rs:92` turns it into a stutter.

Each property of a passing run has a mutant in `PROJECT.json`: a plausible bug
in the mapped definition that TLC shows breaks it.

## Findings (the violation runs)

1. **Cache entry panic** (`server.rs:168`). `contains()` and `get().unwrap()`
   take separate read locks. An entry removed in between panics the handler.
2. **Partial key panic** (`server.rs:126`). Pre-grouping can save a new DKG
   task between `is_committer` and `get_member`. The member then has no
   partial public key, and `unwrap()` panics.
3. **Delays** (`lib.rs:30`). The waits are `factor * base^(k+1)`, not
   `base * factor^k`.
4. **Resend after a lost receipt** (`lib.rs:63`). A duplicate `publish` is
   mined as a revert. The call returns `TransactionFailed`, but the share is
   on chain.
5. **`initialize` defaults only the first zero time limit** (`config.rs:268`).
6. **Skipped blocks** (`provider.rs:44`). A `get_block` failure (an RPC
   error, or `None` for the block or its number) ends `listen` through `?`.
   The scheduler restarts it with a new filter, which reports only blocks
   mined after it is installed. The block whose fetch failed is never
   published, against spec 4.2 ("`NewBlock` for every new block"). The
   trace publishes height 1, fails on 2, restarts, and publishes 3.
7. **A task whose status update failed is never started**
   (`pre_grouping.rs:104`). Suppose `save_task_info` succeeds and then
   `update_dkg_status` fails. The cache now holds the new index and epoch,
   still at status `None`. Every redelivery of the task is stopped by the
   guard at line 92, so `RunDKG` is never published for it. This contradicts
   spec section 7: the pipeline should heal when the next event re-evaluates
   the state. `pregroup_stuck` shows the trace under `FairSpec` (see Fairness),
   with a single database error.
8. **One attempt too many** (`lib.rs:98`, and `lib.rs:39` for transactions).
   `take(max_attempts)` bounds the delays of the strategy, and `Retry` makes
   one attempt before the first delay, so a call makes `max_attempts + 1`
   attempts. Spec section 8 says no retryable operation performs more than
   `max_attempts` attempts. `view_attempts` checks `RetryBound`
   (`attempt <= MaxAttempts`) with `max_attempts = 2` and finds a third
   attempt after delays of 6 and 12 ms.

Finding 3 is documented from the code only and has no run. `RetryBackoff`
models the code's formula, which the caller runs use.

## Bounds

- **Committer.** Two nodes are enough for a keyed member next to a foreign
  one, and two tasks for a message of the wrong task. Two epochs let a group
  be replaced after it is ready, and threshold 2 lets entries reach
  `Committing` and be removed. Every action and branch fires in the passing run
  (checked with TLC coverage). The violation runs use the same bounds.
- **Transaction caller.** `max_attempts = 2` allows a resend after a lost
  receipt and a retry after it.
- **View caller.** `max_attempts = 3` with jitter, so every delay position
  and both outcomes occur.
- **Size limit.** Numbers are placed at the word and unit boundaries: 8191
  and 8192 KiB around 2^16, and 2^16 - 1 and 2^16.
- **Block listener.** Height 4 and two restarts: enough for a failed fetch,
  a restart and a later block.
- **Pre-grouping.** Two group indices (0 and 1), three tasks and two database
  errors. This covers a regrouping to another index and to the next epoch of
  the same index. It also covers an error at either write followed by a
  redelivery, and two errors on the same task. The proofs hold for every
  value. Before the proofs, TLC also checked the inductive invariant on three
  indices and four tasks.
- **Deadlock checking.** It is off where the modelled call returns and the
  system stops: one transaction or config call, bounded restarts or height.

## Fairness

Only the runs `tx_caller` and `pregroup_stuck` assume fairness (`FairSpec`).

- **`PreGrouping`** (used only by the violation run `pregroup_stuck`).
  - `SF_vars(PublishTask)`: the listener publishes every log it sees.
    Fairness is strong because redeliveries of the current task may keep
    `notify` busy.
  - `WF_vars(RepublishTask)`: the current task is delivered again and
    again. This is deliberately more than the code gives: spec 4.1 promises
    at-least-once delivery within the process lifetime, not a redelivery of
    a task whose handler failed (the error is only logged). It is assumed so
    that the violation is robust: even with endless redelivery the failed
    task is never started. With less delivery it is stuck all the more.
  - `WF_vars(Notify)`: the queue dispatches each event to completion.
  - Nothing is assumed of the controller, the database errors (bounded by
    `MaxFailures`) or the DKG pipeline.
- **`TransactionCaller`.**
  - Weak fairness on the caller's own steps.
  - For each transaction, weak fairness on "the chain mines or drops it".
    The code relies on the chain for this, and it cannot be shown of the
    code. That is why `CallReturns` is stated as conditional. Provider
    errors and lost receipts get no fairness.

## Proofs

`CommitterServerProofs` proves, for every value of the constants satisfying
`ConstAssumption`:

- `IInvInvariant`: `Spec => []IInv`;
- `TypeCorrect`: `Spec => []TypeOK`;
- `CachedPartialsVerifyHolds`;
- the action property `PartialFromKeyedMemberHolds`.

`ConstAssumption` requires `Self` to be a node, a malformed address not to be
a node, a forged message not to be a task's, and a positive threshold.

Neither property is inductive by itself. The strengthening is
`IInv == TypeOK /\ EntryInv /\ HandlerInv`:

- `EntryInv`: an entry is the one `ReadyToHandle` built. Its message is its
  task's, it carries this node's partial, and all its partials are valid
  partials on that message.
- `HandlerInv`: a handler at or past `get_member` holds a valid partial from
  a keyed member of the *current* group. Past the message check, its message
  is the task's.

The argument for `HandlerInv` is that group writers are disabled while the
read guard is held. `HandlerInv` is needed because `AddPartial` only looks at
`req`: what makes its partial safe was established by earlier steps.

The lemmas `NextTypeOK`, `NextEntryInv`, `NextHandlerInv` and
`NextKeyedStep` take one step per action. TLC checked `IInv` as an invariant
of the committer run before it was proved.

`PreGroupingProofs` proves, for every value of the constants satisfying
`PreGroupingAssumption`:

- `IInvInvariant`: `Spec => []IInv`;
- `TypeCorrect`: `Spec => []TypeOK`;
- `Refinement`: `Spec => ImplementsDKGStatus`, so `PreGrouping` implements
  `DKGStatusSpec` under `AbsKey` / `AbsStatus`.

The refinement step needs more than the type invariant. The difficult cases
are these:

- A redelivered task must map to a stutter.
- `SaveTaskInfo` must map to a `Regroup` to a *different* key, with status
  `None`.
- `PostProcess`'s final `None` must read as `Done`, which means the group's
  DKG must have been started.

`IInv` is `TypeOK` together with the following conjuncts:

- `HandlingInv`: a running `notify` handles the task published last.
- `EpochInv` and `TasksDistinct`: the controller never emits the same
  `(index, epoch)` twice.
- `RunInv`: `RunDKG` is published only for published tasks.
- `CurrentRunInv`: a started current task is still the cached group.
- `NotifyInv`: what `notify` has established at each await. At `save` the
  task differs from the cache. At `update` and `publish` the cache holds the
  task and its DKG has not been started yet.
- `StatusInv`: a status past `InPhase` belongs to a started group.

`NotifyInv` and `TasksDistinct` show that `PublishRunDKG` maps to `Advance`
from `None`: the task's DKG was not already started under another
`(index, epoch)`. `StatusInv` makes `PostProcess` map to a DAG edge. TLC
checked `IInv` as an invariant before it was proved. The refinement's last
step is `PTL`, on `[]IInv` and `RefineStep`.

`ViewCallerProofs` proves `IInvInvariant` and `TypeCorrect`. Its invariant
`DelaysTaken` says `Len(delays) = attempt - 1`, and that the k-th delay is
one of the strategy's k-th choices.

The proof never evaluates a delay: the invariant types `delays` as a
sequence of the strategy's delays. `ViewCaller`'s own `TypeOK` claims
`delays \in Seq(Nat)`. That needs `Factor * Base^(k+1) \in Nat`, and the
provers know no law of `^` beyond constant instances such as `2^3 = 8`.
So `TypeCorrect` is stated under the hypothesis `BasePowers`: every
`Base^n` is a natural. Given that, `DelayChoicesNat` shows that every delay
the strategy offers is a natural, jittered or not. `IInvType` then reads
`TypeOK` off `DelaysTaken`.

`TransactionCallerProofs` proves, for every retry descriptor and both values
of `retry_on_transaction_fail`:

- `TypeCorrect`;
- `OkMeansMinedHolds`;

Its `IInv` adds the following to `TypeOK` and `OkMeansMined`:

- `PhaseInv`: RetryIf has returned exactly when the call is done, and an
  awaited receipt is of a broadcast transaction.

`OkMeansMined` is preserved because a transaction's status changes only
while it is pending, and Ok names a transaction already mined with success.
The lemma `FailIInv` covers both branches of `RetryIf` once, for the four
error paths (`SendError`, `ReceiptError`, `ReceiptNotFound` and a failed
`Receipt`).

`ConfigInitProofs` proves four results:

- `UserValuesKeptHolds`. Whatever the loaded limits, the first arm of the
  match whose guard holds names a field that is 0 (`FirstZeroIsZero`). So no
  non-zero field changes.
- `DeserializeMatchesSpecHolds`. This is stated under the hypothesis
  `PowersPositive`: every `2^n` is a positive natural, a fact of arithmetic
  the provers cannot derive.
  - `CheckedMulExact` shows that `checked_mul`'s test `n > MaxWord \div m`
    fails exactly when `n * m` fits the word.
  - `DeserializeCorrect` follows every visitor path for an input in the
    spec's domain.
  - `LoadInv` ties the state to it: a result that was set is
    `DeserializeLimit(input)`.
- `TypeCorrect`, under the same hypothesis. `DeserializeType` shows that
  every visitor path returns a byte count in `0..MaxWord` or one of the
  visitor's error messages. The invariant is `TypeOK /\ LoadInv`.
  `SizeTypeOK` names these messages (`ErrorMessages`) rather than `STRING`.
  The provers cannot show that a string literal is in `STRING`, and the
  named set is also the stronger claim.
- `OnlyFirstZeroFilled`, the general form of the `config_limits`
  violation. For every `time_limits` section with two fields at 0,
  `initialize` leaves the later one at 0. This holds because the match
  runs only the arm of the first zero field (`FirstZeroFirst`). TLC shows
  the violation on the run's values; the theorem shows that no choice of
  values avoids it.

While this proof was being written it showed that the earlier `Inputs`
gave `visit_i64` the fixed value 3. For a word of 1 bit, the model could
then return `Ok(3)`, which no u64 reader could. TLC confirmed this, and
`Inputs` now bounds an i64 by half the word, as the code's types do.

Prover notes:

- SMT cannot type a record whose field holds a number in one branch and a
  string in another (`Ok` and `Err`). Such steps are split: SMT proves the
  arithmetic condition, and Zenon picks the `IF` or `CASE` branch.
- `SizeAssumption`'s `"" \notin UnitWords` makes SMT fail. Its numeric part
  is restated as `SizeFacts`.

Only TLC checks the rest:

- The arithmetic hypotheses `PowersPositive` and `BasePowers`. They are
  true of `^`, but the provers cannot derive them. Each run evaluates `^`
  on its own constants.
- Liveness (`CallReturns`, `TaskEventuallyRun`). It would need ENABLED and
  fairness, both outside TLAPS here.
- Any fact about recursive definitions, for the same reason.

## Not modelled

- **Outside this repository.** The DKG protocol itself, the scheduler, the
  event queue, and the cache and database implementations. Their effect on
  the caches is modelled from the spec.
- **Wallet construction.** `build_wallet_from_config` reads environment
  variables and key files.
- **Formatting and conversions.** The `Display` implementations and the
  `TryFrom` conversions.
- **Migrations and event structs.** These contain no state changes.
- **Coordinator `BoardPublisher`.** It is not modelled yet.
- **Untested hazards.** The hazards in `PROJECT.json` that no property
  covers yet, each with its reason:
  - chain reorganisations (`provider.rs:41`): the model's chain is linear;
  - persistence of the signature cache (`dal/src/lib.rs:162`);
  - the spec's delay formula (`lib.rs:30`).
- **Partly covered hazards.** A stale `NewDKGTask` delivered out of order
  (`pre_grouping.rs:92`) is outside the spec's delivery guarantee. A group
  at epoch 0 (`pre_grouping.rs:84`) would be read as "no group" by
  `unwrap_or(0)`. The controller in the model starts epochs at 1.
