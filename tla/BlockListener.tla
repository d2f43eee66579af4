---------------------------- MODULE BlockListener ----------------------------
(***************************************************************************)
(* BlockListener::listen over ChainProvider::subscribe_new_block_height,   *)
(* restarted by the scheduler after every error (spec 4.8; the scheduler   *)
(* is not in this repository).  watch_blocks installs a block filter that  *)
(* reports the hashes of blocks mined after it was installed, in order;    *)
(* each hash is fetched with get_block and its number published as        *)
(* NewBlock{chain_id, block_height} on the event queue.  The chain is     *)
(* linear: blocks are only appended, never reorganised away.  ethers'      *)
(* FilterWatcher never ends the stream (it swallows polling errors), so    *)
(* listen stops only through a `?` error.                                  *)
(***************************************************************************)
EXTENDS Naturals, Sequences

CONSTANTS
    MaxHeight,     \* bound on the chain's height
    MaxRestarts    \* bound on the scheduler's restarts of the listener

VARIABLES
    head,       \* chain: height of the latest block
    lphase,     \* "start", "watch", "fetch" or "stopped" (listen returned Err)
    next,       \* height of the next block the filter reports
    fetching,   \* height of the block whose hash the stream yielded
    published,  \* heights of the NewBlock events published, in order
    restarts    \* restarts of listen so far

vars == <<head, lphase, next, fetching, published, restarts>>

Init ==
    /\ head \in 0..MaxHeight
    /\ lphase = "start"
    /\ next = 0
    /\ fetching = 0
    /\ published = <<>>
    /\ restarts = 0

\* The chain mines a block on top of its head (a linear chain: no reorgs).
ChainMine ==
    /\ head < MaxHeight
    /\ head' = head + 1
    /\ UNCHANGED <<lphase, next, fetching, published, restarts>>

\* The node's block filter (eth_newBlockFilter) reports the blocks mined
\* after it was installed: the first height it reports.
WatchFrom == head + 1

\* listen builds the provider and calls provider.watch_blocks(); `?`
\* returns its error.
WatchBlocks ==
    /\ lphase = "start"
    /\ \/ /\ lphase' = "watch"
          /\ next' = WatchFrom
       \/ /\ lphase' = "stopped"
          /\ UNCHANGED next
    /\ UNCHANGED <<head, fetching, published, restarts>>

\* stream.next() yields the hash of the next new block.
StreamNext ==
    /\ lphase = "watch"
    /\ next <= head
    /\ fetching' = next
    /\ next' = next + 1
    /\ lphase' = "fetch"
    /\ UNCHANGED <<head, published, restarts>>

\* get_block(hash) returns the block with its number; the callback
\* publishes NewBlock on the event queue and returns Ok(()).
GetBlockOk ==
    /\ lphase = "fetch"
    /\ published' = Append(published, fetching)
    /\ lphase' = "watch"
    /\ UNCHANGED <<head, next, fetching, restarts>>

\* get_block fails, returns None, or the block has no number: `?` ends
\* listen with the error (FetchingBlockError for the two None cases).
GetBlockFail ==
    /\ lphase = "fetch"
    /\ lphase' = "stopped"
    /\ UNCHANGED <<head, next, fetching, published, restarts>>

\* The scheduler logs the error, sleeps and runs listen again.
Restart ==
    /\ lphase = "stopped"
    /\ restarts < MaxRestarts
    /\ lphase' = "start"
    /\ restarts' = restarts + 1
    /\ UNCHANGED <<head, next, fetching, published>>

Next ==
    \/ ChainMine \/ WatchBlocks \/ StreamNext
    \/ GetBlockOk \/ GetBlockFail \/ Restart

Spec == Init /\ [][Next]_vars

\* The spec (4.2, block listener): a NewBlock is published for every new
\* block, so the heights published follow each other without a gap, across
\* the restarts the scheduler makes of listen after a get_block error.
EveryBlockPublished ==
    \A i \in 1..(Len(published) - 1) : published[i + 1] = published[i] + 1

=============================================================================
