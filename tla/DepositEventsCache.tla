------------------------- MODULE DepositEventsCache -------------------------
(***************************************************************************)
(* DepositRegistryService: the persisted cache of deposit events and the   *)
(* in-memory deposit tree the sanity checker keeps beside it.              *)
(*                                                                         *)
(* updateEventsCache reads the finalized block and the cache, returns if   *)
(* the cache is ahead of that block (verifyCacheBlock), then walks the     *)
(* missing blocks in chunks of DEPOSIT_EVENTS_STEP: each chunk is fetched, *)
(* added to the tree (addEventGroupToIndex) and then written to the store  *)
(* (insertEventsCacheBatch).  At the end the tree root is compared with    *)
(* the deposit root of the finalized block and, if equal, the last indexed *)
(* event is stored as lastValidEvent.  getAllDepositedEvents returns the   *)
(* cached events plus fresh ones up to the guardian's block, and isValid   *)
(* says whether the tree plus the fresh events gives that block's root.    *)
(*                                                                         *)
(* A deposit event is its block number (one deposit per block); the root   *)
(* of a tree is abstracted to its sequence of leaves.  Which blocks hold a *)
(* deposit is fixed by Init, all after the contract's deployment block:    *)
(* getCachedEvents counts that block as cached, so an event in it would    *)
(* never be fetched.  The chain head and the finalized block grow.         *)
(* Reorganisations of unfinalized blocks are not modelled.  The sanity     *)
(* checker's code is not in the repository: its operations follow its     *)
(* specification (section 4.4).                                            *)
(***************************************************************************)
EXTENDS Naturals, Sequences, SequencesExt

CONSTANTS
    MaxBlock,            \* the chain stops growing at this height
    DEPOSIT_EVENTS_STEP, \* blocks per fetched chunk
    MaxFetchFailures,    \* bound on rejected fetchEventsFallOver calls
    MaxInsertFailures,   \* bound on failed insertEventsCacheBatch writes
    MaxRestarts,         \* bound on daemon restarts
    DeploymentBlock      \* getDeploymentBlockByNetwork (DEPLOYMENT_BLOCK_NETWORK)

ASSUME /\ DEPOSIT_EVENTS_STEP \in Nat \ {0}
       /\ DeploymentBlock \in Nat

VARIABLES
    deposits,      \* blocks that hold a deposit event
    head,          \* the chain head
    finalized,     \* the finalized block
    store,         \* the persisted cache: [endBlock, data]
    lastValid,     \* the persisted lastValidEvent, 0 if none
    tree,          \* the sanity checker's deposit tree (its leaves)
    pc,            \* "idle", or "chunk" inside the loop of updateEventsCache
    next,          \* block: the start of the next chunk
    target,        \* finalizedBlockNumber of the running update
    lastIndexed,   \* lastIndexedEvent of the running update, 0 if none
    read,          \* the last getAllDepositedEvents result
    fetchFailures, insertFailures, restarts

vars == <<deposits, head, finalized, store, lastValid, tree, pc, next, target,
          lastIndexed, read, fetchFailures, insertFailures, restarts>>

MinOf(a, b) == IF a < b THEN a ELSE b
MaxOf(a, b) == IF a > b THEN a ELSE b

\* The deposit events of blocks lo..hi in chain order.
ChainEvents(lo, hi) == SetToSortSeq({b \in deposits : lo <= b /\ b <= hi}, <)

-----------------------------------------------------------------------------
(* DepositsRegistryStoreService and the sanity checker                     *)

\* DEPOSIT_CACHE_DEFAULT: what getEventsCache returns for an empty store.
DepositCacheDefault == [endBlock |-> 0, data |-> <<>>]

\* insertEventsCacheBatch: one atomic write batch of the chunk's events and
\* the new endBlock.
InsertEventsCacheBatch(to, evs) == [endBlock |-> to, data |-> store.data \o evs]

\* addEventGroupToIndex: the events are inserted into the tree as leaves.
AddEventGroupToIndex(evs) == tree \o evs

\* verifyCacheBlock: false when the cache ends after the given block.
VerifyCacheBlock(cache, blk) == cache.endBlock <= blk

\* verifyUpdatedEvents: the tree root equals the deposit root at block t.
VerifyUpdatedEvents(t) == tree = ChainEvents(1, t)

\* verifyFreshEvents: the tree with the fresh events added (to a clone)
\* gives the deposit root at block b.
VerifyFreshEvents(b, fresh) == tree \o fresh = ChainEvents(1, b)

-----------------------------------------------------------------------------
(* DepositRegistryService                                                  *)

\* getCachedEvents: the stored cache with its end raised to the deployment
\* block, so an empty store reads as covering every block up to it.
GetCachedEvents == [endBlock |-> MaxOf(store.endBlock, DeploymentBlock),
                    data |-> store.data]

\* Variant: the chunk ends one block too late.
ChunkToOffByOne(blk) == MinOf(target, blk + DEPOSIT_EVENTS_STEP)

\* The last block of the chunk that starts at blk.
ChunkTo(blk) == MinOf(target, blk + DEPOSIT_EVENTS_STEP - 1)

\* updateEventsCache up to the loop: the finalized block comes from a
\* provider that may lag behind the others; an invalid cache returns.
StartUpdate ==
    /\ pc = "idle"
    /\ \E f \in 0 .. finalized :
          IF VerifyCacheBlock(GetCachedEvents, f)
            THEN /\ pc' = "chunk" /\ next' = GetCachedEvents.endBlock + 1
                 /\ target' = f /\ lastIndexed' = 0
            ELSE UNCHANGED <<pc, next, target, lastIndexed>>
    /\ UNCHANGED <<deposits, head, finalized, store, lastValid, tree, read,
                   fetchFailures, insertFailures, restarts>>

\* One pass of the loop: fetchEventsFallOver, addEventGroupToIndex, then
\* insertEventsCacheBatch.  A failed write throws out of updateEventsCache
\* after the chunk is already in the tree.
FetchChunk ==
    /\ pc = "chunk" /\ next <= target
    /\ LET evs == ChainEvents(next, ChunkTo(next))
       IN \/ /\ tree' = AddEventGroupToIndex(evs)
             /\ store' = InsertEventsCacheBatch(ChunkTo(next), evs)
             /\ lastIndexed' = IF evs = <<>> THEN lastIndexed ELSE Last(evs)
             /\ next' = next + DEPOSIT_EVENTS_STEP
             /\ UNCHANGED <<pc, insertFailures>>
          \/ /\ insertFailures < MaxInsertFailures
             /\ tree' = AddEventGroupToIndex(evs)
             /\ insertFailures' = insertFailures + 1
             /\ pc' = "idle"
             /\ UNCHANGED <<store, lastIndexed, next>>
    /\ UNCHANGED <<deposits, head, finalized, lastValid, target, read,
                   fetchFailures, restarts>>

\* fetchEventsFallOver rejects after every provider failed.
FetchFails ==
    /\ pc = "chunk" /\ next <= target
    /\ fetchFailures < MaxFetchFailures
    /\ pc' = "idle"
    /\ fetchFailures' = fetchFailures + 1
    /\ UNCHANGED <<deposits, head, finalized, store, lastValid, tree, next,
                   target, lastIndexed, read, insertFailures, restarts>>

\* After the loop: verifyUpdatedEvents, then insertLastValidEvent when the
\* root is valid and the update indexed an event.
UpdateDone ==
    /\ pc = "chunk" /\ next > target
    /\ lastValid' = IF VerifyUpdatedEvents(target) /\ lastIndexed # 0
                      THEN lastIndexed ELSE lastValid
    /\ pc' = "idle"
    /\ UNCHANGED <<deposits, head, finalized, store, tree, next, target,
                   lastIndexed, read, fetchFailures, insertFailures, restarts>>

\* getAllDepositedEvents(blockNumber): the guardian's block may come from a
\* lagging provider.  Called between updates of the same cycle.
GetAllDepositedEvents ==
    /\ pc = "idle"
    /\ \E b \in 1 .. head :
          LET cache == GetCachedEvents IN
          read' =
            IF ~VerifyCacheBlock(cache, b)
              THEN [block |-> b, events |-> cache.data, isValid |-> FALSE]
              ELSE LET fresh == ChainEvents(cache.endBlock + 1, b)
                   IN [block |-> b, events |-> cache.data \o fresh,
                       isValid |-> VerifyFreshEvents(b, fresh)]
    /\ UNCHANGED <<deposits, head, finalized, store, lastValid, tree, pc, next,
                   target, lastIndexed, fetchFailures, insertFailures, restarts>>

\* The daemon restarts at any point; initialize builds the tree from the
\* stored events (sanityChecker.initialize) before updating the cache.
Restart ==
    /\ restarts < MaxRestarts
    /\ tree' = store.data
    /\ pc' = "idle"
    /\ restarts' = restarts + 1
    /\ UNCHANGED <<deposits, head, finalized, store, lastValid, next, target,
                   lastIndexed, read, fetchFailures, insertFailures>>

-----------------------------------------------------------------------------
(* The chain                                                               *)

NewHead ==
    /\ head < MaxBlock
    /\ head' = head + 1
    /\ UNCHANGED <<deposits, finalized, store, lastValid, tree, pc, next,
                   target, lastIndexed, read, fetchFailures, insertFailures,
                   restarts>>

Finalize ==
    /\ finalized < head
    /\ finalized' = finalized + 1
    /\ UNCHANGED <<deposits, head, store, lastValid, tree, pc, next, target,
                   lastIndexed, read, fetchFailures, insertFailures, restarts>>

Init ==
    /\ deposits \in SUBSET (DeploymentBlock + 1 .. MaxBlock)
    /\ head = 0 /\ finalized = 0
    /\ store = DepositCacheDefault /\ lastValid = 0
    /\ tree = store.data
    /\ pc = "idle" /\ next = 0 /\ target = 0 /\ lastIndexed = 0
    /\ read = [block |-> 0, events |-> <<>>, isValid |-> FALSE]
    /\ fetchFailures = 0 /\ insertFailures = 0 /\ restarts = 0

Next ==
    \/ StartUpdate \/ FetchChunk \/ FetchFails \/ UpdateDone
    \/ GetAllDepositedEvents \/ Restart \/ NewHead \/ Finalize

\* The guardian's cron runs updateEventsCache every block and its awaits
\* complete or fail; restarts and the chain get no fairness.
Spec ==
    /\ Init /\ [][Next]_vars
    /\ WF_vars(StartUpdate) /\ WF_vars(FetchChunk) /\ WF_vars(UpdateDone)

-----------------------------------------------------------------------------
(* Properties                                                              *)

\* The persisted cache is exactly the chain's deposit events up to its
\* endBlock, which is finalized: chunk bounds, resumption from endBlock + 1
\* after a failed fetch or write, and restarts never skip, repeat or run
\* ahead of finality.
StoreIsChainPrefix ==
    /\ store.endBlock <= finalized
    /\ store.data = ChainEvents(1, store.endBlock)

\* A read at the chain head would verify: the tree plus the fresh events
\* gives the head's deposit root.
IndexVerifies == tree \o ChainEvents(store.endBlock + 1, head) = ChainEvents(1, head)

\* Whatever fails, the daemon returns to states in which the deposit events
\* it reads verify (section 6: the tick is aborted, the daemon keeps
\* running).
DepositsVerifiableAgain == []<>IndexVerifies

====
