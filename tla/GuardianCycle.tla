--------------------------- MODULE GuardianCycle ---------------------------
(***************************************************************************)
(* The guardian's per-block decision cycle, GuardianService.handleNewBlock, *)
(* run from a cron job behind its @OneAtTime guard, together with the       *)
(* parts of StakingModuleGuardService it drives: the pause path, the        *)
(* per-module branches run under Promise.all, and the contract-state        *)
(* gating of handleCorrectKeys.                                             *)
(*                                                                         *)
(* The chain and the Keys API (KAPI) are the environment.  A block is a     *)
(* record of what the daemon reads at its hash: the deposit root (a count   *)
(* of deposits), the last-changed block of the key registry, each module's *)
(* nonce, whether a module holds a vetted unused key that is duplicated,   *)
(* front-run or badly signed ("bad"), whether a front-run deposit has       *)
(* happened ("theft") and which modules are paused.  Block hashes are the   *)
(* block numbers: reorganisations are not modelled here.                    *)
(***************************************************************************)
EXTENDS Naturals, FiniteSets, Sequences

CONSTANTS
    Modules,          \* staking modules
    Ticks,            \* activations of handleNewBlock that may be in flight
    MaxBlock,         \* the chain stops growing at this height
    ResigningBlocks,  \* GUARDIAN_DEPOSIT_RESIGNING_BLOCKS
    DSMVersion,       \* version() of the Deposit Security Module
    MaxFailures,      \* bound on awaits that reject (RPC, KAPI, broker)
    MaxKapiRegress    \* bound on KAPI answers from an older snapshot

ASSUME /\ Modules # {} /\ Ticks # {}
       /\ MaxBlock \in Nat \ {0} /\ ResigningBlocks \in Nat \ {0}
       /\ DSMVersion \in {2, 3}
       /\ MaxFailures \in Nat /\ MaxKapiRegress \in Nat

VARIABLES
    chain,         \* the blocks, chain[n] is block n
    kapiHead,      \* the block of the snapshot KAPI currently serves
    kapiRegress,   \* how often KAPI answered from an older snapshot
    pendingTx,     \* transactions the guardian submitted, not yet mined
    busy,          \* the @OneAtTime flag of handleNewBlock
    pc,            \* pc[t]: where activation t of handleNewBlock is
    opsBlk,        \* opsBlk[t]: block of the /v1/operators answer (meta)
    keysBlk,       \* keysBlk[t]: block of the /v1/keys answer (currMeta)
    br,            \* br[t][m]: the Promise.all branch of module m in t
    lastProcessed, \* BlockGuardService.lastProcessedStateMeta (0: unset)
    lastState,     \* lastContractsStateByModuleId
    published,     \* messages sent to the broker
    failures       \* rejected awaits so far

vars == <<chain, kapiHead, kapiRegress, pendingTx, busy, pc, opsBlk,
          keysBlk, br, lastProcessed, lastState, published, failures>>

NoState == [none |-> TRUE]    \* an unset entry of lastContractsStateByModuleId

Block == [root: Nat, lcbh: Nat, nonce: [Modules -> Nat],
          bad: [Modules -> BOOLEAN], theft: BOOLEAN, paused: SUBSET Modules]

ContractsState == [nonce: Nat, depositRoot: Nat, blockNumber: Nat,
                   lastChangedBlockHash: Nat]

Message ==
    [type: {"deposit"}, module: Modules, block: Nat, nonce: Nat, root: Nat,
     lcbh: Nat]
    \cup [type: {"pause"}, modules: SUBSET Modules, block: Nat]
    \cup [type: {"unvet"}, module: Modules, block: Nat, nonce: Nat]

Tx == [type: {"pause"}, modules: SUBSET Modules]
      \cup [type: {"unvet"}, module: Modules, nonce: Nat]

MainPc == {"idle", "operators", "keys", "collect", "pause", "modules"}

BranchPc == {"idle", "psign", "psend", "pdone", "check", "sign", "send",
             "done", "failed"}

ChainHead == chain[Len(chain)]

-----------------------------------------------------------------------------
(* Environment: the chain grows, KAPI follows it.                          *)

\* A new block includes the guardian's pending transactions: a pause pauses
\* its modules (all of them on a version 3 DSM), an unvet succeeds only if
\* the module's nonce is still the one it was signed for.
MineTxs(blk, n) ==
    LET pausedNow == UNION {tx.modules : tx \in {x \in pendingTx : x.type = "pause"}}
        unvetted == {m \in Modules :
                        \E tx \in pendingTx : /\ tx.type = "unvet"
                                              /\ tx.module = m
                                              /\ tx.nonce = blk.nonce[m]}
    IN [blk EXCEPT !.paused = @ \cup pausedNow,
                   !.bad = [m \in Modules |-> @[m] /\ m \notin unvetted],
                   !.nonce = [m \in Modules |-> IF m \in unvetted THEN @[m] + 1
                                                ELSE @[m]],
                   !.lcbh = IF unvetted # {} THEN n ELSE @]

\* What else block n may contain: nothing, a deposit, a front-run deposit
\* with a non-Lido withdrawal credential, or a keys operation on a module
\* that leaves it with or without a bad vetted unused key.
Successors(blk, n) ==
    {blk, [blk EXCEPT !.root = @ + 1],
     [blk EXCEPT !.root = @ + 1, !.theft = TRUE]}
    \cup {[blk EXCEPT !.bad[m] = b, !.nonce[m] = @ + 1, !.lcbh = n] :
            m \in Modules, b \in BOOLEAN}

NewBlock ==
    /\ Len(chain) < MaxBlock
    /\ \E blk \in Successors(MineTxs(ChainHead, Len(chain) + 1), Len(chain) + 1) :
          chain' = Append(chain, blk)
    /\ pendingTx' = {}
    /\ UNCHANGED <<kapiHead, kapiRegress, busy, pc, opsBlk, keysBlk, br,
                   lastProcessed, lastState, published, failures>>

KapiSync ==
    /\ kapiHead < Len(chain)
    /\ kapiHead' \in kapiHead + 1 .. Len(chain)
    /\ UNCHANGED <<chain, kapiRegress, pendingTx, busy, pc, opsBlk, keysBlk,
                   br, lastProcessed, lastState, published, failures>>

\* A KAPI replica answers from an older snapshot.
KapiRegress ==
    /\ kapiRegress < MaxKapiRegress
    /\ kapiHead > 1
    /\ kapiHead' \in 1 .. kapiHead - 1
    /\ kapiRegress' = kapiRegress + 1
    /\ UNCHANGED <<chain, pendingTx, busy, pc, opsBlk, keysBlk, br,
                   lastProcessed, lastState, published, failures>>

-----------------------------------------------------------------------------
(* Helpers translated from the services.                                   *)

\* BlockGuardService.isNeedToProcessNewState: false when the block number
\* is not newer or the hash is the one processed last.
IsNeedToProcessNewState(b) ==
    lastProcessed = 0 \/ (b > lastProcessed /\ b # lastProcessed)

\* StakingRouterService.isEqualLastChangedBlockHash
IsEqualLastChangedBlockHash(b1, b2) == chain[b1].lcbh = chain[b2].lcbh

\* StakingModuleGuardService.isSameContractsStates: the nonce is not
\* compared, the re-signing window is blockNumber / RESIGNING_BLOCKS.
IsSameContractsStates(s1, s2) ==
    /\ s1 # NoState /\ s2 # NoState
    /\ s1.depositRoot = s2.depositRoot
    /\ s1.lastChangedBlockHash = s2.lastChangedBlockHash
    /\ s1.blockNumber \div ResigningBlocks = s2.blockNumber \div ResigningBlocks

\* StakingModuleGuardService.alreadyPausedDeposits: only a version 3 DSM
\* has a global pause; for version 2 it reports false.
AlreadyPausedDeposits(blk) == DSMVersion >= 3 /\ blk.paused # {}

\* StakingModuleGuardService.canDeposit: front-run, invalid and duplicated
\* keys are the "bad" flag of the keys answer.
CanDeposit(opsBlock, keysBlock, m) ==
    ~(opsBlock.theft \/ AlreadyPausedDeposits(opsBlock) \/ keysBlock.bad[m])

\* The ContractsState that handleCorrectKeys builds for module m in t.
CurrentContractsState(t, m) ==
    [nonce |-> chain[opsBlk[t]].nonce[m], depositRoot |-> chain[opsBlk[t]].root,
     blockNumber |-> opsBlk[t], lastChangedBlockHash |-> chain[opsBlk[t]].lcbh]

\* A pause transaction of this guardian is still awaiting tx.wait(): the
\* per-method @OneAtTime of SecurityService.pauseDeposits drops new calls.
PauseInFlight == \E tx \in pendingTx : tx.type = "pause"

SubmitPause(mods) ==
    pendingTx' = IF PauseInFlight THEN pendingTx
                 ELSE pendingTx \cup {[type |-> "pause", modules |-> mods]}

Settled(t) == \A m \in Modules : br[t][m] \in {"idle", "done", "failed", "pdone"}

\* handleNewBlock returns or throws: its catch/finally runs and @OneAtTime
\* releases the flag; branches still awaiting keep running.
EndCycle(t) ==
    /\ pc' = [pc EXCEPT ![t] = "idle"]
    /\ busy' = FALSE

-----------------------------------------------------------------------------
(* GuardianService: the cron job and handleNewBlock.                       *)

\* subscribeToModulesUpdates: the cron job calls handleNewBlock; while an
\* earlier call is in flight @OneAtTime returns at once (no step).  A new
\* activation t is only taken when its previous branches have settled.
CronTick(t) ==
    /\ ~busy
    /\ pc[t] = "idle" /\ Settled(t)
    /\ busy' = TRUE
    /\ pc' = [pc EXCEPT ![t] = "operators"]
    /\ br' = [br EXCEPT ![t] = [m \in Modules |-> "idle"]]
    /\ UNCHANGED <<chain, kapiHead, kapiRegress, pendingTx, opsBlk, keysBlk,
                   lastProcessed, lastState, published, failures>>

\* getOperatorListWithModule, initCachedContracts at its blockHash, then the
\* block guard: an unchanged block ends the cycle.
GetOperatorListWithModule(t) ==
    /\ pc[t] = "operators"
    /\ IF IsNeedToProcessNewState(kapiHead)
         THEN /\ pc' = [pc EXCEPT ![t] = "keys"]
              /\ UNCHANGED busy
         ELSE EndCycle(t)
    /\ opsBlk' = [opsBlk EXCEPT ![t] = kapiHead]
    /\ UNCHANGED <<chain, kapiHead, kapiRegress, pendingTx, keysBlk, br,
                   lastProcessed, lastState, published, failures>>

\* getKeys, then isEqualLastChangedBlockHash against the operators' meta:
\* a KAPI update between the two requests throws.
GetKeys(t) ==
    /\ pc[t] = "keys"
    /\ keysBlk' = [keysBlk EXCEPT ![t] = kapiHead]
    /\ IF IsEqualLastChangedBlockHash(opsBlk[t], kapiHead)
         THEN /\ pc' = [pc EXCEPT ![t] = "collect"]
              /\ UNCHANGED busy
         ELSE EndCycle(t)
    /\ UNCHANGED <<chain, kapiHead, kapiRegress, pendingTx, opsBlk, br,
                   lastProcessed, lastState, published, failures>>

\* BlockData: what getCurrentBlockData, getHistoricalFrontRun, version and
\* alreadyPausedDeposits give the rest of the cycle for the block numbered
\* n.  Hashes, addresses, the deposit root and the event group are left out.
BlockData(n) ==
    [blockNumber |-> n,
     securityVersion |-> DSMVersion,
     alreadyPausedDeposits |-> AlreadyPausedDeposits(chain[n]),
     theftHappened |-> chain[n].theft]

\* pauseDepositsV3 acts on theft unless deposits are already paused;
\* pauseDepositsV2 acts on theft for an older DSM.
PauseV3Needed(d) ==
    d.securityVersion >= 3 /\ d.theftHappened /\ ~d.alreadyPausedDeposits
PauseV2Needed(d) == d.securityVersion < 3 /\ d.theftHappened

\* Variant: pauseDepositsV2 keeps the version 3 test of pauseDepositsV3,
\* so a version 2 DSM never takes a pause path.
CollectBlockDataNoV2Pause(t) ==
    LET d == BlockData(opsBlk[t]) IN
    /\ pc[t] = "collect"
    /\ IF PauseV3Needed(d)
         THEN /\ pc' = [pc EXCEPT ![t] = "pause"]
              /\ UNCHANGED br
         ELSE /\ pc' = [pc EXCEPT ![t] = "modules"]
              /\ br' = [br EXCEPT ![t] = [m \in Modules |-> "check"]]
    /\ UNCHANGED <<chain, kapiHead, kapiRegress, pendingTx, busy, opsBlk,
                   keysBlk, lastProcessed, lastState, published, failures>>

\* The collect step given the block data d: pauseDepositsV3 goes on to the
\* global pause, pauseDepositsV2 to a pause branch per module, and
\* otherwise the module branches start.
CollectBlockDataAt(t, d) ==
    /\ pc[t] = "collect"
    /\ CASE PauseV3Needed(d) ->
              /\ pc' = [pc EXCEPT ![t] = "pause"]
              /\ UNCHANGED br
         [] PauseV2Needed(d) ->
              /\ pc' = [pc EXCEPT ![t] = "pause"]
              /\ br' = [br EXCEPT ![t] = [m \in Modules |-> "psign"]]
         [] OTHER ->
              /\ pc' = [pc EXCEPT ![t] = "modules"]
              /\ br' = [br EXCEPT ![t] = [m \in Modules |-> "check"]]
    /\ UNCHANGED <<chain, kapiHead, kapiRegress, pendingTx, busy, opsBlk,
                   keysBlk, lastProcessed, lastState, published, failures>>

\* Variant: theft and the pause state are read at the latest block instead
\* of the operators' pinned blockHash.
CollectBlockDataLatest(t) == CollectBlockDataAt(t, BlockData(Len(chain)))

\* depositService.handleNewBlock, getCurrentBlockData, getHistoricalFrontRun,
\* getStakingModulesData, version, alreadyPausedDeposits and the duplicate
\* search: all read at the pinned blockHash.  Then pauseDepositsV3 and
\* pauseDepositsV2 run; each does nothing unless theft happened (and, for
\* version 3, deposits are not already paused).
CollectBlockData(t) == CollectBlockDataAt(t, BlockData(opsBlk[t]))

\* pauseDepositsV3: one global pause, signed, submitted and broadcast.
PauseDepositsV3(t) ==
    /\ DSMVersion >= 3
    /\ pc[t] = "pause"
    /\ SubmitPause(Modules)
    /\ published' = published \cup
          {[type |-> "pause", modules |-> Modules, block |-> opsBlk[t]]}
    /\ pc' = [pc EXCEPT ![t] = "modules"]
    /\ br' = [br EXCEPT ![t] = [m \in Modules |-> "check"]]
    /\ UNCHANGED <<chain, kapiHead, kapiRegress, busy, opsBlk, keysBlk,
                   lastProcessed, lastState, failures>>

\* handleKeysIntersections, first half: await signPauseData, then call
\* securityService.pauseDeposits without awaiting it.
SignPauseData(t, m) ==
    /\ br[t][m] = "psign"
    /\ SubmitPause({m})
    /\ br' = [br EXCEPT ![t][m] = "psend"]
    /\ UNCHANGED <<chain, kapiHead, kapiRegress, busy, pc, opsBlk, keysBlk,
                   lastProcessed, lastState, published, failures>>

\* handleKeysIntersections, second half: await sendPauseMessage.
SendPauseMessage(t, m) ==
    /\ br[t][m] = "psend"
    /\ published' = published \cup
          {[type |-> "pause", modules |-> {m}, block |-> opsBlk[t]]}
    /\ br' = [br EXCEPT ![t][m] = "pdone"]
    /\ UNCHANGED <<chain, kapiHead, kapiRegress, pendingTx, busy, pc, opsBlk,
                   keysBlk, lastProcessed, lastState, failures>>

\* pauseDeposits resolves when every module's pause has been sent; the
\* module branches start.
PauseDepositsDone(t) ==
    /\ DSMVersion < 3
    /\ pc[t] = "pause"
    /\ \A m \in Modules : br[t][m] = "pdone"
    /\ pc' = [pc EXCEPT ![t] = "modules"]
    /\ br' = [br EXCEPT ![t] = [m \in Modules |-> "check"]]
    /\ UNCHANGED <<chain, kapiHead, kapiRegress, pendingTx, busy, opsBlk,
                   keysBlk, lastProcessed, lastState, published, failures>>

\* handleUnvetting: a module with bad keys gets an unvet message and an
\* unvetSigningKeys transaction for the nonce of the operators' answer.
HandleUnvetting(t, m) ==
    IF chain[keysBlk[t]].bad[m]
      THEN /\ published' = published \cup
                {[type |-> "unvet", module |-> m, block |-> opsBlk[t],
                  nonce |-> chain[opsBlk[t]].nonce[m]]}
           /\ pendingTx' = pendingTx \cup
                {[type |-> "unvet", module |-> m, nonce |-> chain[opsBlk[t]].nonce[m]]}
      ELSE UNCHANGED <<published, pendingTx>>

\* handleCorrectKeys up to its first await: the current state is compared
\* with the last one and stored before anything is signed.
HandleCorrectKeys(t, m) ==
    LET cur == CurrentContractsState(t, m) IN
    /\ lastState' = [lastState EXCEPT ![m] = cur]
    /\ br' = [br EXCEPT ![t][m] = IF IsSameContractsStates(cur, lastState[m])
                                    THEN "done" ELSE "sign"]

\* Variant: the branch signs without consulting canDeposit.
CheckModuleNoCanDeposit(t, m) ==
    /\ br[t][m] = "check"
    /\ HandleUnvetting(t, m)
    /\ HandleCorrectKeys(t, m)
    /\ UNCHANGED <<chain, kapiHead, kapiRegress, busy, pc, opsBlk, keysBlk,
                   lastProcessed, failures>>

\* One Promise.all branch up to the await of signDepositData: front-run
\* and invalid keys, the module's duplicates, handleUnvetting, then either
\* a soft pause (canDeposit false) or handleCorrectKeys.
CheckModule(t, m) ==
    /\ br[t][m] = "check"
    /\ HandleUnvetting(t, m)
    /\ IF CanDeposit(chain[opsBlk[t]], chain[keysBlk[t]], m)
         THEN HandleCorrectKeys(t, m)
         ELSE /\ br' = [br EXCEPT ![t][m] = "done"]
              /\ UNCHANGED lastState
    /\ UNCHANGED <<chain, kapiHead, kapiRegress, busy, pc, opsBlk, keysBlk,
                   lastProcessed, failures>>

\* await securityService.signDepositData (it reads the attest prefix).
SignDepositData(t, m) ==
    /\ br[t][m] = "sign"
    /\ br' = [br EXCEPT ![t][m] = "send"]
    /\ UNCHANGED <<chain, kapiHead, kapiRegress, pendingTx, busy, pc, opsBlk,
                   keysBlk, lastProcessed, lastState, published, failures>>

DepositMessage(t, m) ==
    [type |-> "deposit", module |-> m, block |-> opsBlk[t],
     nonce |-> chain[opsBlk[t]].nonce[m], root |-> chain[opsBlk[t]].root,
     lcbh |-> chain[opsBlk[t]].lcbh]

\* await guardianMessageService.sendDepositMessage.
SendDepositMessage(t, m) ==
    /\ br[t][m] = "send"
    /\ published' = published \cup {DepositMessage(t, m)}
    /\ br' = [br EXCEPT ![t][m] = "done"]
    /\ UNCHANGED <<chain, kapiHead, kapiRegress, pendingTx, busy, pc, opsBlk,
                   keysBlk, lastProcessed, lastState, failures>>

\* Variant: the processed block is stored one past the one processed.
PingMessageBrokerOffByOne(t) ==
    /\ pc[t] = "modules"
    /\ \A m \in Modules : br[t][m] = "done"
    /\ lastProcessed' = opsBlk[t] + 1
    /\ EndCycle(t)
    /\ UNCHANGED <<chain, kapiHead, kapiRegress, pendingTx, opsBlk, keysBlk,
                   br, lastState, published, failures>>

\* Variant: the cycle ends without setLastProcessedStateMeta.
PingMessageBrokerNoMeta(t) ==
    /\ pc[t] = "modules"
    /\ \A m \in Modules : br[t][m] = "done"
    /\ EndCycle(t)
    /\ UNCHANGED <<chain, kapiHead, kapiRegress, pendingTx, opsBlk, keysBlk,
                   br, lastProcessed, lastState, published, failures>>

\* Promise.all resolved: pingMessageBroker, then setLastProcessedStateMeta.
PingMessageBroker(t) ==
    /\ pc[t] = "modules"
    /\ \A m \in Modules : br[t][m] = "done"
    /\ lastProcessed' = opsBlk[t]
    /\ EndCycle(t)
    /\ UNCHANGED <<chain, kapiHead, kapiRegress, pendingTx, opsBlk, keysBlk,
                   br, lastState, published, failures>>

\* An await of the main flow rejects (KAPI, RPC, store, broker): the catch
\* logs it and the cycle ends without setLastProcessedStateMeta.
FailAwait(t) ==
    /\ failures < MaxFailures
    /\ \/ pc[t] \in {"operators", "keys", "collect"}
       \/ pc[t] = "pause" /\ DSMVersion >= 3
       \/ pc[t] = "modules" /\ \A m \in Modules : br[t][m] = "done"
    /\ failures' = failures + 1
    /\ EndCycle(t)
    /\ UNCHANGED <<chain, kapiHead, kapiRegress, pendingTx, opsBlk, keysBlk,
                   br, lastProcessed, lastState, published>>

\* An await inside a Promise.all branch rejects: Promise.all rejects at once
\* and handleNewBlock ends, while the sibling branches go on running.
FailBranch(t, m) ==
    /\ failures < MaxFailures
    /\ br[t][m] \in {"psign", "psend", "check", "sign", "send"}
    /\ failures' = failures + 1
    /\ br' = [br EXCEPT ![t][m] = "failed"]
    /\ IF pc[t] \in {"pause", "modules"} THEN EndCycle(t)
                                         ELSE UNCHANGED <<pc, busy>>
    /\ UNCHANGED <<chain, kapiHead, kapiRegress, pendingTx, opsBlk, keysBlk,
                   lastProcessed, lastState, published>>

-----------------------------------------------------------------------------

Init ==
    /\ chain = << [root |-> 0, lcbh |-> 1, nonce |-> [m \in Modules |-> 0],
                   bad |-> [m \in Modules |-> FALSE], theft |-> FALSE,
                   paused |-> {}] >>
    /\ kapiHead = 1
    /\ kapiRegress = 0
    /\ pendingTx = {}
    /\ busy = FALSE
    /\ pc = [t \in Ticks |-> "idle"]
    /\ opsBlk = [t \in Ticks |-> 1]
    /\ keysBlk = [t \in Ticks |-> 1]
    /\ br = [t \in Ticks |-> [m \in Modules |-> "idle"]]
    /\ lastProcessed = 0
    /\ lastState = [m \in Modules |-> NoState]
    /\ published = {}
    /\ failures = 0

Environment == NewBlock \/ KapiSync \/ KapiRegress

Cycle(t) ==
    \/ CronTick(t) \/ GetOperatorListWithModule(t) \/ GetKeys(t)
    \/ CollectBlockData(t) \/ PauseDepositsV3(t) \/ PauseDepositsDone(t)
    \/ PingMessageBroker(t) \/ FailAwait(t)
    \/ \E m \in Modules :
          \/ SignPauseData(t, m) \/ SendPauseMessage(t, m)
          \/ CheckModule(t, m) \/ SignDepositData(t, m)
          \/ SendDepositMessage(t, m) \/ FailBranch(t, m)

Next == Environment \/ \E t \in Ticks : Cycle(t)

\* The cron timer keeps firing, every await settles (requests time out),
\* and KAPI keeps indexing the chain.  The chain itself may stop.
Fairness ==
    /\ WF_vars(KapiSync)
    /\ \A t \in Ticks :
          /\ WF_vars(CronTick(t)) /\ WF_vars(GetOperatorListWithModule(t))
          /\ WF_vars(GetKeys(t)) /\ WF_vars(CollectBlockData(t))
          /\ WF_vars(PauseDepositsV3(t)) /\ WF_vars(PauseDepositsDone(t))
          /\ WF_vars(PingMessageBroker(t))
          /\ \A m \in Modules :
                /\ WF_vars(SignPauseData(t, m)) /\ WF_vars(SendPauseMessage(t, m))
                /\ WF_vars(CheckModule(t, m)) /\ WF_vars(SignDepositData(t, m))
                /\ WF_vars(SendDepositMessage(t, m))

Spec == Init /\ [][Next]_vars /\ Fairness

-----------------------------------------------------------------------------
(* Properties                                                              *)

TypeOK ==
    /\ chain \in Seq(Block) /\ Len(chain) \in 1 .. MaxBlock
    /\ kapiHead \in 1 .. Len(chain)
    /\ kapiRegress \in 0 .. MaxKapiRegress
    /\ pendingTx \subseteq Tx
    /\ busy \in BOOLEAN
    /\ pc \in [Ticks -> MainPc]
    /\ opsBlk \in [Ticks -> 1 .. Len(chain)]
    /\ keysBlk \in [Ticks -> 1 .. Len(chain)]
    /\ br \in [Ticks -> [Modules -> BranchPc]]
    /\ lastProcessed \in 0 .. Len(chain)
    /\ lastState \in [Modules -> ContractsState \cup {NoState}]
    /\ published \subseteq Message
    /\ failures \in 0 .. MaxFailures

\* Every deposit message the guardian broadcasts attests a block at which
\* the module had no duplicated, front-run or invalid vetted key, no theft
\* had happened and deposits were not paused.  The message carries the
\* nonce and root of the operators' answer while the keys were read in a
\* second KAPI request (GuardianService.handleNewBlock, getKeys).
NoDepositOverUnsafeState ==
    \A msg \in published :
        msg.type = "deposit" =>
            LET blk == chain[msg.block] IN
            /\ ~blk.theft
            /\ ~blk.bad[msg.module]
            /\ ~AlreadyPausedDeposits(blk)

\* Once the chain and KAPI stop changing, the guardian processes the head
\* block: no failed await, early return or stuck @OneAtTime flag leaves it
\* behind for ever.
EventuallyProcessesHead ==
    <>[](lastProcessed = Len(chain))

\* A front-run deposit on the chain is eventually answered by a pause
\* message on the broker (pauseDepositsV3 / pauseDepositsV2).
TheftLeadsToPauseMessage ==
    <>[](ChainHead.theft => \E msg \in published : msg.type = "pause")

\* The messages of one type on the broker.
PublishedOf(type) == {msg \in published : msg.type = type}

\* The guardian's decisions as GuardianAbstract sees them: the module and
\* block of every deposit and unvet message, the block of every pause
\* message, and the block setLastProcessedStateMeta recorded.
Abstract == INSTANCE GuardianAbstract WITH
    attested  <- {<<msg.module, msg.block>> : msg \in PublishedOf("deposit")},
    pausedAt  <- {msg.block : msg \in PublishedOf("pause")},
    unvetted  <- {<<msg.module, msg.block>> : msg \in PublishedOf("unvet")},
    processed <- lastProcessed

\* handleNewBlock implements GuardianAbstract: every message it broadcasts
\* is a decision the abstract guardian may take at the message's block (a
\* deposit only where it is safe, a pause only after theft, an unvet only
\* for bad keys), whichever of the operators' and the keys' answers the
\* decision was read from, and the processed block only moves forward.
RefinesGuardianAbstract == Abstract!Spec

-----------------------------------------------------------------------------
(* Properties the code is expected to violate (see README, findings).      *)

\* Deposit messages of a module are broadcast in increasing block order: a
\* later cycle never finds an older block's message published after its own
\* (spec: @OneAtTime keeps cycles from overlapping, the block guard keeps
\* them in block order).
DepositMessagesInBlockOrder ==
    [][\A new \in published' \ published, old \in published :
          (new.type = "deposit" /\ old.type = "deposit" /\ new.module = old.module)
              => old.block < new.block]_published

\* Branch m of activation t leaves the check step by the isSameContractsStates
\* return of handleCorrectKeys: canDeposit held, and nothing is signed.
SkipsResigning(t, m) ==
    /\ br[t][m] = "check" /\ br'[t][m] = "done"
    /\ CanDeposit(chain[opsBlk[t]], chain[keysBlk[t]], m)

\* The contract state a deposit message attests.
AttestedState(msg) ==
    [nonce |-> msg.nonce, depositRoot |-> msg.root, blockNumber |-> msg.block,
     lastChangedBlockHash |-> msg.lcbh]

\* When handleCorrectKeys skips re-signing a module because its contract
\* state equals lastContractsStateByModuleId, a deposit message for that
\* state is already on the broker (spec: a failed sign is retried on the
\* next tick).
SkippedStateWasAttested ==
    [][\A t \in Ticks, m \in Modules :
          SkipsResigning(t, m) =>
              \E msg \in published :
                  /\ msg.type = "deposit" /\ msg.module = m
                  /\ IsSameContractsStates(CurrentContractsState(t, m),
                                           AttestedState(msg))]_vars

\* When a cycle that saw theft on a version 2 DSM has sent its pause
\* messages, a pause transaction has been submitted for every module.
PauseSubmittedForEveryModule ==
    \A t \in Ticks :
        (pc[t] = "modules" /\ chain[opsBlk[t]].theft /\ DSMVersion < 3)
            => \A m \in Modules :
                  \/ m \in ChainHead.paused
                  \/ \E tx \in pendingTx : tx.type = "pause" /\ m \in tx.modules

====
