---------------------------- MODULE KeysApiClient ---------------------------
(***************************************************************************)
(* KeysApiService as the guardian's cycle drives it: fetch with its abort  *)
(* timer, getOperatorListWithModule, getKeys with its cache keyed on       *)
(* lastChangedBlockHash, updateCachedKeys with verifyMetaDataConsistency,  *)
(* and StakingRouterService.getStakingModulesData, which combines the two *)
(* answers.  The caller is handleNewBlock: operators first, then           *)
(* getKeys(meta.elBlockSnapshot), then isEqualLastChangedBlockHash; any    *)
(* rejection ends the cycle in its catch.                                  *)
(*                                                                         *)
(* KAPI answers each request from any block it has indexed: replicas lag   *)
(* and may answer from an older block than the previous answer.  The      *)
(* module refines KeysSnapshot: the data handed to the guardian is the     *)
(* registry of a single block.                                             *)
(***************************************************************************)
EXTENDS Naturals, Sequences

CONSTANTS
    Modules, Keys, KeyModule, MaxBlock,
    MaxFailures   \* bound on requests that fail (network, HTTP errors)

VARIABLES
    blocks,       \* the key registry per block (KeysSnapshot)
    moduleData,   \* stakingModulesData of the last completed read
    pc,           \* "idle", "operators", "keys" or "find": what the cycle awaits
    request,      \* URL of the pending fetch, or "none"
    timer,        \* the abort timer of the pending fetch is armed
    opsBlk,       \* block of the /v1/operators answer (meta), 0 if none
    keysBlk,      \* block of the answer getKeys returned this cycle, 0 if none
    cachedKeys,   \* block of the /v1/keys answer in cachedKeys, 0 if unset
    failures      \* failed requests so far

vars == <<blocks, moduleData, pc, request, timer, opsBlk, keysBlk, cachedKeys,
          failures>>

Snapshot == INSTANCE KeysSnapshot

LastChanged(n) == Snapshot!LastChanged(n)

-----------------------------------------------------------------------------
(* KeysApiService                                                          *)

\* fetch: setTimeout arms the abort timer, then fetchJson is awaited.
Fetch(url) == request' = url /\ timer' = TRUE

\* fetchJson resolved: clearTimeout.
Resolved == request' = "none" /\ timer' = FALSE

\* getOperatorListWithModule: fetch of /v1/operators.
GetOperatorListWithModule == Fetch("/v1/operators")

\* getKeysByPubkeys: fetch of /v1/keys/find (a POST of the pubkeys).
GetKeysByPubkeys == Fetch("/v1/keys/find")

\* verifyMetaDataConsistency: throws unless the hashes are equal.
VerifyMetaDataConsistency(h1, h2) == h1 = h2

\* StakingRouterService.isEqualLastChangedBlockHash: the same test.
IsEqualLastChangedBlockHash(h1, h2) == h1 = h2

\* Variant: unusedKeys filtered by module only, without !key.used.
GetStakingModulesDataNoUsedFilter(n, j) ==
    [m \in Modules |->
        [nonce |-> blocks[n].nonce[m],
         lastChangedBlockHash |-> LastChanged(n),
         unusedKeys |-> {k \in Keys : KeyModule[k] = m},
         vettedUnusedKeys |-> {k \in Keys : KeyModule[k] = m
                                             /\ k \in blocks[n].vetted}]]

\* StakingRouterService.getStakingModulesData: nonce, vetting and the
\* snapshot come from the operators answer (block n), which keys are used
\* comes from the keys answer (block j).
GetStakingModulesData(n, j) ==
    [m \in Modules |->
        [nonce |-> blocks[n].nonce[m],
         lastChangedBlockHash |-> LastChanged(n),
         unusedKeys |-> {k \in Keys : KeyModule[k] = m /\ k \notin blocks[j].used},
         vettedUnusedKeys |-> {k \in Keys : KeyModule[k] = m
                                             /\ k \notin blocks[j].used
                                             /\ k \in blocks[n].vetted}]]

\* handleNewBlock after getKeys returned the answer of block j:
\* isEqualLastChangedBlockHash, then getHistoricalFrontRun, which calls
\* getKeysByPubkeys (/v1/keys/find) only when front-run candidates exist,
\* then getStakingModulesData.  Other awaits in between are not followed.
UseKeys(n, j) ==
    /\ keysBlk' = j
    /\ IF IsEqualLastChangedBlockHash(LastChanged(n), LastChanged(j))
         THEN \/ /\ pc' = "find" /\ GetKeysByPubkeys
                 /\ UNCHANGED moduleData
              \/ /\ pc' = "idle" /\ Resolved
                 /\ moduleData' = GetStakingModulesData(n, j)
         ELSE pc' = "idle" /\ Resolved /\ UNCHANGED moduleData

\* Variant: getKeys returns the cache whenever it is set.
GetKeysAlwaysCached(n) ==
    IF cachedKeys # 0
      THEN UseKeys(n, cachedKeys) /\ UNCHANGED cachedKeys
      ELSE /\ pc' = "keys" /\ Fetch("/v1/keys")
           /\ UNCHANGED <<moduleData, cachedKeys, keysBlk>>

\* getKeys(meta.elBlockSnapshot): the cache is used when its
\* lastChangedBlockHash is the requested one, else updateCachedKeys
\* fetches /v1/keys.
GetKeys(n) ==
    IF cachedKeys # 0 /\ LastChanged(cachedKeys) = LastChanged(n)
      THEN UseKeys(n, cachedKeys) /\ UNCHANGED cachedKeys
      ELSE /\ pc' = "keys" /\ Fetch("/v1/keys")
           /\ UNCHANGED <<moduleData, cachedKeys, keysBlk>>

\* updateCachedKeys after /v1/keys answered from block j: a changed
\* lastChangedBlockHash throws and leaves the cache as it was.
UpdateCachedKeys(j) ==
    IF VerifyMetaDataConsistency(LastChanged(opsBlk), LastChanged(j))
      THEN /\ cachedKeys' = j
           /\ UseKeys(opsBlk, j)
      ELSE /\ pc' = "idle" /\ Resolved
           /\ UNCHANGED <<cachedKeys, moduleData, keysBlk>>

-----------------------------------------------------------------------------
(* Steps                                                                   *)

\* The cron job starts handleNewBlock: getOperatorListWithModule.
StartCycle ==
    /\ pc = "idle"
    /\ pc' = "operators"
    /\ GetOperatorListWithModule
    /\ keysBlk' = 0
    /\ UNCHANGED <<blocks, moduleData, opsBlk, cachedKeys, failures>>

\* /v1/operators answers from block n, then getKeys runs.
OperatorsAnswered ==
    /\ pc = "operators" /\ request = "/v1/operators"
    /\ \E n \in 1 .. Len(blocks) :
          /\ opsBlk' = n
          /\ GetKeys(n)
    /\ UNCHANGED <<blocks, failures>>

\* /v1/keys answers from block j.
KeysAnswered ==
    /\ pc = "keys" /\ request = "/v1/keys"
    /\ \E j \in 1 .. Len(blocks) : UpdateCachedKeys(j)
    /\ UNCHANGED <<blocks, opsBlk, failures>>

\* /v1/keys/find answers (its content is HistoricalFrontRun's concern);
\* getStakingModulesData builds the module data.
KeysByPubkeysAnswered ==
    /\ pc = "find" /\ request = "/v1/keys/find"
    /\ Resolved
    /\ pc' = "idle"
    /\ moduleData' = GetStakingModulesData(opsBlk, keysBlk)
    /\ UNCHANGED <<blocks, opsBlk, keysBlk, cachedKeys, failures>>

\* The timer fires first: controller.abort() rejects fetchJson, the catch
\* clears the timer and rethrows, and handleNewBlock's catch ends the cycle.
TimerFires ==
    /\ request # "none" /\ timer
    /\ Resolved
    /\ pc' = "idle"
    /\ UNCHANGED <<blocks, moduleData, opsBlk, keysBlk, cachedKeys, failures>>

\* fetchJson rejects (network or HTTP error): the same catch path.
RequestFails ==
    /\ request # "none" /\ failures < MaxFailures
    /\ Resolved
    /\ pc' = "idle"
    /\ failures' = failures + 1
    /\ UNCHANGED <<blocks, moduleData, opsBlk, keysBlk, cachedKeys>>

NewBlock ==
    /\ Snapshot!NewBlock
    /\ UNCHANGED <<moduleData, pc, request, timer, opsBlk, keysBlk, cachedKeys,
                   failures>>

Init ==
    /\ Snapshot!Init
    /\ pc = "idle" /\ request = "none" /\ timer = FALSE
    /\ opsBlk = 0 /\ keysBlk = 0 /\ cachedKeys = 0 /\ failures = 0

Next ==
    \/ NewBlock \/ StartCycle \/ OperatorsAnswered \/ KeysAnswered
    \/ KeysByPubkeysAnswered \/ TimerFires \/ RequestFails

\* setTimeout fires once FETCH_REQUEST_TIMEOUT has passed; KAPI itself
\* may never answer, so its answers get no fairness.
Spec == Init /\ [][Next]_vars /\ WF_vars(TimerFires)

-----------------------------------------------------------------------------
(* Properties                                                              *)

\* getKeys(meta.elBlockSnapshot) only ever returns keys of the requested
\* lastChangedBlockHash: a cache filled in an earlier cycle, possibly by a
\* replica that has since lagged or regressed, is never served for another
\* registry version, and a fresh answer from a different version is
\* rejected rather than returned or kept.
GetKeysAnswersRequestedSnapshot ==
    keysBlk # 0 => LastChanged(keysBlk) = LastChanged(opsBlk)

\* The staking module data the cycle builds from two KAPI requests, one of
\* them possibly served from the getKeys cache, is the registry of one
\* block: nonce, vetting and used keys never come from different registry
\* versions, however far replicas lag or regress.
RefinesKeysSnapshot == Snapshot!Spec

====
