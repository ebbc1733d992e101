------------------------- MODULE HistoricalFrontRun -------------------------
(***************************************************************************)
(* StakingModuleGuardService.getHistoricalFrontRun: has a key owned by     *)
(* Lido ever received a valid deposit with a foreign withdrawal credential *)
(* before Lido's own first deposit of it?  The operators below follow the  *)
(* code step by step (the Lido-deposit map built by forEach, the filters,  *)
(* the final /v1/keys/find lookup); FrontRunReference states the answer    *)
(* directly, and the invariant FrontRunMatchesReference compares the two   *)
(* on every deposit history the model produces.                            *)
(*                                                                         *)
(* Deposit events arrive in chain order, as getAllDepositedEvents returns  *)
(* them from the deposit cache.  The set of pubkeys the Keys API reports   *)
(* as Lido's may change at any time (keys are added and removed).          *)
(***************************************************************************)
EXTENDS Naturals, Sequences, SequencesExt

CONSTANTS
    Pubkeys,       \* validator pubkeys
    Blocks,        \* block numbers of deposit events
    LogIndexes,    \* log indexes within a block
    MaxEvents      \* bound on the deposit history

ASSUME /\ Blocks \subseteq Nat /\ LogIndexes \subseteq Nat
       /\ MaxEvents \in Nat

LidoWC == "lido"      \* blockData.lidoWC
OtherWC == "other"    \* any other withdrawal credential

\* VerifiedDepositEvent: valid is the result of the deposit signature check.
DepositEvent == [pubkey: Pubkeys, wc: {LidoWC, OtherWC}, valid: BOOLEAN,
                 blockNumber: Blocks, logIndex: LogIndexes]

VARIABLES
    events,       \* depositedEvents.events
    lidoOwned     \* pubkeys getKeysByPubkeys would return

vars == <<events, lidoOwned>>

-----------------------------------------------------------------------------
(* The code.                                                               *)

\* isFirstEventEarlier: same block compares logIndex, else blockNumber.
IsFirstEventEarlier(first, second) ==
    IF first.blockNumber = second.blockNumber
      THEN first.logIndex < second.logIndex
      ELSE first.blockNumber < second.blockNumber

IsPotentialLidoDeposit(e) == e.wc = LidoWC /\ e.valid

\* Variant: the forEach overwrites an entry without the isExisted return.
KeepLidoDepositLastWins(map, e) == (e.pubkey :> e) @@ map

\* One forEach step over potentialLidoDepositsEvents: an entry is kept when
\* it is earlier than the new event, otherwise the new event replaces it.
KeepLidoDeposit(map, e) ==
    IF e.pubkey \in DOMAIN map /\ IsFirstEventEarlier(map[e.pubkey], e)
      THEN map
      ELSE (e.pubkey :> e) @@ map

\* potentialLidoDepositsKeysMap
PotentialLidoDepositsKeysMap(evs) ==
    FoldLeft(KeepLidoDeposit, <<>>, SelectSeq(evs, IsPotentialLidoDeposit))

\* getHistoricalFrontRun: duplicated, valid, earlier than the Lido deposit
\* of the same key, and confirmed as Lido's by the Keys API.
GetHistoricalFrontRun(evs, owned) ==
    LET map == PotentialLidoDepositsKeysMap(evs)
        IsDuplicated(e) == e.pubkey \in DOMAIN map /\ e.wc # LidoWC
        IsFrontRun(e) == e.valid /\ IsFirstEventEarlier(e, map[e.pubkey])
        frontRunnedDepositKeys ==
            {e.pubkey : e \in ToSet(SelectSeq(SelectSeq(evs, IsDuplicated),
                                              IsFrontRun))}
    IN frontRunnedDepositKeys # {} /\ frontRunnedDepositKeys \cap owned # {}

-----------------------------------------------------------------------------
(* The deposit history grows; the Keys API answer changes.                 *)

\* Chain order of two events: by block, then by log index.
ChainBefore(a, b) ==
    \/ a.blockNumber < b.blockNumber
    \/ a.blockNumber = b.blockNumber /\ a.logIndex < b.logIndex

\* A deposit event is mined after every event already seen.
NewDepositEvent ==
    /\ Len(events) < MaxEvents
    /\ \E e \in DepositEvent :
          /\ Len(events) > 0 => ChainBefore(Last(events), e)
          /\ events' = Append(events, e)
    /\ UNCHANGED lidoOwned

KeysRegistryChange ==
    /\ lidoOwned' \in (SUBSET Pubkeys) \ {lidoOwned}
    /\ UNCHANGED events

Init == events = <<>> /\ lidoOwned \in SUBSET Pubkeys

Next == NewDepositEvent \/ KeysRegistryChange

Spec == Init /\ [][Next]_vars

-----------------------------------------------------------------------------
(* Properties                                                              *)

\* Theft, stated directly: some Lido-owned key has a valid deposit with a
\* foreign withdrawal credential that precedes every valid Lido deposit of
\* that key, and at least one such Lido deposit exists.
FrontRunReference(evs, owned) ==
    \E i \in DOMAIN evs :
        LET e == evs[i]
            lido == {j \in DOMAIN evs : evs[j].pubkey = e.pubkey
                                         /\ IsPotentialLidoDeposit(evs[j])}
        IN /\ e.pubkey \in owned /\ e.wc # LidoWC /\ e.valid
           /\ lido # {}
           /\ \A j \in lido : ChainBefore(e, evs[j])

\* getHistoricalFrontRun reports theft exactly when the reference does: the
\* map of first Lido deposits, the duplicate and validity filters and the
\* ownership lookup together neither miss a front-run nor flag a foreign
\* deposit made after Lido's own.
FrontRunMatchesReference ==
    GetHistoricalFrontRun(events, lidoOwned) = FrontRunReference(events, lidoOwned)

====
