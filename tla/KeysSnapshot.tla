---------------------------- MODULE KeysSnapshot ----------------------------
(***************************************************************************)
(* What the guardian needs from the Keys API (KAPI): the staking module    *)
(* data it acts on (each module's nonce, its unused keys, its vetted       *)
(* unused keys and the lastChangedBlockHash they belong to) is the state   *)
(* of the key registry at ONE block.  KAPI may answer from any block it    *)
(* has indexed, so the block is unspecified.                               *)
(*                                                                         *)
(* The registry at block n is blocks[n]: the module nonces, the keys that  *)
(* are used (deposited) and the keys that are vetted.  The                 *)
(* lastChangedBlockHash of block n is the last block at or before n whose  *)
(* registry differs from its predecessor's: KAPI's elBlockSnapshot.        *)
(***************************************************************************)
EXTENDS Naturals, Sequences

CONSTANTS
    Modules,      \* staking modules
    Keys,         \* signing keys
    KeyModule,    \* KeyModule[k]: the module (moduleAddress) of key k
    MaxBlock      \* the chain stops growing at this height

ASSUME KeyModule \in [Keys -> Modules] /\ MaxBlock \in Nat \ {0}

VARIABLES
    blocks,       \* blocks[n]: the key registry at block n
    moduleData    \* the staking module data last handed to the guardian

Registry == [nonce: [Modules -> Nat], used: SUBSET Keys, vetted: SUBSET Keys]

\* Before the first read: no block has lastChangedBlockHash 0.
NoData == [m \in Modules |-> [nonce |-> 0, lastChangedBlockHash |-> 0,
                              unusedKeys |-> {}, vettedUnusedKeys |-> {}]]

\* elBlockSnapshot.lastChangedBlockHash of block n (hashes are numbers).
RECURSIVE LastChanged(_)
LastChanged(n) ==
    IF n = 1 \/ blocks[n] # blocks[n - 1] THEN n ELSE LastChanged(n - 1)

\* The data of every module as it stands at block n.
SnapshotData(n) ==
    [m \in Modules |->
        [nonce |-> blocks[n].nonce[m],
         lastChangedBlockHash |-> LastChanged(n),
         unusedKeys |-> {k \in Keys : KeyModule[k] = m /\ k \notin blocks[n].used},
         vettedUnusedKeys |-> {k \in Keys : KeyModule[k] = m
                                             /\ k \notin blocks[n].used
                                             /\ k \in blocks[n].vetted}]]

\* A new block: nothing happens to the registry, a vetted key is deposited
\* (used, the module's nonce grows), or a key is vetted or unvetted (the
\* module's nonce grows).
NewBlock ==
    LET reg == blocks[Len(blocks)]
        Bump(m) == [reg.nonce EXCEPT ![m] = @ + 1]
        Deposited(k) == [reg EXCEPT !.used = @ \cup {k},
                                    !.nonce = Bump(KeyModule[k])]
        Vetting(k) == [reg EXCEPT !.vetted = IF k \in @ THEN @ \ {k} ELSE @ \cup {k},
                                  !.nonce = Bump(KeyModule[k])]
    IN /\ Len(blocks) < MaxBlock
       /\ \/ blocks' = Append(blocks, reg)
          \/ \E k \in reg.vetted \ reg.used : blocks' = Append(blocks, Deposited(k))
          \/ \E k \in Keys \ reg.used : blocks' = Append(blocks, Vetting(k))

\* The guardian is handed the data of some block KAPI has indexed.
ReadSnapshot ==
    /\ \E n \in 1 .. Len(blocks) : moduleData' = SnapshotData(n)
    /\ UNCHANGED blocks

Init ==
    /\ blocks = << [nonce |-> [m \in Modules |-> 0], used |-> {}, vetted |-> Keys] >>
    /\ moduleData = NoData

Next == (NewBlock /\ UNCHANGED moduleData) \/ ReadSnapshot

Spec == Init /\ [][Next]_<<blocks, moduleData>>

====
