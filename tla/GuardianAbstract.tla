-------------------------- MODULE GuardianAbstract --------------------------
(***************************************************************************)
(* What a guardian promises, one decision at a time, whatever the cycles,  *)
(* requests and branches that produce the decisions:                      *)
(*   - it attests a module at a block only if the module could safely be  *)
(*     deposited to at that block (no bad vetted key, no theft, deposits  *)
(*     not paused);                                                        *)
(*   - it raises a pause only for a block at which theft had happened,    *)
(*     and an unvet only for a module that had a bad key at that block;   *)
(*   - the block it records as processed only moves forward, and only to  *)
(*     a block of the chain.                                              *)
(* The chain only grows; what it contains is the environment's business.  *)
(* Blocks are records as in GuardianCycle (theft, bad, paused).           *)
(***************************************************************************)
EXTENDS Naturals, Sequences

CONSTANTS Modules, DSMVersion

VARIABLES
    chain,       \* the blocks
    attested,    \* <<module, block>> pairs a deposit message was sent for
    pausedAt,    \* blocks a pause message was sent for
    unvetted,    \* <<module, block>> pairs an unvet message was sent for
    processed    \* the block recorded as processed, 0 if none

avars == <<chain, attested, pausedAt, unvetted, processed>>

\* Deposits to module m at block b are safe.
SafeToDeposit(b, m) ==
    /\ ~chain[b].theft
    /\ ~chain[b].bad[m]
    /\ ~(DSMVersion >= 3 /\ chain[b].paused # {})

ChainGrows ==
    /\ Len(chain') = Len(chain) + 1
    /\ SubSeq(chain', 1, Len(chain)) = chain
    /\ UNCHANGED <<attested, pausedAt, unvetted, processed>>

Attest(m, b) ==
    /\ SafeToDeposit(b, m)
    /\ attested' = attested \cup {<<m, b>>}
    /\ UNCHANGED <<chain, pausedAt, unvetted, processed>>

Pause(b) ==
    /\ chain[b].theft
    /\ pausedAt' = pausedAt \cup {b}
    /\ UNCHANGED <<chain, attested, unvetted, processed>>

Unvet(m, b) ==
    /\ chain[b].bad[m]
    /\ unvetted' = unvetted \cup {<<m, b>>}
    /\ UNCHANGED <<chain, attested, pausedAt, processed>>

Process(b) ==
    /\ processed < b
    /\ processed' = b
    /\ UNCHANGED <<chain, attested, pausedAt, unvetted>>

Init ==
    /\ Len(chain) = 1
    /\ attested = {} /\ pausedAt = {} /\ unvetted = {}
    /\ processed = 0

Next ==
    \/ ChainGrows
    \/ \E b \in 1 .. Len(chain) :
          \/ Pause(b) \/ Process(b)
          \/ \E m \in Modules : Attest(m, b) \/ Unvet(m, b)

Spec == Init /\ [][Next]_avars

====
