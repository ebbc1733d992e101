--------------------------- MODULE WalletBalance ----------------------------
(***************************************************************************)
(* WalletService's balance gauge.  onModuleInit calls updateBalance and,   *)
(* in the same try, subscribeToEthereumUpdates; from then on every block   *)
(* whose number is a multiple of WALLET_BALANCE_UPDATE_BLOCK_RATE calls    *)
(* updateBalance again without awaiting it.  updateBalance is @OneAtTime:  *)
(* a call while one is in flight returns at once.  It awaits getBalance    *)
(* and sets the gauge to the answer.                                       *)
(*                                                                         *)
(* The account balance is a version number that grows with every change   *)
(* (a transaction paid by the guardian, a top-up).  Only the block number  *)
(* modulo the rate matters to the handler, so the chain is a counter       *)
(* modulo the rate and never stops.  getBalance answers with the balance   *)
(* at the moment it is called.                                             *)
(***************************************************************************)
EXTENDS Integers

CONSTANTS
    WALLET_BALANCE_UPDATE_BLOCK_RATE,
    MaxChanges,       \* bound on balance changes
    MaxInitFailures,  \* bound on rejected getBalance calls of onModuleInit
    MaxFailures       \* bound on rejected getBalance calls after it

ASSUME WALLET_BALANCE_UPDATE_BLOCK_RATE \in Nat \ {0}

Unset == -1   \* the gauge before its first set

VARIABLES
    blk,          \* block number modulo the rate
    balance,      \* the account balance (its version)
    metric,       \* the accountBalance gauge
    busy,         \* the @OneAtTime flag of updateBalance
    inflight,     \* answers of pending getBalance calls
    phase,        \* "boot", "init" (onModuleInit awaiting) or "running"
    subscribed,   \* the provider 'block' listener is installed
    initFailures, failures

vars == <<blk, balance, metric, busy, inflight, phase, subscribed,
          initFailures, failures>>

-----------------------------------------------------------------------------
(* WalletService                                                           *)

\* Variant: updateBalance without @OneAtTime.
UpdateBalanceUnguarded ==
    /\ busy' = TRUE
    /\ inflight' = inflight \cup {balance}

\* updateBalance: @OneAtTime returns at once while a call is in flight,
\* else the flag is set and getBalance is sent.
UpdateBalance ==
    IF busy
      THEN UNCHANGED <<busy, inflight>>
      ELSE /\ busy' = TRUE
           /\ inflight' = inflight \cup {balance}

\* onModuleInit: register the labels, then updateBalance is awaited.
OnModuleInit ==
    /\ phase = "boot"
    /\ phase' = "init"
    /\ UpdateBalance
    /\ UNCHANGED <<blk, balance, metric, subscribed, initFailures, failures>>

\* A new block; the listener, once installed, calls updateBalance on
\* multiples of the rate and does not await it.
NewBlock ==
    /\ blk' = (blk + 1) % WALLET_BALANCE_UPDATE_BLOCK_RATE
    /\ IF subscribed /\ blk' = 0
         THEN UpdateBalance
         ELSE UNCHANGED <<busy, inflight>>
    /\ UNCHANGED <<balance, metric, phase, subscribed, initFailures, failures>>

\* getBalance answers: the gauge is set and the flag released.  In
\* onModuleInit the listener is installed next.
BalanceAnswered ==
    /\ \E v \in inflight :
          /\ metric' = v
          /\ inflight' = inflight \ {v}
    /\ busy' = FALSE
    /\ IF phase = "init"
         THEN phase' = "running" /\ subscribed' = TRUE
         ELSE UNCHANGED <<phase, subscribed>>
    /\ UNCHANGED <<blk, balance, initFailures, failures>>

\* Variant: a rejection leaves the @OneAtTime flag set.
BalanceFailsKeepsFlag ==
    /\ \E v \in inflight : inflight' = inflight \ {v}
    /\ IF phase = "init"
         THEN /\ initFailures < MaxInitFailures
              /\ initFailures' = initFailures + 1
              /\ phase' = "running"
              /\ UNCHANGED failures
         ELSE /\ failures < MaxFailures
              /\ failures' = failures + 1
              /\ UNCHANGED <<phase, initFailures>>
    /\ UNCHANGED <<blk, balance, metric, busy, subscribed>>

\* getBalance rejects: the flag is released and the error logged.  In
\* onModuleInit the catch also skips subscribeToEthereumUpdates.
BalanceFails ==
    /\ \E v \in inflight : inflight' = inflight \ {v}
    /\ busy' = FALSE
    /\ IF phase = "init"
         THEN /\ initFailures < MaxInitFailures
              /\ initFailures' = initFailures + 1
              /\ phase' = "running"
              /\ UNCHANGED failures
         ELSE /\ failures < MaxFailures
              /\ failures' = failures + 1
              /\ UNCHANGED <<phase, initFailures>>
    /\ UNCHANGED <<blk, balance, metric, subscribed>>

\* The guardian pays for a transaction or the account is topped up.
BalanceChange ==
    /\ balance < MaxChanges
    /\ balance' = balance + 1
    /\ UNCHANGED <<blk, metric, busy, inflight, phase, subscribed,
                   initFailures, failures>>

Init ==
    /\ blk = 0 /\ balance = 0 /\ metric = Unset
    /\ busy = FALSE /\ inflight = {}
    /\ phase = "boot" /\ subscribed = FALSE
    /\ initFailures = 0 /\ failures = 0

Next ==
    \/ OnModuleInit \/ NewBlock \/ BalanceAnswered \/ BalanceFails
    \/ BalanceChange

\* Nest runs onModuleInit, the chain keeps producing blocks, and the node
\* answers getBalance (or rejects it).
Spec ==
    /\ Init /\ [][Next]_vars
    /\ WF_vars(OnModuleInit) /\ WF_vars(NewBlock) /\ WF_vars(BalanceAnswered)

-----------------------------------------------------------------------------
(* Properties                                                              *)

\* The gauge never goes back to an older balance: block listeners that are
\* not awaited never let an earlier getBalance answer overwrite a later
\* one.
MetricNeverRegresses == [][metric' >= metric]_metric

\* Once the balance stops changing, the gauge eventually shows it for good
\* (spec: the wallet refreshes the balance every
\* WALLET_BALANCE_UPDATE_BLOCK_RATE blocks).
MetricTracksBalance == <>[](metric = balance)

====
