-------------------------- MODULE MCGuardianCycle --------------------------
(***************************************************************************)
(* Model-checking instance of GuardianCycle: two staking modules, two      *)
(* activations of handleNewBlock (one may be aborted while its branches    *)
(* still run), a chain of MaxBlock blocks.                                 *)
(***************************************************************************)
EXTENDS GuardianCycle, TLC

CONSTANTS m1, m2, t1, t2

MCModules == {m1, m2}
MCTicks == {t1, t2}
\* The version 2 run has one module and no symmetry, so that its liveness
\* properties are checked soundly within the time budget.
MCOneModule == {m1}

\* Modules and activations are interchangeable: nothing in the model
\* refers to one of them by name.
Symmetry == Permutations(MCModules) \cup Permutations(MCTicks)

====
