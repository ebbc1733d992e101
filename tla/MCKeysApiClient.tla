-------------------------- MODULE MCKeysApiClient --------------------------
(***************************************************************************)
(* Two modules with one key each, five blocks: enough for a deposit and a  *)
(* vetting change to give three registry versions, so that a cached       *)
(* answer, a lagging replica and a regressed replica can each disagree     *)
(* with the operators answer.                                              *)
(***************************************************************************)
EXTENDS KeysApiClient, TLC

CONSTANTS m1, m2, k1, k2

MCModules == {m1, m2}
MCKeys == {k1, k2}
MCKeyModule == (k1 :> m1) @@ (k2 :> m2)

====
