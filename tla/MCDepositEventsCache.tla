------------------------ MODULE MCDepositEventsCache ------------------------
(* The contract deployed at block 1, six blocks in chunks of two: the      *)
(* first update starts after the deployment block (2-3, 4-5, 6), and a     *)
(* finalized block between chunk bounds cuts the last chunk short.  The    *)
(* recovery run deploys at block 0, as on Holesky.                         *)
EXTENDS DepositEventsCache
====
