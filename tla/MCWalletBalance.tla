--------------------------- MODULE MCWalletBalance --------------------------
(* A refresh every third block; three balance changes, so that a slow    *)
(* answer can carry an older balance than a later call reads.              *)
EXTENDS WalletBalance
====
