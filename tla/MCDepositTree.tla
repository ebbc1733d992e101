----------------------------- MODULE MCDepositTree -----------------------------
(***************************************************************************)
(* A tree of depth 3 (eight leaves) filled up to seven leaves, the deposit *)
(* contract's limit of 2^DEPTH - 1, with two leaf values: every count from *)
(* an empty tree to one that fills the whole left subtree and more.        *)
(***************************************************************************)
EXTENDS DepositTree

====
