----------------------------- MODULE DepositTree -----------------------------
(***************************************************************************)
(* The sanity checker's incremental deposit Merkle tree (spec section      *)
(* 4.1): the deposit contract's accumulator of DEPOSIT_CONTRACT_TREE_DEPTH *)
(* levels, kept as a branch of one node per level and a node count.        *)
(* insertNode climbs the branch while the new count is even; getRoot folds *)
(* the branch with the zero hashes and mixes in the node count.  Its code  *)
(* is not in the repository: the operators follow the specification.       *)
(*                                                                         *)
(* sha256 of two nodes is the free pair Hash(a, b): two hashes are equal   *)
(* only if their inputs are (no collisions).  A leaf (a depositDataRoot)   *)
(* is a positive number and the zero node is 0.                            *)
(*                                                                         *)
(* The daemon keeps the index tree, fed by addEventGroupToIndex, and       *)
(* verifyFreshEvents inserts the fresh events into a clone of it.          *)
(***************************************************************************)
EXTENDS Naturals, Sequences

CONSTANTS
    DEPOSIT_CONTRACT_TREE_DEPTH,
    Leaves,     \* depositDataRoot values
    MaxNodes    \* bound on the leaves of a tree

ASSUME /\ DEPOSIT_CONTRACT_TREE_DEPTH \in Nat \ {0}
       /\ Leaves \subseteq Nat \ {0}
       /\ MaxNodes < 2 ^ DEPOSIT_CONTRACT_TREE_DEPTH

Levels == 0 .. DEPOSIT_CONTRACT_TREE_DEPTH - 1

Hash(a, b) == <<a, b>>

\* zeroHashes: zh[0] is the zero node, zh[i+1] = sha256(zh[i] || zh[i]).
RECURSIVE ZeroHashes(_)
ZeroHashes(i) == IF i = 0 THEN 0 ELSE Hash(ZeroHashes(i - 1), ZeroHashes(i - 1))

\* A new tree: an all-zero branch and no node.
EmptyTree == [branch |-> [h \in Levels |-> 0], nodeCount |-> 0]

\* Bit h of n, (n >> h) & 1.
Bit(n, h) == (n \div 2 ^ h) % 2

\* Variant: the climb tests the count before the increment.
InsertNodeStaleSize(t, leaf) ==
    LET RECURSIVE Climb(_, _, _)
        Climb(node, size, h) ==
            IF h = DEPOSIT_CONTRACT_TREE_DEPTH THEN t.branch
            ELSE IF size % 2 = 1 THEN [t.branch EXCEPT ![h] = node]
            ELSE Climb(Hash(t.branch[h], node), size \div 2, h + 1)
    IN [branch |-> Climb(leaf, t.nodeCount, 0), nodeCount |-> t.nodeCount + 1]

\* insertNode: nodeCount += 1, size = nodeCount; on each level an odd size
\* stores the node in the branch and stops, an even one hashes it with the
\* branch node and halves the size.
InsertNode(t, leaf) ==
    LET size == t.nodeCount + 1
        RECURSIVE Climb(_, _, _)
        Climb(node, s, h) ==
            IF h = DEPOSIT_CONTRACT_TREE_DEPTH THEN t.branch
            ELSE IF s % 2 = 1 THEN [t.branch EXCEPT ![h] = node]
            ELSE Climb(Hash(t.branch[h], node), s \div 2, h + 1)
    IN [branch |-> Climb(leaf, size, 0), nodeCount |-> size]

\* getRoot: from the zero node, each level hashes the branch node on the
\* left when bit h of nodeCount is set and the zero hash on the right when
\* it is not; the result is hashed with the node count.
GetRoot(t) ==
    LET RECURSIVE Fold(_, _)
        Fold(node, h) ==
            IF h = DEPOSIT_CONTRACT_TREE_DEPTH THEN node
            ELSE Fold(IF Bit(t.nodeCount, h) = 1 THEN Hash(t.branch[h], node)
                                                ELSE Hash(node, ZeroHashes(h)),
                      h + 1)
    IN Hash(Fold(ZeroHashes(0), 0), t.nodeCount)

-----------------------------------------------------------------------------
(* Reference: the root of the full tree over the leaves, padded with zero *)
(* nodes to 2^DEPTH, hashed with the number of leaves.                     *)

RECURSIVE MerkleRoot(_)
MerkleRoot(s) ==
    IF Len(s) = 1 THEN s[1]
    ELSE LET half == Len(s) \div 2
         IN Hash(MerkleRoot(SubSeq(s, 1, half)),
                 MerkleRoot(SubSeq(s, half + 1, Len(s))))

ReferenceRoot(s) ==
    LET padded == [i \in 1 .. 2 ^ DEPOSIT_CONTRACT_TREE_DEPTH |->
                      IF i <= Len(s) THEN s[i] ELSE 0]
    IN Hash(MerkleRoot(padded), Len(s))

-----------------------------------------------------------------------------

VARIABLES
    tree,         \* the index tree
    leaves,       \* the leaves inserted into it (history)
    fresh,        \* the clone verifyFreshEvents inserts fresh events into
    freshLeaves   \* the leaves the clone holds (history)

vars == <<tree, leaves, fresh, freshLeaves>>

\* addEventGroupToIndex inserts the group's leaves one insertNode at a time.
AddToIndex(leaf) ==
    /\ tree.nodeCount < MaxNodes
    /\ tree' = InsertNode(tree, leaf)
    /\ leaves' = Append(leaves, leaf)
    /\ UNCHANGED <<fresh, freshLeaves>>

\* verifyFreshEvents: clone the index tree ...
CloneTree ==
    /\ fresh' = tree
    /\ freshLeaves' = leaves
    /\ UNCHANGED <<tree, leaves>>

\* ... and insert the fresh events into the clone.
InsertFresh(leaf) ==
    /\ fresh.nodeCount < MaxNodes
    /\ fresh' = InsertNode(fresh, leaf)
    /\ freshLeaves' = Append(freshLeaves, leaf)
    /\ UNCHANGED <<tree, leaves>>

Init ==
    /\ tree = EmptyTree /\ leaves = <<>>
    /\ fresh = EmptyTree /\ freshLeaves = <<>>

Next ==
    \/ CloneTree
    \/ \E leaf \in Leaves : AddToIndex(leaf) \/ InsertFresh(leaf)

Spec == Init /\ [][Next]_vars

-----------------------------------------------------------------------------
(* Properties                                                              *)

\* The incremental root of both trees is the root of the full tree over the
\* leaves inserted: insertNode's climb and getRoot's fold over the branch
\* and the zero hashes agree with the deposit contract's tree at every
\* count, including counts that fill whole subtrees.
RootMatchesReference ==
    /\ GetRoot(tree) = ReferenceRoot(leaves)
    /\ GetRoot(fresh) = ReferenceRoot(freshLeaves)

====
