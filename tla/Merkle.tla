------------------------------- MODULE Merkle -------------------------------
(***************************************************************************)
(* The Merkle root of a list of leaf hashes (orchestrator:                 *)
(* crypto_merkle.py, generate_tree_root; the portal's buildMerkleTree is   *)
(* the same algorithm).  keccak is free of collisions here: a hash is the  *)
(* term it was computed from, and a leaf hash a natural number, because    *)
(* leaves are sorted by their hashes.                                      *)
(***************************************************************************)
EXTENDS Integers, Sequences, FiniteSets

\* The queries have no ORDER BY: their rows come in any order.
Listings(S) ==
    {s \in [1 .. Cardinality(S) -> S] :
        \A i, j \in 1 .. Cardinality(S) : s[i] = s[j] => i = j}

Leaf(n) == [leaf |-> n]
ZeroRoot == [leaf |-> 0]

\* The two children are sorted before they are hashed, so the pair is a set.
Node(a, b) == [node |-> {a, b}]

\* Mutation of Level: the odd node at the end is left behind.
LevelWithoutOddNode(nodes) ==
    [i \in 1 .. Len(nodes) \div 2 |-> Node(nodes[2 * i - 1], nodes[2 * i])]

\* Neighbours are paired; the odd node at the end is paired with itself.
Level(nodes) ==
    [i \in 1 .. (Len(nodes) + 1) \div 2 |->
        Node(nodes[2 * i - 1],
             IF 2 * i > Len(nodes) THEN nodes[2 * i - 1] ELSE nodes[2 * i])]

\* Mutation of SortedLeaves: the leaves stay in the order of the query.
UnsortedLeaves(hashes) == [i \in 1 .. Len(hashes) |-> Leaf(hashes[i])]

\* The place of an entry in the sorted list: Python's sort is stable.
Place(hashes, i) ==
    Cardinality({j \in 1 .. Len(hashes) :
        \/ hashes[j] < hashes[i]
        \/ hashes[j] = hashes[i] /\ j <= i})

Sorted(hashes) ==
    [k \in 1 .. Len(hashes) |->
        hashes[CHOOSE i \in 1 .. Len(hashes) : Place(hashes, i) = k]]

SortedLeaves(hashes) ==
    LET sorted == Sorted(hashes)
    IN  [i \in 1 .. Len(hashes) |-> Leaf(sorted[i])]

\* The levels of the tree, from the leaves upwards.
Levels(leaves) ==
    LET level[k \in Nat] == IF k = 0 THEN leaves ELSE Level(level[k - 1])
    IN  level

\* The loop ends at the first level that has only one node.
IsTop(level, k) == Len(level[k]) = 1 /\ \A j \in 0 .. k - 1 : Len(level[j]) > 1

TopNode(leaves) ==
    LET level == Levels(leaves)
    IN  level[CHOOSE k \in 0 .. Len(leaves) : IsTop(level, k)][1]

\* generate_tree_root.
Root(hashes) ==
    LET leaves == SortedLeaves(hashes)
    IN  IF leaves = <<>> THEN ZeroRoot ELSE TopNode(leaves)
=============================================================================
