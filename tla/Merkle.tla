------------------------------- MODULE Merkle -------------------------------
(* The Merkle trees of the log: the reference definitions and the proof       *)
(* checkers (chain/merkle.rs) and the tree the node keeps in memory and       *)
(* extends leaf by leaf (chain/incremental_merkle.rs).  The tree grows one    *)
(* append at a time and, at every size, its roots and proofs are held against *)
(* the reference definitions, and the checkers against altered logs.          *)
(*                                                                            *)
(* SHA-256 is a free constructor: equal hashes have equal preimages.  Indices *)
(* count from 0 as in the code; D[a, b) is SubSeq(d, a + 1, b).               *)
EXTENDS Integers, Sequences, SequencesExt

CONSTANTS Leaf,         \* leaf data: entry hashes
          MaxLeaves     \* bound on the size of the log

VARIABLES leaves,       \* the log's entry hashes, oldest first
          frontier,     \* level -> root of the perfect subtree, or NoHash
          nodes         \* <<level, index>> -> hash of a perfect subtree

merkleVars == <<leaves, frontier, nodes>>

NoHash == <<"none">>
leaf_hash(d) == <<"leaf", d>>
node_hash(l, r) == <<"node", l, r>>
empty_root == <<"empty">>

Part(d, from, to) == SubSeq(d, from + 1, to)

(* The largest power of two strictly less than n.                             *)
split_point(n) == CHOOSE k \in {1, 2, 4, 8, 16} : k < n /\ n <= 2 * k

-----------------------------------------------------------------------------
(* merkle.rs                                                                  *)

RECURSIVE mth(_)
mth(d) ==
    CASE Len(d) = 0 -> empty_root
      [] Len(d) = 1 -> leaf_hash(d[1])
      [] OTHER -> LET k == split_point(Len(d)) IN node_hash(mth(Part(d, 0, k)), mth(Part(d, k, Len(d))))

RECURSIVE path(_, _)
path(m, d) ==
    LET n == Len(d) k == split_point(n) IN
    CASE n <= 1 -> <<>>
      [] n > 1 /\ m < k -> Append(path(m, Part(d, 0, k)), mth(Part(d, k, n)))
      [] n > 1 /\ m >= k -> Append(path(m - k, Part(d, k, n)), mth(Part(d, 0, k)))

(* The root a path leads to, or NoHash when it has the wrong length.          *)
RECURSIVE verify_path(_, _, _, _)
verify_path(m, n, leaf, proof) ==
    IF n <= 1 THEN IF proof = <<>> THEN leaf ELSE NoHash
    ELSE IF proof = <<>> THEN NoHash
    ELSE LET k == split_point(n)
             below == IF m < k THEN verify_path(m, k, leaf, Front(proof))
                      ELSE verify_path(m - k, n - k, leaf, Front(proof))
         IN IF below = NoHash THEN NoHash
            ELSE IF m < k THEN node_hash(below, Last(proof)) ELSE node_hash(Last(proof), below)

verify_inclusion_proof(d, i, size, proof, root) ==
    i < size /\ verify_path(i, size, leaf_hash(d), proof) = root

RECURSIVE subproof(_, _, _)
subproof(m, d, b) ==
    LET n == Len(d) k == split_point(n) IN
    CASE m = n -> IF b THEN <<>> ELSE <<mth(d)>>
      [] m # n /\ m <= k -> Append(subproof(m, Part(d, 0, k), b), mth(Part(d, k, n)))
      [] m # n /\ m > k -> Append(subproof(m - k, Part(d, k, n), FALSE), mth(Part(d, 0, k)))

consistency_proof(first, d) == IF first = 0 \/ first = Len(d) THEN <<>> ELSE subproof(first, d, TRUE)

(* The old and the new root a proof leads to.                                 *)
RECURSIVE verify_subproof(_, _, _, _, _)
verify_subproof(m, n, proof, b, old) ==
    IF m = n THEN IF b THEN IF proof = <<>> THEN <<old, old>> ELSE NoHash
                  ELSE IF Len(proof) = 1 THEN <<proof[1], proof[1]>> ELSE NoHash
    ELSE IF m > n \/ proof = <<>> THEN NoHash
    ELSE LET k == split_point(n)
             below == IF m <= k THEN verify_subproof(m, k, Front(proof), b, old)
                      ELSE verify_subproof(m - k, n - k, Front(proof), FALSE, old)
         IN IF below = NoHash THEN NoHash
            ELSE IF m <= k THEN <<below[1], node_hash(below[2], Last(proof))>>
            ELSE <<node_hash(Last(proof), below[1]), node_hash(Last(proof), below[2])>>

(* Mutant: only the new root is compared.                                     *)
verify_consistency_proofNewOnly(first, second, proof, old, new) ==
    CASE first > second -> FALSE
      [] first = 0 -> TRUE
      [] first = second /\ first > 0 -> proof = <<>> /\ old = new
      [] OTHER -> LET got == verify_subproof(first, second, proof, TRUE, old) IN got # NoHash /\ got[2] = new

verify_consistency_proof(first, second, proof, old, new) ==
    CASE first > second -> FALSE
      [] first = 0 -> TRUE
      [] first = second /\ first > 0 -> proof = <<>> /\ old = new
      [] OTHER -> LET got == verify_subproof(first, second, proof, TRUE, old) IN got = <<old, new>>

-----------------------------------------------------------------------------
(* incremental_merkle.rs                                                      *)

MerkleInit ==
    /\ leaves = <<>>
    /\ frontier = <<>>
    /\ nodes = [x \in {} |-> NoHash]

Store(f, key, h) == [x \in DOMAIN f \cup {key} |-> IF x = key THEN h ELSE f[x]]

(* The carry: a full level takes its left neighbour and moves up.             *)
RECURSIVE Carry(_, _, _, _, _)
Carry(front, table, level, h, start) ==
    IF level < Len(front) /\ front[level + 1] # NoHash
    THEN LET up == node_hash(front[level + 1], h) IN
         Carry([front EXCEPT ![level + 1] = NoHash],
               Store(table, <<level + 1, start \div 2^(level + 1)>>, up), level + 1, up, start)
    ELSE [front |-> IF level = Len(front) THEN Append(front, h) ELSE [front EXCEPT ![level + 1] = h],
          table |-> table]

append(d) ==
    /\ Len(leaves) < MaxLeaves
    /\ LET start == Len(leaves)
           done == Carry(frontier, Store(nodes, <<0, start>>, leaf_hash(d)), 0, leaf_hash(d), start)
       IN frontier' = done.front /\ nodes' = done.table
    /\ leaves' = Append(leaves, d)

Log2(n) == CHOOSE l \in 0 .. 5 : 2^l = n
IsPowerOfTwo(n) == n \in {1, 2, 4, 8, 16}

Aligned(start, size) == IsPowerOfTwo(size) /\ start % size = 0

RECURSIVE range_hash(_, _)
range_hash(start, size) ==
    IF size = 1 THEN nodes[<<0, start>>]
    ELSE IF Aligned(start, size) /\ <<Log2(size), start \div size>> \in DOMAIN nodes
    THEN nodes[<<Log2(size), start \div size>>]
    ELSE LET k == split_point(size) IN node_hash(range_hash(start, k), range_hash(start + k, size - k))

root(size) == IF size = 0 THEN empty_root ELSE range_hash(0, size)

RECURSIVE tree_path(_, _, _)
tree_path(m, start, size) ==
    LET k == split_point(size) IN
    CASE size <= 1 -> <<>>
      [] size > 1 /\ m < k -> Append(tree_path(m, start, k), range_hash(start + k, size - k))
      [] size > 1 /\ m >= k -> Append(tree_path(m - k, start + k, size - k), range_hash(start, k))

RECURSIVE tree_subproof(_, _, _, _)
tree_subproof(m, start, size, b) ==
    LET k == split_point(size) IN
    CASE m = size -> IF b THEN <<>> ELSE <<range_hash(start, size)>>
      [] m # size /\ m <= k -> Append(tree_subproof(m, start, k, b), range_hash(start + k, size - k))
      [] m # size /\ m > k -> Append(tree_subproof(m - k, start + k, size - k, FALSE), range_hash(start, k))

tree_consistency_proof(first, second) ==
    IF first = 0 \/ first = second THEN <<>> ELSE tree_subproof(first, 0, second, TRUE)

MerkleNext == \E d \in Leaf : append(d)

MerkleSpec == MerkleInit /\ [][MerkleNext]_merkleVars

-----------------------------------------------------------------------------
Size == Len(leaves)
Prefix(n) == Part(leaves, 0, n)

(* merkle.rs, incremental_merkle.rs: at every size, what the tree in memory    *)
(* proves convinces a checker that holds the reference's roots, and of nothing *)
(* but the truth: not of another entry, not of an entry in another place, not  *)
(* of an old root over anything but the log's own prefix, be the proof this    *)
(* log's or that of a log with one entry changed.                              *)
ProofsBindThePast ==
    \A n \in 1 .. Size :
      /\ \A i, j \in 0 .. n - 1 : \A d \in Leaf :
           LET accepted == verify_inclusion_proof(d, j, n, tree_path(i, 0, n), mth(Prefix(n)))
           IN IF i = j THEN accepted <=> leaves[j + 1] = d ELSE accepted => leaves[j + 1] = d
      /\ \A m \in 1 .. n : \A i \in 1 .. m : \A d \in Leaf :
           LET other == [Prefix(n) EXCEPT ![i] = d]
               old == mth(Part(other, 0, m))
           IN /\ verify_consistency_proof(m, n, tree_consistency_proof(m, n), old, root(n)) <=> leaves[i] = d
              /\ leaves[i] # d => ~ verify_consistency_proof(m, n, consistency_proof(m, other), old, root(n))

=============================================================================
