--------------------------- MODULE MerkleInclusion ---------------------------
(***************************************************************************)
(* verifyMerkleInclusion (packages/verify/src/timestamp/merkle.ts): is a     *)
(* body in the tree of a transparency log, by an inclusion proof.  It walks  *)
(* from the leaf to the root, without knowing the tree, by the bits of the   *)
(* index; here it is held against the tree of RFC 6962 that the log built.  *)
(*                                                                         *)
(* A hash is the term that was hashed, so that no two terms collide.       *)
(***************************************************************************)
EXTENDS Integers, Sequences, FiniteSets

CONSTANTS
  MaxSize,      \* bound: the largest tree
  Body,         \* the bodies of entries
  Log,          \* the entries of the log, by their position
  Hash,         \* the hashes that may be presented ...
  Presented     \* ... and the lists of them that are

ASSUME LogAssumption ==
  /\ MaxSize \in Nat \ {0}
  /\ Log \in [0 .. MaxSize - 1 -> Body]
  /\ Presented \subseteq Seq(Hash)

\* Mutant: no prefix tells leaves from nodes.
hashLeafBare(leaf) == leaf

hashLeaf(leaf) == [leaf |-> leaf]
hashChildren(left, right) == [left |-> left, right |-> right]

-----------------------------------------------------------------------------
(* The log.  Tree[r] is the tree over the entries from r[1] to r[2] - 1: its  *)
(* root, and for each entry the hashes that prove it.                      *)
Two[k \in Nat] == IF k = 0 THEN 1 ELSE 2 * Two[k - 1]

Ranges == {r \in (0 .. MaxSize) \X (0 .. MaxSize) : r[1] < r[2]}
Width(r) == r[2] - r[1]

\* The exponent of the largest power of two below a width.
Exponent(w) == CHOOSE k \in 0 .. w : Two[k] < w /\ w <= Two[k + 1]
Split(r)   == r[1] + Two[Exponent(Width(r))]
LeftOf(r)  == <<r[1], Split(r)>>
RightOf(r) == <<Split(r), r[2]>>

Tree[r \in Ranges] ==
  IF Width(r) = 1
  THEN [root |-> hashLeaf(Log[r[1]]), path |-> [m \in {r[1]} |-> <<>>]]
  ELSE LET left  == Tree[LeftOf(r)]
           right == Tree[RightOf(r)]
       IN  [root |-> hashChildren(left.root, right.root),
            path |-> [m \in r[1] .. r[2] - 1 |->
                        IF m < Split(r) THEN Append(left.path[m], right.root)
                                        ELSE Append(right.path[m], left.root)]]

\* The tree of the first n entries.
TreeOf == [n \in 1 .. MaxSize |-> Tree[<<0, n>>]]

\* The proofs that are presented: of any body, for any index and size, under the
\* root of any tree of the log.
Proofs ==
  [leaf : Body, index : -1 .. MaxSize, size : 0 .. MaxSize, tree : 1 .. MaxSize, hashes : Presented]

-----------------------------------------------------------------------------
Shift(n, k) == n \div Two[k]
Bit(n, k) == Shift(n, k) % 2

(* bitLength of index ^ (size - 1): the bits in which they may differ.      *)
innerProofSize(index, size) ==
  CHOOSE k \in 0 .. size :
    /\ Shift(index, k) = Shift(size - 1, k)
    /\ \A j \in 0 .. k - 1 : Shift(index, j) # Shift(size - 1, j)

onesCount(n) == Cardinality({i \in 0 .. n : Bit(n, i) = 1})

borderSize(index, size) == onesCount(Shift(index, innerProofSize(index, size)))

IndexHolds(p) == 0 <= p.index /\ p.index < p.size

CountHolds(p) == Len(p.hashes) = innerProofSize(p.index, p.size) + borderSize(p.index, p.size)

-----------------------------------------------------------------------------
VARIABLES
  proof,    \* what is verified
  walk,     \* presented, chaining, accepted or rejected; none, if there is nothing to verify
  level,    \* how many of its hashes have been chained
  hash      \* the hash they came to, starting from that of the leaf

inclusionVars == <<proof, walk, level, hash>>

InclusionInit ==
  /\ proof \in Proofs
  /\ walk = "presented"
  /\ level = 0
  /\ hash = <<>>

Reject == walk' = "rejected" /\ UNCHANGED <<proof, level, hash>>

InvalidIndex == walk = "presented" /\ ~ IndexHolds(proof) /\ Reject

InvalidCount == walk = "presented" /\ IndexHolds(proof) /\ ~ CountHolds(proof) /\ Reject

HashLeaf ==
  /\ walk = "presented" /\ IndexHolds(proof) /\ CountHolds(proof)
  /\ walk' = "chaining"
  /\ hash' = hashLeaf(proof.leaf)
  /\ UNCHANGED <<proof, level>>

Given == proof.hashes[level + 1]

chainInner ==
  /\ walk = "chaining" /\ level < Len(proof.hashes)
  /\ level < innerProofSize(proof.index, proof.size)
  /\ hash' = IF Bit(proof.index, level) = 1 THEN hashChildren(Given, hash)
                                            ELSE hashChildren(hash, Given)
  /\ level' = level + 1
  /\ UNCHANGED <<proof, walk>>

\* Mutant: the border is walked by the bits of the index, too.
chainBorderByBits ==
  /\ walk = "chaining" /\ level < Len(proof.hashes)
  /\ level >= innerProofSize(proof.index, proof.size)
  /\ hash' = IF Bit(proof.index, level) = 1 THEN hashChildren(Given, hash)
                                            ELSE hashChildren(hash, Given)
  /\ level' = level + 1
  /\ UNCHANGED <<proof, walk>>

chainBorderRight ==
  /\ walk = "chaining" /\ level < Len(proof.hashes)
  /\ level >= innerProofSize(proof.index, proof.size)
  /\ hash' = hashChildren(Given, hash)
  /\ level' = level + 1
  /\ UNCHANGED <<proof, walk>>

Accept ==
  /\ walk = "chaining" /\ level = Len(proof.hashes) /\ hash = TreeOf[proof.tree].root
  /\ walk' = "accepted"
  /\ UNCHANGED <<proof, level, hash>>

Mismatch ==
  /\ walk = "chaining" /\ level = Len(proof.hashes) /\ hash # TreeOf[proof.tree].root
  /\ Reject

InclusionNext ==
  \/ InvalidIndex \/ InvalidCount \/ HashLeaf
  \/ chainInner \/ chainBorderRight
  \/ Accept \/ Mismatch

-----------------------------------------------------------------------------
(* The proof that the log gives of an entry of its tree.                    *)
Genuine(p) ==
  /\ p.size = p.tree /\ p.index \in 0 .. p.size - 1
  /\ p.leaf = Log[p.index] /\ p.hashes = TreeOf[p.size].path[p.index]

(* What is accepted is a body the log has in the tree of that root, wherever  *)
(* the index says it is and whatever size the proof gives: a node is never    *)
(* taken for a leaf (merkle.ts:61-67, 119-127).                            *)
AcceptedIsInTree ==
  walk = "accepted" => \E m \in 0 .. proof.tree - 1 : proof.leaf = Log[m]

(* Where the size is that of the tree, what is accepted is the log's own      *)
(* proof of what is at the index, and nothing else, longer or shorter: and    *)
(* that is rejected for no entry of no tree, complete or not                *)
(* (merkle.ts:43-49, 70-99).                                               *)
OwnProofIsAccepted ==
  /\ walk = "accepted" /\ proof.size = proof.tree => Genuine(proof)
  /\ walk = "rejected" => ~ Genuine(proof)
=============================================================================
