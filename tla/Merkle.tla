-------------------------------- MODULE Merkle --------------------------------
(***************************************************************************)
(* The Merkle tree over the ledger's leaves                                *)
(* (packages/ledger-client/src/merkle.ts).  SHA-256 is taken as free: a    *)
(* hash is the term it is computed from, so that two hashes are equal      *)
(* exactly when their inputs are, and the domain-separation prefix is the  *)
(* first component of the term.                                            *)
(***************************************************************************)
EXTENDS Naturals, Sequences, SequencesExt

Half(n) == (n + 1) \div 2

HashLeaf(data) == <<"leaf", data>>
HashNode(l, r) == <<"node", l, r>>
EmptyRoot == <<"empty">>

\* The next level with an odd node duplicated instead of promoted.
ParentsDuplicating(nodes) ==
  [i \in 1..Half(Len(nodes)) |->
     HashNode(nodes[2*i - 1], IF 2*i <= Len(nodes) THEN nodes[2*i] ELSE nodes[2*i - 1])]

\* The next level: pairs are hashed, an odd last node is promoted.
Parents(nodes) ==
  [i \in 1..Half(Len(nodes)) |->
     IF 2*i <= Len(nodes) THEN HashNode(nodes[2*i - 1], nodes[2*i]) ELSE nodes[2*i - 1]]

\* The k-th level above the leaves, and the first one that has a single node.
Level(leaves, k) ==
  LET level[j \in Nat] == IF j = 0 THEN leaves ELSE Parents(level[j - 1])
  IN  level[k]

Height(leaves) ==
  CHOOSE k \in 0..Len(leaves) : /\ Len(Level(leaves, k)) <= 1
                                /\ k > 0 => Len(Level(leaves, k - 1)) > 1

ComputeRoot(leaves) ==
  IF leaves = <<>> THEN EmptyRoot ELSE Level(leaves, Height(leaves))[1]

\* One level of an inclusion proof, for the node at walk.at (from 0): a right child's
\* sibling is on its left; a promoted node has none and records no step.
Climb(walk, nodes) ==
  LET right   == walk.at % 2 = 1
      sibling == IF right THEN walk.at - 1 ELSE walk.at + 1
  IN  [at   |-> walk.at \div 2,
       path |-> IF sibling < Len(nodes)
                THEN Append(walk.path, [hash |-> nodes[sibling + 1], side |-> IF right THEN "left" ELSE "right"])
                ELSE walk.path]

\* buildInclusionProof
Walk(leaves, index, k) ==
  LET walk[j \in Nat] == IF j = 0 THEN [at |-> index, path |-> <<>>]
                         ELSE Climb(walk[j - 1], Level(leaves, j - 1))
  IN  walk[k]

InclusionPath(leaves, index) == Walk(leaves, index, Height(leaves)).path

\* verifyInclusionProof: hash upwards along the path and compare.
Combine(step, running) ==
  IF step.side = "left" THEN HashNode(step.hash, running) ELSE HashNode(running, step.hash)

Running(leaf, path, k) ==
  LET running[j \in Nat] == IF j = 0 THEN leaf ELSE Combine(path[j], running[j - 1])
  IN  running[k]

VerifyInclusion(leaf, path, root) == Running(leaf, path, Len(path)) = root
===============================================================================
