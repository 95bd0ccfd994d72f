----------------------------- MODULE MCBlockTree -----------------------------
(***************************************************************************)
(* Small trees of blocks for the model checker.  A tree is given by the    *)
(* parent of each block; blocks are numbered, 0 is the genesis block, and  *)
(* the work of a block is its height unless said otherwise.                *)
(***************************************************************************)
EXTENDS BlockTree, TLC

CONSTANTS t1, t2, noBlock, noThread

(* 0 - 1 - 2 - 6 and 0 - 3 - 4 - 5 *)
ThreeEach == (1 :> 0) @@ (2 :> 1) @@ (3 :> 0) @@ (4 :> 3) @@ (5 :> 4) @@ (6 :> 2)

(* 0 - 1 - 2 and 0 - 3 - 4 *)
EvenBranches == (1 :> 0) @@ (2 :> 1) @@ (3 :> 0) @@ (4 :> 3)

(* 0 - 1 - 2 and 1 - 3 - 4 *)
SharedRoot == (1 :> 0) @@ (2 :> 1) @@ (3 :> 1) @@ (4 :> 3)

(* 0 - 1 - 2 - 3 - 4, 1 - 8 and 0 - 5 - 6 - 7, with a heavy block 7 *)
HeavyEnd ==
  (1 :> 0) @@ (2 :> 1) @@ (3 :> 2) @@ (4 :> 3) @@ (5 :> 0) @@ (6 :> 5) @@ (7 :> 6)
    @@ (8 :> 1)

BlocksOf(parent) == {0} \cup DOMAIN parent

AncestorsOf(parent) ==
  LET anc[b \in BlocksOf(parent)] == IF b = 0 THEN {0} ELSE {b} \cup anc[parent[b]]
  IN  anc

WorkOf(parent) == [b \in BlocksOf(parent) |-> Cardinality(AncestorsOf(parent)[b]) - 1]

Addresses(parent) == [b \in BlocksOf(parent) |-> b]

ThreeEachBlocks == BlocksOf(ThreeEach)
ThreeEachAncestors == AncestorsOf(ThreeEach)
ThreeEachWork == WorkOf(ThreeEach)
ThreeEachAddr == Addresses(ThreeEach)

EvenBranchesBlocks == BlocksOf(EvenBranches)
EvenBranchesAncestors == AncestorsOf(EvenBranches)
EvenBranchesWork == WorkOf(EvenBranches)
EvenBranchesAddr == Addresses(EvenBranches)

SharedRootBlocks == BlocksOf(SharedRoot)
SharedRootAncestors == AncestorsOf(SharedRoot)
SharedRootWork == WorkOf(SharedRoot)
SharedRootAddr == Addresses(SharedRoot)

HeavyEndBlocks == BlocksOf(HeavyEnd)
HeavyEndAncestors == AncestorsOf(HeavyEnd)
HeavyEndWork == [WorkOf(HeavyEnd) EXCEPT ![7] = 5]
HeavyEndAddr == Addresses(HeavyEnd)
=============================================================================
