------------------------------ MODULE BlockTree ------------------------------
(***************************************************************************)
(* The blocks a coin node can serve, as a tree: every block names its      *)
(* parent by hash (decoder: block.prevHash), so a branch is determined by  *)
(* its last block.  The node and its consensus rules are outside the       *)
(* repository; what is assumed of them is what the indexing code relies    *)
(* on.                                                                     *)
(***************************************************************************)
EXTENDS Integers, FiniteSets

CONSTANTS
    Block,    \* block hashes
    Root,     \* the empty store: the "block" below height 0
    Parent,   \* the previous-block hash of each block
    Height    \* the height of each block; -1 for Root, as getLastBlockHeight

Tip == Block \cup {Root}

ASSUME TreeAssumption ==
    /\ IsFiniteSet(Block)
    /\ Root \notin Block
    /\ Parent \in [Block -> Tip]
    /\ Height \in [Tip -> Int]
    /\ Height[Root] = -1
    /\ \A b \in Block : Height[b] \in Nat /\ Height[b] = Height[Parent[b]] + 1
=============================================================================
