------------------------------- MODULE Ledger -------------------------------
(***************************************************************************)
(* The outputs created and spent along the branches of the block tree.     *)
(*                                                                         *)
(* Outputs are outpoints (txid, index).  A transaction can be mined by     *)
(* different blocks on different branches, so the same outpoint may be     *)
(* created at different heights; Born gives its height on one branch.      *)
(***************************************************************************)
EXTENDS BlockTree

CONSTANTS
    Out,      \* outpoints
    Creates,  \* outpoints each block's transactions create
    Spends,   \* outpoints each block's inputs consume
    Born,     \* Born[t][o]: height of o's creation on the branch ending in t
    Live      \* Live[t]: outpoints unspent after the branch ending in t

NoRec == -1    \* "no record": what a read of a missing key gives

Stored == Nat \cup {NoRec}

(***************************************************************************)
(* Every block is valid on top of its parent: an outpoint is created at    *)
(* most once on a branch (the txid is unique), and a block spends only     *)
(* what is unspent below it or created in it.                              *)
(***************************************************************************)
ASSUME LedgerAssumption ==
    /\ Creates \in [Block -> SUBSET Out]
    /\ Spends  \in [Block -> SUBSET Out]
    /\ Born \in [Tip -> [Out -> Stored]]
    /\ Live \in [Tip -> SUBSET Out]
    /\ Born[Root] = [o \in Out |-> NoRec]
    /\ Live[Root] = {}
    /\ \A b \in Block :
         /\ \A o \in Creates[b] : Born[Parent[b]][o] = NoRec
         /\ Spends[b] \subseteq Live[Parent[b]] \cup Creates[b]
         /\ Born[b] = [o \in Out |-> IF o \in Creates[b] THEN Height[b]
                                                         ELSE Born[Parent[b]][o]]
         /\ Live[b] = (Live[Parent[b]] \cup Creates[b]) \ Spends[b]

\* The unspent outputs of the branch ending in t, each with its creation height.
UtxoAfter(t) == [o \in Out |-> IF o \in Live[t] THEN Born[t][o] ELSE NoRec]

\* The outputs block b takes away from the branch below it, with their heights.
SpentFromParent(b) ==
    [o \in Out |-> IF o \in Spends[b] \ Creates[b] THEN Born[Parent[b]][o] ELSE NoRec]
=============================================================================
