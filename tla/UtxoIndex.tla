------------------------------ MODULE UtxoIndex ------------------------------
(***************************************************************************)
(* What the confirmed store promises its readers: at every moment it holds *)
(* the complete ledger of some block, and it moves from block to block     *)
(* only forward along one branch, by a whole batch, or back to the parent. *)
(* Nothing else is ever visible: not a part of a batch, not a rollback     *)
(* half done, not a mixture of two branches.                               *)
(***************************************************************************)
EXTENDS Ledger

VARIABLES indexedTip, utxos

ivars == <<indexedTip, utxos>>

\* t lies above `from' on one branch: S closes the path between them.
Descends(t, from) ==
    \E S \in SUBSET Block : t \in S /\ \A b \in S : Parent[b] \in S \cup {from}

IndexInit == indexedTip = Root /\ utxos = UtxoAfter(Root)

AppendBatch ==
    \E t \in Block :
        /\ Descends(t, indexedTip)
        /\ indexedTip' = t
        /\ utxos' = UtxoAfter(t)

DropTip ==
    /\ indexedTip \in Block
    /\ indexedTip' = Parent[indexedTip]
    /\ utxos' = UtxoAfter(Parent[indexedTip])

IndexNext == AppendBatch \/ DropTip

IndexSpec == IndexInit /\ [][IndexNext]_ivars
=============================================================================
