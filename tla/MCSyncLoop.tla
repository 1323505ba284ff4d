----------------------------- MODULE MCSyncLoop -----------------------------
(***************************************************************************)
(* Two branches above a common block G at height 0 for SyncLoop.  Branch A *)
(* is longer than the undo window, so a walk can exceed it.                *)
(***************************************************************************)
EXTENDS SyncLoop

CONSTANTS G, A1, A2, A3, B1, B2

MCBlock == {G, A1, A2, A3, B1, B2}

MCParent ==
    [b \in MCBlock |->
        CASE b = G -> Root [] b \in {A1, B1} -> G [] b = A2 -> A1
          [] b = A3 -> A2  [] b = B2 -> B1]

MCHeight ==
    [t \in MCBlock \cup {Root} |->
        CASE t = Root -> -1 [] t = G -> 0 [] t \in {A1, B1} -> 1
          [] t \in {A2, B2} -> 2 [] t = A3 -> 3]
=============================================================================
