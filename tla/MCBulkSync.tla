---------------------------- MODULE MCBulkSync ----------------------------
(* Five blocks in chunks of two: each creates an output; the second spends   *)
(* within its chunk, later ones across chunks.                               *)
EXTENDS BulkSync
MCCreated == [h \in 0..5 |-> {h}]
MCSpent == [h \in 0..5 |-> CASE h = 1 -> {0} [] h = 3 -> {1} [] h = 4 -> {3} [] OTHER -> {}]
=============================================================================
