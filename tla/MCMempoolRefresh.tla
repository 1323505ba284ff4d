-------------------------- MODULE MCMempoolRefresh --------------------------
(***************************************************************************)
(* MempoolRefresh with two transactions fetched one at a time, and enough  *)
(* blocks for a reorganisation after a commit.                             *)
(***************************************************************************)
EXTENDS MempoolRefresh

CONSTANTS x, y

MCTx == {x, y}
=============================================================================
