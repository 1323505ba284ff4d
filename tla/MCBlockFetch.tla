---------------------------- MODULE MCBlockFetch ----------------------------
(***************************************************************************)
(* Three blocks, a window of two, two endpoints.  The node serves every    *)
(* block while its endpoints go down and come back, has a malformed block  *)
(* inside the window of a readable one, with txindex and its first         *)
(* endpoint down or without txindex, or lacks a block.                     *)
(***************************************************************************)
EXTENDS BlockFetch

MCNodes == [dead : {{}, {0}, {0, 1}}, missing : {{}}, malformed : {{}}, txindex : {TRUE}]
           \cup [dead : {{0}}, missing : {{}}, malformed : {{2}}, txindex : {TRUE}]
           \cup [dead : {{}}, missing : {{}}, malformed : {{2}}, txindex : {FALSE}]
           \cup [dead : {{}}, missing : {{2}}, malformed : {{}}, txindex : {TRUE}]
=============================================================================
