------------------------- MODULE MCStoreCommitLock -------------------------
(***************************************************************************)
(* StoreCommitLock with a plain and a paged read.                          *)
(***************************************************************************)
EXTENDS StoreCommitLock

CONSTANTS r1, r2

MCReader == {r1, r2}
MCPager  == {r2}

\* No tip; one that leaves c immature and lies below b; one that serves all.
MCNodeTips == {-1, 0, 1}
=============================================================================
