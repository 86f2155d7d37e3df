--------------------------- MODULE MCNodeService ---------------------------
(***************************************************************************)
(* Small instances of NodeService for TLC.                                 *)
(***************************************************************************)
EXTENDS NodeService

CONSTANTS s1, s2  \* stop-network transactions
=============================================================================
