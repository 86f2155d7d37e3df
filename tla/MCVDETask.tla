----------------------------- MODULE MCVDETask -----------------------------
(***************************************************************************)
(* Small instances of VDETask: one task of each kind, a destination named  *)
(* in the task and one that is authorised afterwards.                      *)
(***************************************************************************)
EXTENDS VDETask

CONSTANTS a1, s1, d1, d2, node

MCAuths == {<<a1, d2>>}
=============================================================================
