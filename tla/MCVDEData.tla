----------------------------- MODULE MCVDEData -----------------------------
(***************************************************************************)
(* Small instances of VDEData for TLC: one item of one task for one        *)
(* destination, directly or by an agent, with its hash on the chain or     *)
(* without, and a task whose parameters do not parse.                      *)
(***************************************************************************)
EXTENDS VDEData

CONSTANTS i1, o1, t1, d1

MCParms == {[ok |-> FALSE, hash |-> FALSE, agents |-> {}]}
           \cup [ok : {TRUE}, hash : BOOLEAN, agents : SUBSET Dests]
OneTask == [i \in Items |-> t1]
=============================================================================
