----------------------------- MODULE MCGopBlock -----------------------------
(***************************************************************************)
(* Instance of GopBlock for TLC: as many goroutines as items, each of      *)
(* which may hold one.                                                     *)
(***************************************************************************)
EXTENDS GopBlock, TLC
CONSTANTS g1, g2, g3
MCQuota == [g \in Users |-> 1]
Alike == Permutations(Users)
=============================================================================
