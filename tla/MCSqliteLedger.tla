-------------------------- MODULE MCSqliteLedger --------------------------
(***************************************************************************)
(* Small instances of the two stores in SQLite files for TLC.              *)
(***************************************************************************)
EXTENDS Stores

(* Two receipts of one intent under one key, one of another intent under   *)
(* the same key, one with the id of the first and another content, and one *)
(* without a key.                                                          *)
MCReceipts ==
  {[id |-> 1, key |-> "k", ep |-> "e", cap |-> "c"],
   [id |-> 2, key |-> "k", ep |-> "e", cap |-> "c"],
   [id |-> 3, key |-> "k", ep |-> "e", cap |-> "d"],
   [id |-> 1, key |-> "k", ep |-> "f", cap |-> "c"],
   [id |-> 4, key |-> None, ep |-> "e", cap |-> "d"]}

(* Two populations, which are both conditioned to the second. *)
MCChildOf == [x \in {"x", "y"} |-> "y"]

ASSUME StoresAssumption == P!StoreAssumption
===========================================================================
