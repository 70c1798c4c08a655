---- MODULE MCHeapHelp ----
(* Instances of HeapHelp for TLC. *)
EXTENDS HeapHelpProps, TLC

CONSTANTS main, worker, a1, a2, a3

MCThreads == {main, worker}
MCAddresses == {a1, a2, a3}

(* Blocks are interchangeable: no address is named and none is compared   *)
(* but for equality.                                                       *)
Symmetry == Permutations(MCAddresses)
====
