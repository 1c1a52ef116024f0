---------------------------- MODULE MCInventory ----------------------------
(* Small instances of Inventory for TLC.                                   *)
EXTENDS Inventory, TLC

CONSTANTS a1, a2, w1, w2, x1

\* One product in two warehouses; every request is about it.
OneEach  == [r \in Rows |-> 1]
EveryRow == [w \in Workers |-> Rows]
Symmetric == Permutations(Rows)
\* Where every goroutine serves everything.
Either    == Permutations(Rows) \cup Permutations(Movers)
=============================================================================
