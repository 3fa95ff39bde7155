----------------------------- MODULE MCDirectRing ------------------------------
(* DirectRing with fences next to the wrap of their numbers.                *)
EXTENDS DirectRing
MCFirstSeqs == {14}
MCBatchCounts == {0, 3}
MCFirstPlaces == {6}
==============================================================================
