--------------------------- MODULE MCSharedCount ---------------------------
(* A small instance of SharedCount for TLC.                                *)
EXTENDS SharedCount, TLC

Symmetry == Permutations(Threads) \cup Permutations(Handles)
              \cup Permutations(Objects)
=============================================================================
