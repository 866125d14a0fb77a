------------------------------- MODULE MCDict -------------------------------
(* Small instances of Dict for TLC: a smallest capacity of four instead of *)
(* sixteen, so that three pairs make a table grow.  In four places 3 and   *)
(* 11 meet at the last and go round to the home of 4; in eight, 11 drives  *)
(* 4 from its home.                                                        *)
EXTENDS Dict, TLC

CONSTANTS d1, d2, u, v

TwoDicts == {d1, d2}
TwoValues == {u, v}
ThreeKeys == {3, 11, 4}
FourNodes == 1 .. 4

(* The states of the program: no operation depends on call.  Steps are     *)
(* still compared with the operation that made them.                       *)
Program == <<table, chain, heap>>

(* No operation treats a dictionary or a value specially.                  *)
Interchangeable == Permutations(TwoDicts) \cup Permutations(TwoValues)
=============================================================================
