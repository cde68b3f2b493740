--------------------------- MODULE MCAdvancePayout ---------------------------
(* Instances of AdvancePayout for TLC.                                      *)
EXTENDS AdvancePayout, TLC

CONSTANTS r1, r2, r3

(* One request of the first month.                                          *)
OneRequest == r1 :> 1

(* Two requests of one month, of which one at most is live, and a third of *)
(* the next month.                                                         *)
ThreeRequests == r1 :> 1 @@ r2 :> 1 @@ r3 :> 2

Symmetry == Permutations(Payments) \cup Permutations(Recoveries) \cup Permutations(Procs)
=============================================================================
