---------------------------- MODULE ReviewSyncMC ----------------------------
(* Instances of ReviewSync: a and b are the same finding in two activities, *)
(* x another one, s a review's text.                                        *)
EXTENDS ReviewSync, TLC

CONSTANTS a, b, x, s

Symmetry == Permutations(Calls) \cup Permutations(Reviews)
KeyOf == [y \in Artifacts |-> IF y \in {a, b} THEN 1 ELSE IF y = x THEN 2 ELSE 3]
KeySet == 1..3

(* One activity and another that has a finding in common with it. *)
Activities == {{a, x}, {b}, {a}}
(* The same with the text of a review. *)
WithSummary == {{a, s}, {b}}
================================================================================
