---------------------------- MODULE MCConfigStore ----------------------------
(* Model-checking instance of ConfigStore: the values of its constants.     *)
EXTENDS ConfigStoreRefinement, TLC

CONSTANTS p1, p2, p3, a, b, v, w

TwoRuns == {p1, p2}
ThreeRuns == {p1, p2, p3}
Names == {a, b}
Values == {v, w}
AllVerbs == {"add", "edit", "delete", "read"}

(* Runs, names and values are interchangeable in Init, Next and the        *)
(* invariants; a refinement run does not use the symmetry.                 *)
TwoRunSymmetry ==
    Permutations(TwoRuns) \cup Permutations(Names) \cup Permutations(Values)
ThreeRunSymmetry ==
    Permutations(ThreeRuns) \cup Permutations(Names) \cup Permutations(Values)
=============================================================================
