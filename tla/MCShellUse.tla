------------------------------ MODULE MCShellUse ------------------------------
(* One terminal with two workspaces, or two terminals with one.             *)
EXTENDS ShellUse, TLC
CONSTANTS s1, s2, p1, p2, w1, w2, k, x, y
OneShell == {s1}
TwoShells == {s1, s2}
OnePid == {p1}
TwoPids == {p1, p2}
OneWs == {w1}
TwoWs == {w1, w2}
Keys == {k}
OneVal == {x}
TwoVals == {x, y}
(* Terminals, process ids, workspaces and values are interchangeable. *)
AlikeInOne == Permutations(TwoWs) \cup Permutations(TwoVals)
AlikeInTwo == Permutations(TwoShells) \cup Permutations(TwoPids)
=============================================================================
