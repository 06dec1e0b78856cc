---------------------------- MODULE MCPluginSystem ----------------------------
(* A command with two verbs, an alias, and a hidden command.                 *)
EXTENDS PluginDispatch
V(i, j, k) == [major |-> i, minor |-> j, patch |-> k]
PluginSystemVersion == V(0, 1, 0)
Lower == {V(0, 0, 9), V(0, 1, 0), V(0, 1, 1), V(1, 0, 0)}
=============================================================================
