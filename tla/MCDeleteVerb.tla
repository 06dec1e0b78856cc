----------------------------- MODULE MCDeleteVerb -----------------------------
(* Two workspaces, which may share a docker image and container.            *)
EXTENDS DeleteVerb
CONSTANTS a, b, b1, b2, i1, i2
Names == {a, b}
Boxes == {b1, b2}
Items == {i1, i2}
Entry(d, s, x) == [docker |-> d, standalone |-> s, box |-> x]
(* Without docker, with docker and local folder, or with docker alone; two *)
(* with docker of one kind share a box, as create gives one box to a       *)
(* workspace and its upstream.                                             *)
CreatedEntries ==
    {Entry(FALSE, FALSE, NoBox), Entry(TRUE, FALSE, b1), Entry(TRUE, TRUE, b2)}
=============================================================================
