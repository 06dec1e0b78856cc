------------------------------ MODULE MCLegacyRc ------------------------------
(* Workspaces of which the name of one begins the names of the others, one   *)
(* of them with a character that port does not expect.                       *)
EXTENDS LegacyRc
CONSTANTS foo, foo_bar, foo_dash
Names == {foo, foo_bar, foo_dash}
PlainNames == {foo, foo_bar}
LongerNames == [n \in Names |-> IF n = foo THEN Names ELSE {n}]
(* Bound: set-ups and updates together. *)
AtMostThree == setups + updates <= 3
=============================================================================
