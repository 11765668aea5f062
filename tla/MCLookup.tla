------------------------------ MODULE MCLookup ------------------------------
(***************************************************************************)
(* Instances of Lookup for TLC: five contacts of four nodes, one of which  *)
(* is known under two addresses, and the node that looks up.  The window   *)
(* of K = 3 can be cut between the two contacts of one node.               *)
(***************************************************************************)
EXTENDS Lookup

CONSTANTS x1, x2, none

At(i, x) == [id |-> i, addr |-> x]

target == <<1, 1, 1>>
me == <<0, 1, 1>>
near == <<1, 1, 0>>
twin == <<1, 0, 0>>
far == <<0, 1, 0>>
between == <<1, 0, 1>>

MCAddr == {x1, x2, none}
MCContact == {At(near, x1), At(twin, x1), At(twin, x2), At(between, x1), At(far, x1), At(me, x1)}
=============================================================================
