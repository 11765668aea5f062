--------------------------- MODULE MCRoutingTable ---------------------------
(***************************************************************************)
(* Instances of RoutingTable for TLC.  Node na has two addresses, nb and  *)
(* nc share its bucket, nd lives in another one; update must refuse the    *)
(* contact of this node itself.                                            *)
(***************************************************************************)
EXTENDS RoutingTable

CONSTANTS x1, x2, none

na == <<0, 0, 1>>
nb == <<0, 1, 0>>
nc == <<0, 1, 1>>
nd == <<1, 1, 0>>
me == <<1, 0, 0>>

At(i, x) == [id |-> i, addr |-> x]

MCId == {na, nb, nc, nd, me, ZeroId}
MCAddr == {x1, x2, none}

MCContact == {At(na, x1), At(na, x2), At(nb, x1), At(nc, x1), At(nd, x1), At(me, x1)}
=============================================================================
