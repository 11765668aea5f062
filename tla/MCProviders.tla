---------------------------- MODULE MCProviders ----------------------------
(***************************************************************************)
(* Instances of Providers for TLC: two nodes that both come to hold the    *)
(* chunk; a record lives for four republications, of which one may miss    *)
(* and two may be under way at once.                                       *)
(***************************************************************************)
EXTENDS Providers, TLC
=============================================================================
