----------------------------- MODULE MCPingPool -----------------------------
(***************************************************************************)
(* Instances of PingPool for TLC: a ping and the sends of another          *)
(* goroutine, to two nodes that are known under the same address, and a    *)
(* bucket of one place.                                                    *)
(***************************************************************************)
EXTENDS PingPool, TLC
=============================================================================
