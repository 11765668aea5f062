---------------------------- MODULE MCNodeStart -----------------------------
(***************************************************************************)
(* Instances of NodeStart for TLC: two files that share a chunk, a         *)
(* publisher and another caller, two syncManifests goroutines, and two key *)
(* pairs.                                                                  *)
(***************************************************************************)
EXTENDS NodeStart, TLC

CONSTANTS f, g, a

MCChunk == {f, g, a}
MCFileId == {f, g}
MCParts == (f :> {a}) @@ (g :> {a})
=============================================================================
