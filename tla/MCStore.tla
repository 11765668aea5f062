------------------------------- MODULE MCStore -------------------------------
(***************************************************************************)
(* Instances of Store for TLC: two files that share a chunk, two callers   *)
(* and two syncManifests goroutines.                                       *)
(***************************************************************************)
EXTENDS Store, TLC

CONSTANTS f, g, a

MCChunk == {f, g, a}
MCFileId == {f, g}
MCParts == (f :> {a}) @@ (g :> {a})
=============================================================================
