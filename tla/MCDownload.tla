----------------------------- MODULE MCDownload -----------------------------
(***************************************************************************)
(* Instances of Download for TLC: one caller wants a file of two chunks,   *)
(* another one a file that has one of these chunks twice; both files have  *)
(* the same name.                                                          *)
(***************************************************************************)
EXTENDS Download, TLC

CONSTANTS j1, j2, f, g, a, b, out

MCFileOf == (j1 :> f) @@ (j2 :> g)
MCContent == (f :> <<a, b>>) @@ (g :> <<b, b>>)
MCPathOf == (f :> out) @@ (g :> out)
=============================================================================
