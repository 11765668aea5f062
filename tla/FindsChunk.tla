------------------------------ MODULE FindsChunk ------------------------------
(***************************************************************************)
(* What a search for a chunk promises: it finds it if one provider can be  *)
(* relied on all the time, and it gives up only when asked to.  Download   *)
(* and the manifest's lookup take FindValue for this.                      *)
(***************************************************************************)
CONSTANT Contact

VARIABLES
  status,    \* searching, found, missing, cancelled
  reliable   \* known providers that have answered rightly all the time so far

vars == <<status, reliable>>

Init == status = "cancelled" /\ reliable = {}

\* The search is called; its providers are not known yet.
Begin == status # "searching" /\ status' = "searching" /\ reliable' = {}

Learn == status = "searching" /\ status' = status /\ reliable' \in SUBSET Contact

\* A provider goes away, or cannot be reached.
Disturb == status' = status /\ reliable' \in SUBSET reliable

Find == status = "searching" /\ status' = "found" /\ reliable' = reliable

Miss == status = "searching" /\ reliable = {} /\ status' = "missing" /\ reliable' = reliable

Cancel == status = "searching" /\ status' = "cancelled" /\ reliable' = reliable

Next == Begin \/ Learn \/ Disturb \/ Find \/ Miss \/ Cancel

Spec == Init /\ [][Next]_vars
=============================================================================
