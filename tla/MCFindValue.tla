---------------------------- MODULE MCFindValue ----------------------------
(***************************************************************************)
(* Instances of FindValue for TLC: four providers for two slots, and this  *)
(* node itself among the records.                                          *)
(***************************************************************************)
EXTENDS FindValue, TLC
=============================================================================
