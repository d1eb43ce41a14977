-------------------------- MODULE MCStreamBatching --------------------------
(* StreamBatching on small instances: the values its configurations share. *)
EXTENDS StreamBatching

MCSymmetry == Permutations(Requests)
=============================================================================
