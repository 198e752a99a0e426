----------------------------- MODULE MCUplink -----------------------------
(***************************************************************************)
(* Uplink on small instances: a window of one or two packets, two paths.   *)
(***************************************************************************)
EXTENDS Uplink, TLC

(* Nothing tells one path from another, and every property is a safety     *)
(* property.                                                               *)
PathSymmetry == Permutations(Paths)

=============================================================================
