--------------------------- MODULE MCBondClient ---------------------------
(***************************************************************************)
(* BondClient on three paths, of which one is not metered.                 *)
(***************************************************************************)
EXTENDS BondClient
=============================================================================
