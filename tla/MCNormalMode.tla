--------------------------- MODULE MCNormalMode ---------------------------
(***************************************************************************)
(* NormalMode with a dish and one mobile path.                             *)
(***************************************************************************)
EXTENDS NormalMode
=============================================================================
