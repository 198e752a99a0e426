------------------------------ MODULE Backend -------------------------------
(***************************************************************************)
(* The processes of the web dashboard's backend: uvicorn runs two of them  *)
(* (deploy/antijitter-api.service), each with module globals of its own,   *)
(* and any of them may take a connection.                                  *)
(***************************************************************************)
CONSTANT Workers

ASSUME BackendAssumption == Workers # {}
=============================================================================
