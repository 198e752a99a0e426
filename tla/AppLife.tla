------------------------------ MODULE AppLife ------------------------------
(***************************************************************************)
(* The life of the Windows app's connection as its user can follow it,     *)
(* without goroutines, calls, events or routes: one attempt at a time, and *)
(* only of somebody signed in while nothing is up; a connection comes from *)
(* an attempt only and goes by a stop only, or with the process; and one   *)
(* is signed out at the end of a stop.  A stop does not reach an attempt   *)
(* that is under way: what that attempt brings may outlive the session it  *)
(* was asked for in.                                                       *)
(***************************************************************************)
VARIABLES
  token,        (* somebody is signed in                                   *)
  starting,     (* an attempt to connect is under way                      *)
  active,       (* a connection is up                                      *)
  stopping      (* something is being taken down                           *)

vars == <<token, starting, active, stopping>>

Init ==
  /\ token \in BOOLEAN
  /\ ~starting /\ ~active /\ ~stopping

SignIn ==
  /\ token' = TRUE
  /\ UNCHANGED <<starting, active, stopping>>

StartBegins ==
  /\ token /\ ~starting /\ ~active
  /\ starting' = TRUE
  /\ UNCHANGED <<token, active, stopping>>

(* The attempt ends with a connection or without.                          *)
StartEnds ==
  /\ starting /\ ~active
  /\ starting' = FALSE
  /\ active' \in BOOLEAN
  /\ UNCHANGED <<token, stopping>>

StopBegins ==
  /\ stopping' = TRUE
  /\ active' = FALSE
  /\ UNCHANGED <<token, starting>>

(* One of the stops ends, a sign-out or another.                           *)
StopEnds ==
  /\ stopping
  /\ stopping' \in BOOLEAN
  /\ token' \in {token, FALSE}
  /\ UNCHANGED <<starting, active>>

(* The process ends and is started again, with the token that was saved.   *)
ProcessEnds ==
  /\ starting' = FALSE /\ active' = FALSE /\ stopping' = FALSE
  /\ UNCHANGED token

Next ==
  SignIn \/ StartBegins \/ StartEnds \/ StopBegins \/ StopEnds \/ ProcessEnds

Spec == Init /\ [][Next]_vars
=============================================================================
