--------------------------- MODULE MetricsStream ----------------------------
(***************************************************************************)
(* The stream of metrics of the dashboard page                             *)
(* (dashboard/frontend/src/hooks/useMetrics.js).                           *)
(*                                                                         *)
(* Each run of the hook's effect opens a socket and opens another whenever *)
(* it closes, for ever: leaving the page closes the socket, and its        *)
(* closing sets the timer that opens the next.                             *)
(***************************************************************************)
EXTENDS Naturals

CONSTANTS
  MaxMounts,     (* bound of the model: times the page is opened           *)
  MaxRuns        (* bound of the model: runs of the stream's effect        *)

ASSUME MetricsStreamAssumption == MaxMounts \in Nat /\ MaxRuns \in Nat

Runs == 1 .. MaxRuns

VARIABLES
  mount,        (* times the page has been mounted                         *)
  onScreen,     (* it is mounted                                           *)
  run,          (* runs of the stream's effect so far                      *)
  stream,       (* by run: none, connecting, open, closing or waiting      *)
  streamOf,     (* by run: its page                                        *)
  wsRef,        (* the run that made the page's last socket                *)
  connected     (* what the page shows                                     *)

streamVars == <<mount, onScreen, run, stream, streamOf, wsRef, connected>>

StreamInit ==
  /\ mount = 0 /\ onScreen = FALSE
  /\ run = 0
  /\ stream = [r \in Runs |-> "none"]
  /\ streamOf = [r \in Runs |-> 0]
  /\ wsRef = 0
  /\ connected = FALSE

-----------------------------------------------------------------------------
(* A run of the effect begins: connect().                                  *)
NewRun(v, closed) ==
  /\ run < MaxRuns
  /\ run' = run + 1
  /\ stream' = [closed EXCEPT ![run + 1] = "connecting"]
  /\ streamOf' = [streamOf EXCEPT ![run + 1] = v]
  /\ wsRef' = run + 1

(* The effect's cleanup closes the page's last socket, if it still is one. *)
Cleanup ==
  IF wsRef \in Runs /\ stream[wsRef] \in {"connecting", "open"}
  THEN [stream EXCEPT ![wsRef] = "closing"] ELSE stream

Mount ==
  /\ ~onScreen /\ mount < MaxMounts
  /\ onScreen' = TRUE /\ mount' = mount + 1
  /\ NewRun(mount + 1, stream)
  /\ connected' = FALSE

Unmount ==
  /\ onScreen
  /\ onScreen' = FALSE
  /\ stream' = Cleanup
  /\ UNCHANGED <<mount, run, streamOf, wsRef, connected>>

(* Another token: the effect runs again.                                   *)
TokenChanges ==
  /\ onScreen
  /\ NewRun(mount, Cleanup)
  /\ UNCHANGED <<onScreen, mount, connected>>

Shown(r) == onScreen /\ streamOf[r] = mount

Opened(r) ==
  /\ stream[r] = "connecting"
  /\ stream' = [stream EXCEPT ![r] = "open"]
  /\ connected' = IF Shown(r) THEN TRUE ELSE connected
  /\ UNCHANGED <<onScreen, mount, run, streamOf, wsRef>>

(* Wrong: only a stream that was open is connected again.                  *)
ClosedForGood(r) ==
  /\ stream[r] \in {"connecting", "open", "closing"}
  /\ stream' = [stream EXCEPT ![r] =
                  IF @ = "connecting" THEN "none" ELSE "waiting"]
  /\ connected' = IF Shown(r) THEN FALSE ELSE connected
  /\ UNCHANGED <<onScreen, mount, run, streamOf, wsRef>>

(* onclose: the timer is set, whoever closed the socket.                   *)
Closed(r) ==
  /\ stream[r] \in {"connecting", "open", "closing"}
  /\ stream' = [stream EXCEPT ![r] = "waiting"]
  /\ connected' = IF Shown(r) THEN FALSE ELSE connected
  /\ UNCHANGED <<onScreen, mount, run, streamOf, wsRef>>

(* The timer fires: connect() again, in the ref of the mount the run       *)
(* belongs to.                                                             *)
Reconnect(r) ==
  /\ stream[r] = "waiting"
  /\ stream' = [stream EXCEPT ![r] = "connecting"]
  /\ wsRef' = IF streamOf[r] = mount THEN r ELSE wsRef
  /\ UNCHANGED <<onScreen, mount, run, streamOf, connected>>

-----------------------------------------------------------------------------
StreamNext ==
  \/ Mount \/ Unmount \/ TokenChanges
  \/ \E r \in Runs : Opened(r) \/ Closed(r) \/ Reconnect(r)

(* Timers fire, a socket that is closed says so, and the backend does not  *)
(* refuse the page's streams for ever.                                     *)
StreamAdvances(r) == Reconnect(r) \/ (stream[r] = "closing" /\ Closed(r))
StreamOpens == \E r \in Runs : Shown(r) /\ Opened(r)

StreamSpec ==
  /\ StreamInit /\ [][StreamNext]_streamVars
  /\ \A r \in Runs : WF_streamVars(StreamAdvances(r))
  /\ SF_streamVars(StreamOpens)

-----------------------------------------------------------------------------
(***************************************************************************)
(* Properties.                                                             *)
(***************************************************************************)
StreamTypeOK ==
  /\ mount \in 0 .. MaxMounts /\ onScreen \in BOOLEAN
  /\ run \in 0 .. MaxRuns
  /\ stream \in [Runs -> {"none", "connecting", "open", "closing", "waiting"}]
  /\ streamOf \in [Runs -> 0 .. MaxMounts]
  /\ wsRef \in 0 .. MaxRuns
  /\ connected \in BOOLEAN

(* A page that stays shows a stream again, whatever breaks it.             *)
StreamReturns == onScreen ~> connected \/ ~onScreen

(* What that rests on: a run of the effect never lets go of its stream,    *)
(* not even when its page is left; a page on the screen has one of its     *)
(* own that is up or on its way, and shows "connected" only while one of   *)
(* its own is open, or has just been closed by another run and not yet     *)
(* said so.                                                                *)
StreamAlive ==
  /\ \A r \in Runs : stream[r] # "none" <=> r <= run
  /\ onScreen =>
       \E r \in Runs :
         /\ Shown(r) /\ stream[r] # "none"
         /\ connected => stream[r] \in {"open", "closing"}
=============================================================================
