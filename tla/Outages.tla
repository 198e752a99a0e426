------------------------------ MODULE Outages -------------------------------
(***************************************************************************)
(* The dish's outages: the poller that reports the dish                    *)
(* (dashboard/switch/starlink_poller.py), the backend that opens and       *)
(* closes a row for each (dashboard/backend/routers/starlink.py) and the   *)
(* timeline that shows whether one is open                                 *)
(* (dashboard/frontend/src/components/OutageTimeline.jsx).                 *)
(*                                                                         *)
(* Which row is open is known in a worker's memory only, from the moment   *)
(* its commit is over.  The backend runs with two workers                  *)
(* (deploy/antijitter-api.service), and which of them is handed a report   *)
(* is chance: one that knows of no outage opens a row of its own.  The     *)
(* poller gives up on a report after three seconds and goes on; the        *)
(* backend serves both.                                                    *)
(***************************************************************************)
EXTENDS Naturals, Backend

CONSTANTS
  MaxOutages,    (* bound of the model: rows                               *)
  Reports,       (* reports that may be served at a time                   *)
  WorkerOf,      (* the worker each of them is handed to                   *)
  MaxTurns       (* bound of the model: times the dish changes             *)

ASSUME OutagesAssumption ==
  /\ MaxOutages \in Nat /\ MaxTurns \in Nat
  /\ WorkerOf \in [Reports -> Workers]

VARIABLES
  dish,         (* external: clear or obstructed                           *)
  turns,        (* times it has changed                                    *)
  poller,       (* whether its token is accepted                           *)
  report,       (* by report: what it says, and the handler's step and row *)
  outages,      (* rows so far                                             *)
  open,         (* those not ended                                         *)
  openOutage,   (* by worker: _open_outage, 0 when there is none           *)
  timeline,     (* the timeline is on the page: the tab is Live            *)
  loads,        (* answers of /outages under way                           *)
  banner,       (* what the timeline shows                                 *)
  spoiled       (* history: the backend was restarted with an outage open, *)
                (* a worker served two reports at once or failed to end a  *)
                (* row, or the poller's token expired                      *)

timelineVars == <<timeline, loads, banner>>
outageVars == <<dish, turns, poller, report, outages, open, openOutage,
                timelineVars, spoiled>>

NoReport == [step |-> "none", says |-> "clear", row |-> 0]

OutagesInit ==
  /\ dish = "clear" /\ turns = 0 /\ poller = "accepted"
  /\ report = [r \in Reports |-> NoReport]
  /\ outages = 0 /\ open = {}
  /\ openOutage = [w \in Workers |-> 0]
  /\ timeline = FALSE /\ loads = {} /\ banner = FALSE
  /\ spoiled = FALSE

Served == {r \in Reports : report[r].step # "none"}
ServedBy(w) == {r \in Served : WorkerOf[r] = w}

(* What the worker of a report knows.                                      *)
Known(r) == openOutage[WorkerOf[r]]
Know(r, n) == openOutage' = [openOutage EXCEPT ![WorkerOf[r]] = n]

-----------------------------------------------------------------------------
DishTurns ==
  /\ turns < MaxTurns
  /\ turns' = turns + 1
  /\ dish' = IF dish = "clear" THEN "obstructed" ELSE "clear"
  /\ UNCHANGED <<poller, report, outages, open, openOutage, timelineVars,
                 spoiled>>

(* _push.                                                                  *)
Push(r) ==
  /\ poller = "accepted" /\ r \notin Served
  /\ report' = [report EXCEPT ![r] =
                  [step |-> "received", says |-> dish, row |-> 0]]
  /\ spoiled' = (spoiled \/ ServedBy(WorkerOf[r]) # {})
  /\ UNCHANGED <<dish, turns, poller, outages, open, openOutage, timelineVars>>

Done(r) == report' = [report EXCEPT ![r] = NoReport]

(* ingest_telemetry, where there is nothing to open or to close.           *)
Ingest(r) ==
  /\ report[r].step = "received"
  /\ (report[r].says = "obstructed") <=> (Known(r) # 0)
  /\ Done(r)
  /\ UNCHANGED <<dish, turns, poller, outages, open, openOutage, timelineVars,
                 spoiled>>

(* A new outage is committed ...                                           *)
OpenRow(r) ==
  /\ report[r].step = "received" /\ report[r].says = "obstructed"
  /\ Known(r) = 0 /\ outages < MaxOutages
  /\ outages' = outages + 1
  /\ open' = open \cup {outages + 1}
  /\ report' = [report EXCEPT ![r].step = "opened", ![r].row = outages + 1]
  /\ UNCHANGED <<dish, turns, poller, openOutage, timelineVars, spoiled>>

(* ... and then known.                                                     *)
Remember(r) ==
  /\ report[r].step = "opened"
  /\ Know(r, report[r].row)
  /\ Done(r)
  /\ UNCHANGED <<dish, turns, poller, outages, open, timelineVars, spoiled>>

(* The dish is clear: the worker's outage is forgotten ...                 *)
Forget(r) ==
  /\ report[r].step = "received" /\ report[r].says = "clear"
  /\ Known(r) # 0
  /\ report' = [report EXCEPT ![r].step = "closing", ![r].row = Known(r)]
  /\ Know(r, 0)
  /\ UNCHANGED <<dish, turns, poller, outages, open, timelineVars, spoiled>>

(* Wrong: its end is not written.                                          *)
ForgetOnly(r) ==
  /\ report[r].step = "closing"
  /\ Done(r)
  /\ UNCHANGED <<dish, turns, poller, outages, open, openOutage, timelineVars,
                 spoiled>>

(* ... and then ended.                                                     *)
EndRow(r) ==
  /\ report[r].step = "closing"
  /\ open' = open \ {report[r].row}
  /\ Done(r)
  /\ UNCHANGED <<dish, turns, poller, outages, openOutage, timelineVars,
                 spoiled>>

(* A commit fails: what was to be written is not.                          *)
CommitFails(r) ==
  /\ r \in Served
  /\ Done(r)
  /\ spoiled' = (spoiled \/ report[r].step # "received")
  /\ UNCHANGED <<dish, turns, poller, outages, open, openOutage, timelineVars>>

RestartBackend ==
  /\ openOutage' = [w \in Workers |-> 0]
  /\ report' = [r \in Reports |-> NoReport]
  /\ spoiled' = (spoiled \/ open # {})
  /\ UNCHANGED <<dish, turns, poller, outages, open, timelineVars>>

(* The poller signs in once, at its start.                                 *)
TokenExpires ==
  /\ poller = "accepted"
  /\ poller' = "refused" /\ spoiled' = TRUE
  /\ UNCHANGED <<dish, turns, report, outages, open, openOutage, timelineVars>>

-----------------------------------------------------------------------------
(* The tab is Live: the timeline is mounted, and asks; on another it is    *)
(* not, and the answers under way find nobody.                             *)
ShowTimeline ==
  /\ ~timeline /\ timeline' = TRUE
  /\ loads' = {open # {}}
  /\ UNCHANGED <<dish, turns, poller, report, outages, open, openOutage,
                 banner, spoiled>>

LeaveTimeline ==
  /\ timeline /\ timeline' = FALSE
  /\ loads' = {} /\ banner' = FALSE
  /\ UNCHANGED <<dish, turns, poller, report, outages, open, openOutage,
                 spoiled>>

(* load(), every fifteen seconds.                                          *)
Load ==
  /\ timeline
  /\ loads' = loads \cup {open # {}}
  /\ UNCHANGED <<dish, turns, poller, report, outages, open, openOutage,
                 timeline, banner, spoiled>>

Loaded(l) ==
  /\ loads' = loads \ {l}
  /\ banner' = l
  /\ UNCHANGED <<dish, turns, poller, report, outages, open, openOutage,
                 timeline, spoiled>>

LoadFailed(l) ==
  /\ loads' = loads \ {l}
  /\ UNCHANGED <<dish, turns, poller, report, outages, open, openOutage,
                 timeline, banner, spoiled>>

-----------------------------------------------------------------------------
(* Bound of the model: a behaviour is not followed further once it is      *)
(* spoiled.                                                                *)
OutagesNext ==
  /\ ~spoiled
  /\ \/ DishTurns \/ RestartBackend \/ TokenExpires
     \/ ShowTimeline \/ LeaveTimeline \/ Load
     \/ \E r \in Reports :
          \/ Push(r) \/ Ingest(r) \/ OpenRow(r) \/ Remember(r) \/ Forget(r)
          \/ EndRow(r) \/ CommitFails(r)
     \/ \E l \in loads : Loaded(l) \/ LoadFailed(l)

(* The poller reports and the timeline asks again and again; the backend   *)
(* serves, and not every report or answer is lost.                         *)
Pushed == ~spoiled /\ \E r \in Reports : Push(r)
Asked == ~spoiled /\ Load
ReportServed(r) ==
  ~spoiled /\ (Ingest(r) \/ OpenRow(r) \/ Remember(r) \/ EndRow(r))
CloseServed == ~spoiled /\ \E r \in Reports : Forget(r)
AnswerShown == ~spoiled /\ (open # {}) \in loads /\ Loaded(open # {})

OutagesSpec ==
  /\ OutagesInit /\ [][OutagesNext]_outageVars
  /\ WF_outageVars(Pushed) /\ WF_outageVars(Asked)
  /\ \A r \in Reports : WF_outageVars(ReportServed(r))
  /\ SF_outageVars(CloseServed) /\ SF_outageVars(AnswerShown)

-----------------------------------------------------------------------------
(***************************************************************************)
(* Properties.                                                             *)
(***************************************************************************)
OutagesTypeOK ==
  /\ dish \in {"clear", "obstructed"} /\ turns \in 0 .. MaxTurns
  /\ poller \in {"accepted", "refused"}
  /\ report \in [Reports ->
       [step : {"none", "received", "opened", "closing"},
        says : {"clear", "obstructed"}, row : 0 .. outages]]
  /\ outages \in 0 .. MaxOutages /\ open \subseteq 1 .. outages
  /\ openOutage \in [Workers -> 0 .. outages]
  /\ timeline \in BOOLEAN /\ loads \subseteq BOOLEAN
  /\ banner \in BOOLEAN /\ spoiled \in BOOLEAN

(* A worker holds a row: it knows it, or is about to, or to end it.        *)
Holds(w, row) ==
  \/ openOutage[w] = row
  \/ \E r \in ServedBy(w) :
       report[r].step \in {"opened", "closing"} /\ report[r].row = row

(* When nothing has spoiled it, every open row is held by a worker, which  *)
(* can end it, and no worker has two: no more are open than there are      *)
(* workers.                                                                *)
OpenOutagesHeld ==
  ~spoiled =>
    /\ \A row \in open : \E w \in Workers : Holds(w, row)
    /\ \A w \in Workers : \A row, other \in open :
         Holds(w, row) /\ Holds(w, other) => row = other

(* What it rests on: a worker serves one report at a time, and knows no    *)
(* row while the report opens or closes one.                               *)
OneServed ==
  ~spoiled =>
    \A r \in Served :
      /\ ServedBy(WorkerOf[r]) = {r}
      /\ report[r].step # "received" => Known(r) = 0

OutagesIInv == OutagesTypeOK /\ OpenOutagesHeld /\ OneServed

(* With the same exceptions, the banner goes once the dish is clear, if    *)
(* every worker is handed reports again and again: a worker that is not    *)
(* never ends the row it knows.                                            *)
HandedTo(w) == \E r \in Reports : WorkerOf[r] = w /\ Push(r)

BannerClears ==
  (\A w \in Workers : []<><<HandedTo(w)>>_outageVars) =>
    ((banner /\ dish = "clear") ~> (~banner \/ dish = "obstructed" \/ spoiled))
=============================================================================
