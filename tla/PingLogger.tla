----------------------------- MODULE PingLogger -----------------------------
(***************************************************************************)
(* The latency samples of the dashboard page                               *)
(* (dashboard/frontend/src/hooks/usePingLogger.js) on their way to the     *)
(* backend's log (dashboard/backend/routers/ping_log.py).                  *)
(*                                                                         *)
(* The page measures, charts and buffers; a timer sends what is buffered   *)
(* as one batch and puts it back when the request throws.  A request that  *)
(* is answered, with an error too, does not throw, and one that throws may *)
(* have been saved, or be saved yet.  Samples are numbered as they are     *)
(* measured.                                                               *)
(***************************************************************************)
EXTENDS Naturals

CONSTANTS
  MaxSamples,    (* bound of the model: samples of a behaviour             *)
  MaxOpenings    (* bound of the model: times the page is opened           *)

ASSUME PingLoggerAssumption == MaxSamples \in Nat /\ MaxOpenings \in Nat

Samples == 1 .. MaxSamples

VARIABLES
  opened,       (* the page is mounted                                     *)
  opening,      (* times it has been                                       *)
  measured,     (* samples so far                                          *)
  chart,        (* the samples it shows                                    *)
  historyLoad,  (* the request of the history: asked, answered or done     *)
  history,      (* the answer under way                                    *)
  buffer,       (* batchRef: to be sent                                    *)
  batches,      (* under way: samples, sent, saved or, with the backend    *)
                (* still at it, thrown, and by which opening               *)
  log,          (* external: rows of each sample, two standing for more    *)
  unheard,      (* history: saved, and the answer lost                     *)
  refused,      (* history: answered with an error                         *)
  abandoned,    (* history: not saved when their page was left             *)
  charted       (* history: measured since the chart was last loaded       *)

logVars == <<log, unheard, refused>>
pingVars == <<opened, opening, measured, chart, historyLoad, history, buffer,
              batches, log, unheard, refused, abandoned, charted>>

PingInit ==
  /\ opened = FALSE /\ opening = 0
  /\ measured = 0
  /\ chart = {} /\ historyLoad = "done" /\ history = {} /\ charted = {}
  /\ buffer = {} /\ batches = {}
  /\ log = [s \in Samples |-> 0]
  /\ unheard = {} /\ refused = {} /\ abandoned = {}

Saved == {s \in Samples : log[s] > 0}
Own(b) == opened /\ b.opening = opening

Unsaved == {b \in batches : b.state = "sent"}
Awaited == {b \in batches : b.state # "thrown"}

-----------------------------------------------------------------------------
(* The page is mounted with nothing measured, and asks for the history.    *)
Open ==
  /\ ~opened /\ opening < MaxOpenings
  /\ opened' = TRUE /\ opening' = opening + 1
  /\ chart' = {} /\ buffer' = {} /\ charted' = {}
  /\ historyLoad' = "asked" /\ history' = {}
  /\ UNCHANGED <<measured, batches, logVars, abandoned>>

(* get_ping_history.                                                       *)
HistoryRead ==
  /\ historyLoad = "asked"
  /\ historyLoad' = "answered" /\ history' = Saved
  /\ UNCHANGED <<opened, opening, measured, chart, buffer, batches, logVars,
                 abandoned, charted>>

(* Wrong: a loaded history stands for what is measured later too.          *)
HistoryOnly ==
  /\ historyLoad = "answered"
  /\ historyLoad' = "done"
  /\ chart' = history
  /\ history' = {}
  /\ UNCHANGED <<opened, opening, measured, buffer, batches, logVars,
                 abandoned, charted>>

(* A history that is not empty replaces the chart.                         *)
HistoryLoaded ==
  /\ historyLoad = "answered"
  /\ historyLoad' = "done"
  /\ chart' = IF history = {} THEN chart ELSE history
  /\ charted' = IF history = {} THEN charted ELSE {}
  /\ history' = {}
  /\ UNCHANGED <<opened, opening, measured, buffer, batches, logVars,
                 abandoned>>

HistoryFailed ==
  /\ historyLoad \in {"asked", "answered"}
  /\ historyLoad' = "done" /\ history' = {}
  /\ UNCHANGED <<opened, opening, measured, chart, buffer, batches, logVars,
                 abandoned, charted>>

(* pingOnce, answered.                                                     *)
Measure ==
  /\ opened /\ measured < MaxSamples
  /\ measured' = measured + 1
  /\ chart' = chart \cup {measured + 1}
  /\ charted' = charted \cup {measured + 1}
  /\ buffer' = buffer \cup {measured + 1}
  /\ UNCHANGED <<opened, opening, historyLoad, history, batches, logVars,
                 abandoned>>

-----------------------------------------------------------------------------
(* The timer: what is buffered leaves as one batch.                        *)
SendBatch ==
  /\ opened /\ buffer # {}
  /\ batches' = batches \cup
       {[samples |-> buffer, state |-> "sent", opening |-> opening]}
  /\ buffer' = {}
  /\ UNCHANGED <<opened, opening, measured, chart, historyLoad, history,
                 logVars, abandoned, charted>>

(* log_pings commits the batch ...                                         *)
Commit(b) ==
  log' = [s \in Samples |->
    IF s \in b.samples THEN IF log[s] = 0 THEN 1 ELSE 2 ELSE log[s]]

SaveBatch(b) ==
  /\ b.state = "sent" /\ Commit(b)
  /\ batches' = (batches \ {b}) \cup {[b EXCEPT !.state = "saved"]}
  /\ UNCHANGED <<opened, opening, measured, chart, historyLoad, history,
                 buffer, unheard, refused, abandoned, charted>>

(* ... after its request threw, too.                                       *)
SaveThrown(b) ==
  /\ b.state = "thrown" /\ Commit(b)
  /\ batches' = batches \ {b}
  /\ unheard' = unheard \cup b.samples
  /\ UNCHANGED <<opened, opening, measured, chart, historyLoad, history,
                 buffer, refused, abandoned, charted>>

(* The answer arrives, as an error if the batch was not saved.             *)
BatchAnswered(b) ==
  /\ b.state # "thrown"
  /\ batches' = batches \ {b}
  /\ refused' = IF b.state = "saved" THEN refused
                ELSE refused \cup b.samples
  /\ UNCHANGED <<opened, opening, measured, chart, historyLoad, history,
                 buffer, log, unheard, abandoned, charted>>

(* The request throws: what was not saved is lost, or still served.        *)
Throws(b) ==
  /\ b.state # "thrown"
  /\ \/ batches' = batches \ {b}
     \/ /\ b.state = "sent"
        /\ batches' = (batches \ {b}) \cup {[b EXCEPT !.state = "thrown"]}
  /\ unheard' = IF b.state = "saved" THEN unheard \cup b.samples ELSE unheard
  /\ UNCHANGED <<opened, opening, measured, chart, historyLoad, history, log,
                 refused, abandoned, charted>>

(* Wrong: what was buffered meanwhile is dropped.                          *)
PutBackOver(b) ==
  Throws(b) /\ buffer' = IF Own(b) THEN b.samples ELSE buffer

(* Wrong: the batch of a request that throws is dropped.                   *)
PutBackNever(b) == Throws(b) /\ UNCHANGED buffer

(* The batch is put back, into the buffer of the opening that sent it.     *)
PutBack(b) ==
  Throws(b) /\ buffer' = IF Own(b) THEN buffer \cup b.samples ELSE buffer

(* The page is left: its buffer is lost, and its batches have no place to  *)
(* go back to.                                                             *)
Leave ==
  /\ opened
  /\ opened' = FALSE
  /\ historyLoad' = "done" /\ history' = {}
  /\ buffer' = {} /\ chart' = {} /\ charted' = {}
  /\ abandoned' = abandoned \cup buffer
       \cup UNION {b.samples : b \in Unsaved}
  /\ UNCHANGED <<opening, measured, batches, logVars>>

-----------------------------------------------------------------------------
PingNext ==
  \/ Open \/ HistoryRead \/ HistoryLoaded \/ HistoryFailed
  \/ Measure \/ SendBatch \/ Leave
  \/ \E b \in batches :
       SaveBatch(b) \/ SaveThrown(b) \/ BatchAnswered(b) \/ PutBack(b)

(* The timers fire, a request comes to an end, and whichever sample is     *)
(* sent again and again reaches the backend.                               *)
Reaches(s) == \E b \in batches : s \in b.samples /\ SaveBatch(b)
Ends(s) == \E b \in batches :
             s \in b.samples /\ (BatchAnswered(b) \/ PutBack(b))

PingSpec ==
  /\ PingInit /\ [][PingNext]_pingVars
  /\ WF_pingVars(SendBatch)
  /\ \A s \in Samples : SF_pingVars(Reaches(s)) /\ WF_pingVars(Ends(s))

-----------------------------------------------------------------------------
(***************************************************************************)
(* Properties.                                                             *)
(***************************************************************************)
PingTypeOK ==
  /\ opened \in BOOLEAN /\ opening \in 0 .. MaxOpenings
  /\ opened => opening > 0
  /\ measured \in 0 .. MaxSamples
  /\ chart \subseteq 1 .. measured /\ charted \subseteq 1 .. measured
  /\ historyLoad \in {"asked", "answered", "done"}
  /\ history \subseteq Saved
  /\ buffer \subseteq 1 .. measured /\ (buffer # {} => opened)
  /\ batches \subseteq [samples : SUBSET (1 .. measured),
                        state : {"sent", "saved", "thrown"},
                        opening : 1 .. opening]
  /\ log \in [Samples -> 0 .. 2]
  /\ Saved \cup unheard \cup refused \cup abandoned \subseteq 1 .. measured

Pending == buffer \cup UNION {b.samples : b \in Unsaved}

(* No sample is lost or saved twice without a cause: every one is waiting  *)
(* or saved, unless its batch was answered with an error or its page was   *)
(* left before; and a second row of it takes an answer that was lost.      *)
EverySampleAccounted ==
  /\ 1 .. measured = Pending \cup Saved \cup refused \cup abandoned
  /\ \A s \in Samples : log[s] > 1 => s \in unheard

(* A sample waits in one place only, and is not saved yet unless a lost    *)
(* answer sent it again.                                                   *)
OnePlace ==
  /\ \A s \in Saved \cap Pending : s \in unheard
  /\ \A b \in Awaited : buffer \cap b.samples = {}
  /\ \A b, c \in Awaited : b # c => b.samples \cap c.samples = {}
  /\ \A b \in batches : b.state = "saved" => b.samples \subseteq Saved

(* What was measured since the chart was last loaded is on it.             *)
ChartKeepsUp == charted \subseteq chart

(* A batch that has no place to go back to was abandoned, unless saved.    *)
NoPlace == \A b \in Unsaved : ~Own(b) => b.samples \subseteq abandoned

PingIInv ==
  PingTypeOK /\ EverySampleAccounted /\ OnePlace /\ NoPlace /\ ChartKeepsUp

(* A sample does not wait for ever.                                        *)
SamplesArrive ==
  \A s \in Samples :
    s \in buffer ~> s \in Saved \cup refused \cup abandoned
=============================================================================
