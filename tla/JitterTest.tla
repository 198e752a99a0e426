----------------------------- MODULE JitterTest -----------------------------
(***************************************************************************)
(* The public latency test (dashboard/frontend/src/pages/JitterTest.jsx).  *)
(*                                                                         *)
(* A test warms the connection up with two pings, then measures from an    *)
(* interval timer until an answer comes back Duration after its start.     *)
(* The timer does not wait for the answers, the readings are shared by all *)
(* tests of the page, and each ping knows only the start of its own test.  *)
(***************************************************************************)
EXTENDS Naturals

CONSTANTS
  Duration,      (* ticks of a whole test: 60 seconds in the code          *)
  Baseline,      (* readings that make the baseline: 8 in the code         *)
  MaxTests,      (* bound of the model: tests of a page                    *)
  MaxPings,      (* bound of the model: pings of a test under way          *)
  MaxReadings    (* bound of the model: what the counters count to         *)

ASSUME JitterTestAssumption ==
  /\ Duration \in Nat \ {0} /\ Baseline \in Nat \ {0}
  /\ MaxTests \in Nat /\ MaxPings \in Nat \ {0} /\ MaxReadings \in Nat

Tests == 1 .. MaxTests

VARIABLES
  mounted,
  phase,        (* idle, warmup, running or done                           *)
  test,         (* tests begun                                             *)
  warming,      (* by test: warm-up pings still to come, 0 when over       *)
  age,          (* by test: time since startTs, Duration standing for more *)
  intervals,    (* tests whose interval runs                               *)
  timerRef,     (* the interval the page knows                             *)
  pings,        (* by test: measurements under way                         *)
  readings,     (* readingsRef's length                                    *)
  spikes,       (* spikesRef                                               *)
  elapsed,      (* what is shown                                           *)
  mixed         (* history: an answer was taken after another test began   *)

jitterVars == <<mounted, phase, test, warming, age, intervals, timerRef,
                pings, readings, spikes, elapsed, mixed>>

JitterInit ==
  /\ mounted = TRUE /\ phase = "idle"
  /\ test = 0
  /\ warming = [t \in Tests |-> 0]
  /\ age = [t \in Tests |-> 0]
  /\ intervals = {} /\ timerRef = 0
  /\ pings = [t \in Tests |-> 0]
  /\ readings = 0 /\ spikes = 0 /\ elapsed = 0
  /\ mixed = FALSE

UpTo(n, max) == IF n < max THEN n ELSE max

-----------------------------------------------------------------------------
(* The button is there when no test warms up or runs.                      *)
Startable == mounted /\ phase \in {"idle", "done"}

Start ==
  /\ Startable /\ test < MaxTests
  /\ test' = test + 1
  /\ phase' = "warmup"
  /\ readings' = 0 /\ spikes' = 0 /\ elapsed' = 0
  /\ warming' = [warming EXCEPT ![test + 1] = 2]
  /\ UNCHANGED <<mounted, age, intervals, timerRef, pings, mixed>>

(* A warm-up ping is over, answered or not; after the second the interval  *)
(* starts, though the page may be gone or another test have begun.         *)
Warmed(t) ==
  /\ warming[t] > 0
  /\ warming' = [warming EXCEPT ![t] = @ - 1]
  /\ IF warming[t] = 2 THEN UNCHANGED <<phase, intervals, timerRef, mixed>>
     ELSE /\ phase' = "running"
          /\ intervals' = intervals \cup {t}
          /\ timerRef' = t
          /\ mixed' = (mixed \/ t # test)
  /\ UNCHANGED <<mounted, test, age, pings, readings, spikes, elapsed>>

(* The interval fires.                                                     *)
Fire(t) ==
  /\ t \in intervals /\ pings[t] < MaxPings
  /\ pings' = [pings EXCEPT ![t] = @ + 1]
  /\ UNCHANGED <<mounted, phase, test, warming, age, intervals, timerRef,
                 readings, spikes, elapsed, mixed>>

Over(t) == age[t] >= Duration

Taken(t) == pings[t] > 0 /\ pings' = [pings EXCEPT ![t] = @ - 1]

(* Wrong: an answer of an earlier test clears the timer, and no more.      *)
MeasuredStale(t) ==
  /\ Taken(t)
  /\ readings' = UpTo(readings + 1, MaxReadings)
  /\ \/ UNCHANGED spikes
     \/ readings + 1 >= Baseline /\ spikes' = UpTo(spikes + 1, MaxReadings)
  /\ elapsed' = age[t]
  /\ intervals' = IF Over(t) THEN intervals \ {timerRef} ELSE intervals
  /\ phase' = IF Over(t) /\ t = test THEN "done" ELSE phase
  /\ mixed' = (mixed \/ t # test)
  /\ UNCHANGED <<mounted, test, warming, age, timerRef>>

(* An answer: a reading, from the baseline on perhaps a spike, and at the  *)
(* end the timer the page knows is cleared.                                *)
Measured(t) ==
  /\ Taken(t)
  /\ readings' = UpTo(readings + 1, MaxReadings)
  /\ \/ UNCHANGED spikes
     \/ readings + 1 >= Baseline /\ spikes' = UpTo(spikes + 1, MaxReadings)
  /\ elapsed' = age[t]
  /\ IF Over(t) THEN phase' = "done" /\ intervals' = intervals \ {timerRef}
                ELSE UNCHANGED <<phase, intervals>>
  /\ mixed' = (mixed \/ t # test)
  /\ UNCHANGED <<mounted, test, warming, age, timerRef>>

(* measurePing gives nothing, and nothing is looked at.                    *)
Unmeasured(t) ==
  /\ Taken(t)
  /\ UNCHANGED <<mounted, phase, test, warming, age, intervals, timerRef,
                 readings, spikes, elapsed, mixed>>

(* The page is left: its timer is cleared.                                 *)
LeaveTest ==
  /\ mounted
  /\ mounted' = FALSE
  /\ intervals' = intervals \ {timerRef}
  /\ UNCHANGED <<phase, test, warming, age, timerRef, pings, readings, spikes,
                 elapsed, mixed>>

Begun(t) == t <= test /\ warming[t] = 0

Tick ==
  /\ \E t \in Tests : Begun(t) /\ age[t] < Duration
  /\ age' = [t \in Tests |-> IF Begun(t) THEN UpTo(age[t] + 1, Duration)
                                         ELSE age[t]]
  /\ UNCHANGED <<mounted, phase, test, warming, intervals, timerRef, pings,
                 readings, spikes, elapsed, mixed>>

-----------------------------------------------------------------------------
JitterNext ==
  \/ Start \/ LeaveTest \/ Tick
  \/ \E t \in Tests : Warmed(t) \/ Fire(t) \/ Measured(t) \/ Unmeasured(t)

(* The clock goes on, intervals fire, and not every ping is lost.          *)
JitterSpec ==
  /\ JitterInit /\ [][JitterNext]_jitterVars
  /\ WF_jitterVars(Tick)
  /\ \A t \in Tests : WF_jitterVars(Fire(t)) /\ SF_jitterVars(Measured(t))

-----------------------------------------------------------------------------
(***************************************************************************)
(* Properties.                                                             *)
(***************************************************************************)
JitterTypeOK ==
  /\ mounted \in BOOLEAN /\ mixed \in BOOLEAN
  /\ phase \in {"idle", "warmup", "running", "done"}
  /\ test \in 0 .. MaxTests /\ timerRef \in 0 .. test
  /\ warming \in [Tests -> 0 .. 2] /\ age \in [Tests -> 0 .. Duration]
  /\ intervals \subseteq 1 .. test
  /\ pings \in [Tests -> 0 .. MaxPings]
  /\ readings \in 0 .. MaxReadings /\ spikes \in 0 .. MaxReadings
  /\ elapsed \in 0 .. Duration
  /\ \A t \in Tests : warming[t] > 0 \/ pings[t] > 0 => t <= test
  /\ phase = "done" => test > 0

(* A test that runs comes to its end, or its page is left: whatever pings  *)
(* are lost at the end of its time, and though an answer of an earlier     *)
(* test may have cleared the timer the page knows.                         *)
TestEnds == (mounted /\ phase = "running") ~> (~mounted \/ phase = "done")

(* A page whose test is over runs no timer, and one that tests runs that   *)
(* test's only: no earlier test goes on measuring beside it, unless its    *)
(* answer was taken late.                                                  *)
NoTimerLeft ==
  ~mixed => /\ intervals \subseteq {test}
            /\ phase # "running" => intervals = {}

(* What it rests on: a test measures when its warm-up is over, and the     *)
(* page knows the timer it started.                                        *)
OwnTimer ==
  /\ \A t \in Tests : t \in intervals \/ pings[t] > 0 => warming[t] = 0
  /\ ~mixed =>
       /\ \A t \in Tests : warming[t] > 0 <=> (t = test /\ phase = "warmup")
       /\ phase = "running" => timerRef = test

TimerInv == NoTimerLeft /\ OwnTimer
=============================================================================
