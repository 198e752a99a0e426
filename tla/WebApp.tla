------------------------------- MODULE WebApp -------------------------------
(***************************************************************************)
(* The web dashboard: its session, its pages and the backend's routes they *)
(* use.                                                                    *)
(*                                                                         *)
(* The parts share nothing but the token of the session, and losing it is  *)
(* for a page what leaving it is.  A behaviour therefore follows one part, *)
(* chosen at its start; the others stay where they are.                    *)
(***************************************************************************)
EXTENDS WebSession, FailoverPolls, MetricsStream, PingLogger, Billing,
        JitterTest, GameVotes, GameForm, Interfaces, Outages

CONSTANT Slots   (* numbers of the strong fairness conditions              *)

ASSUME WebAppAssumption == {1, 2} \cup Samples \cup Tests \subseteq Slots

VARIABLE watched

webVars == <<watched, sessionVars, pollVars, streamVars, pingVars, billingVars,
             jitterVars, votesVars, formVars, ifaceVars, outageVars>>

Parts == {"session", "polls", "stream", "ping", "billing", "jitter", "votes",
          "form", "interfaces", "outages"}

(* Every link is up at the start, for the size of the instance: links      *)
(* change during a behaviour.                                              *)
WebInit ==
  /\ watched \in Parts
  /\ SessionInit /\ PollsInit /\ StreamInit /\ PingInit /\ BillingInit
  /\ JitterInit /\ VotesInit /\ FormInit /\ InterfacesInit /\ OutagesInit
  /\ watched # "session" => stored = NoToken /\ page = "login"
  /\ links = [i \in Ifaces |-> "up"]

Keep(part, partVars) == IF watched = part THEN TRUE ELSE UNCHANGED partVars

(* A step of the part that is watched.                                     *)
Step(part) ==
  /\ watched = part /\ UNCHANGED watched
  /\ Keep("session", sessionVars) /\ Keep("polls", pollVars)
  /\ Keep("stream", streamVars) /\ Keep("ping", pingVars)
  /\ Keep("billing", billingVars) /\ Keep("jitter", jitterVars)
  /\ Keep("votes", votesVars) /\ Keep("form", formVars)
  /\ Keep("interfaces", ifaceVars) /\ Keep("outages", outageVars)

WebNext ==
  \/ Step("session") /\ SessionNext
  \/ Step("polls") /\ PollsNext
  \/ Step("stream") /\ StreamNext
  \/ Step("ping") /\ PingNext
  \/ Step("billing") /\ BillingNext
  \/ Step("jitter") /\ JitterNext
  \/ Step("votes") /\ VotesNext
  \/ Step("form") /\ FormNext
  \/ Step("interfaces") /\ InterfacesNext
  \/ Step("outages") /\ OutagesNext

-----------------------------------------------------------------------------
(* What the parts' specifications ask of the part that is watched.         *)
Watching(part) == watched = part /\ UNCHANGED watched

followed ==
  CASE watched = "session" -> sessionVars
    [] watched = "stream" -> streamVars
    [] watched = "ping" -> pingVars
    [] watched = "jitter" -> jitterVars
    [] watched = "interfaces" -> ifaceVars
    [] watched = "outages" -> outageVars
    [] OTHER -> watched

Strong(n) ==
  \/ Watching("session")
     /\ ((n = 1 /\ SessionFair1) \/ (n = 2 /\ SessionFair3))
  \/ Watching("stream") /\ n = 1 /\ StreamOpens
  \/ Watching("ping") /\ n \in Samples /\ Reaches(n)
  \/ Watching("jitter") /\ n \in Tests /\ Measured(n)
  \/ Watching("interfaces") /\ n = 1 /\ FreshScanShown
  \/ Watching("outages")
     /\ ((n = 1 /\ CloseServed) \/ (n = 2 /\ AnswerShown))

WebFairness ==
  /\ \A n \in Slots : SF_followed(Strong(n))
  /\ WF_sessionVars(Watching("session") /\ SessionFair2)
  /\ WF_sessionVars(Watching("session") /\ SessionFair4)
  /\ \A r \in Runs : WF_streamVars(Watching("stream") /\ StreamAdvances(r))
  /\ WF_pingVars(Watching("ping") /\ SendBatch)
  /\ \A s \in Samples : WF_pingVars(Watching("ping") /\ Ends(s))
  /\ \A c \in Callers : WF_billingVars(Watching("billing") /\ Answers(c))
  /\ WF_jitterVars(Watching("jitter") /\ Tick)
  /\ \A t \in Tests : WF_jitterVars(Watching("jitter") /\ Fire(t))
  /\ WF_ifaceVars(Watching("interfaces") /\ Scan)
  /\ \A l \in Links : WF_ifaceVars(Watching("interfaces") /\ ScanEnds(l))
  /\ WF_outageVars(Watching("outages") /\ Pushed)
  /\ WF_outageVars(Watching("outages") /\ Asked)
  /\ \A r \in Reports : WF_outageVars(Watching("outages") /\ ReportServed(r))

WebSpec == WebInit /\ [][WebNext]_webVars /\ WebFairness

-----------------------------------------------------------------------------
(* Every state is well formed, with what the parts' other invariants rest  *)
(* on.                                                                     *)
WebIInv ==
  /\ watched \in Parts
  /\ SessionIInv /\ PollsIInv /\ StreamTypeOK /\ PingIInv /\ BillingIInv
  /\ JitterTypeOK /\ VotesIInv /\ FormIInv /\ InterfacesTypeOK /\ OutagesIInv

(* On the list of requested games nothing counts twice: neither a vote nor *)
(* a request, but for the races the two backends' parts name.              *)
CountedOnce == VotedOnce /\ VotesAddUp /\ AskedOnce

(* The parts' liveness, each of the behaviours that follow its part.       *)
SessionLive == watched = "session" => ExpiredLeaves
StreamLive == watched = "stream" => StreamReturns
PingLive == watched = "ping" => SamplesArrive
BillingLive == watched = "billing" => DownloadEnds
JitterLive == watched = "jitter" => TestEnds
InterfacesLive == watched = "interfaces" => CardsCatchUp
OutagesLive == watched = "outages" => BannerClears
=============================================================================
