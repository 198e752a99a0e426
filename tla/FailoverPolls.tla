--------------------------- MODULE FailoverPolls ----------------------------
(***************************************************************************)
(* The failovers the dashboard page polls and announces                    *)
(* (dashboard/frontend/src/hooks/useMetrics.js) against the backend that   *)
(* keeps the last of them (dashboard/backend/main.py get_events).          *)
(*                                                                         *)
(* A poll is sent every two seconds, whether the one before was answered   *)
(* or not, and an answer is taken even after its page was left.  Each of   *)
(* the backend's workers lists the failovers of the streams it serves, and *)
(* any of them may answer a poll.                                          *)
(***************************************************************************)
EXTENDS Naturals, FiniteSets, Backend

CONSTANTS
  Kept,          (* failovers a worker lists: 20 in the code               *)
  MaxFailovers,  (* bound of the model: failovers of a worker              *)
  MaxRecorded,   (* bound of the model: failovers of all workers           *)
  MaxVisits,     (* bound of the model: times the page is opened           *)
  MaxPolls       (* bound of the model: answers under way                  *)

ASSUME FailoverPollsAssumption ==
  /\ Kept \in Nat /\ MaxFailovers \in Nat /\ MaxRecorded \in Nat
  /\ MaxVisits \in Nat /\ MaxPolls \in Nat

Visits == 1 .. MaxVisits
Failovers == 1 .. MaxFailovers

VARIABLES
  failovers,    (* by worker, external: how many it has recorded           *)
  onPage,       (* the page is mounted                                     *)
  visit,        (* times it has been mounted                               *)
  polls,        (* answers of /api/events under way: the visit, and the    *)
                (* list: whose it is, and how many that worker had seen    *)
  prevEvents,   (* by visit: the list of the last answer it took           *)
  announced,    (* history, by visit: announcements of each failover of    *)
                (* each worker, two standing for more                      *)
  jumbled       (* history: visits that took an answer older than the one  *)
                (* before, or another worker's                             *)

pollVars ==
  <<failovers, onPage, visit, polls, prevEvents, announced, jumbled>>

(* A list: whoever's it is, an empty one is the same.                      *)
List(w, n) == [of |-> w, seen |-> n]
NoEvents == List(CHOOSE w \in Workers : TRUE, 0)
Lists == UNION {{List(w, n) : n \in 0 .. failovers[w]} : w \in Workers}

PollsInit ==
  /\ failovers = [w \in Workers |-> 0]
  /\ onPage = FALSE /\ visit = 0
  /\ polls = {}
  /\ prevEvents = [v \in Visits |-> NoEvents]
  /\ announced = [v \in Visits |-> [w \in Workers |-> [f \in Failovers |-> 0]]]
  /\ jumbled = {}

-----------------------------------------------------------------------------
OpenPage ==
  /\ ~onPage /\ visit < MaxVisits
  /\ onPage' = TRUE /\ visit' = visit + 1
  /\ UNCHANGED <<failovers, polls, prevEvents, announced, jumbled>>

LeavePage ==
  /\ onPage /\ onPage' = FALSE
  /\ UNCHANGED <<failovers, visit, polls, prevEvents, announced, jumbled>>

Listed(n) == IF n < Kept THEN n ELSE Kept

Recorded == {r \in Workers \X Failovers : r[2] <= failovers[r[1]]}

RecordFailover(w) ==
  /\ failovers[w] < MaxFailovers /\ Cardinality(Recorded) < MaxRecorded
  /\ failovers' = [failovers EXCEPT ![w] = @ + 1]
  /\ UNCHANGED <<onPage, visit, polls, prevEvents, announced, jumbled>>

(* A worker answers a poll of the mounted page.                            *)
Poll(w) ==
  /\ onPage
  /\ Cardinality(polls) < MaxPolls
  /\ polls' = polls \cup {[visit |-> visit, list |-> List(w, failovers[w])]}
  /\ UNCHANGED <<onPage, visit, failovers, prevEvents, announced, jumbled>>

(* Wrong: a list that is no shorter is news.                               *)
NewsAtLeast(p) == Listed(p.list.seen) >= Listed(prevEvents[p.visit].seen)

(* Longer than the list before: the newest is announced.                   *)
News(p) == Listed(p.list.seen) > Listed(prevEvents[p.visit].seen)

Announce(p) ==
  announced' = [announced EXCEPT ![p.visit][p.list.of][p.list.seen] =
                  IF @ = 0 THEN 1 ELSE 2]

(* The list that is taken after another follows it.                        *)
Follows(list, prev) ==
  prev.seen = 0 \/ (list.of = prev.of /\ list.seen >= prev.seen)

(* An answer is taken, the page mounted or not.                            *)
PollTaken(p) ==
  /\ polls' = polls \ {p}
  /\ IF News(p) /\ p.list.seen > 0 THEN Announce(p) ELSE UNCHANGED announced
  /\ prevEvents' = [prevEvents EXCEPT ![p.visit] = p.list]
  /\ jumbled' = IF Follows(p.list, prevEvents[p.visit])
                THEN jumbled ELSE jumbled \cup {p.visit}
  /\ UNCHANGED <<onPage, visit, failovers>>

PollFailed(p) ==
  /\ polls' = polls \ {p}
  /\ UNCHANGED <<onPage, visit, failovers, prevEvents, announced, jumbled>>

-----------------------------------------------------------------------------
(* Bound of the model: a behaviour is not followed further once the        *)
(* answers of a visit are jumbled.                                         *)
PollsNext ==
  /\ jumbled = {}
  /\ \/ OpenPage \/ LeavePage
     \/ \E w \in Workers : RecordFailover(w) \/ Poll(w)
     \/ \E p \in polls : PollTaken(p) \/ PollFailed(p)

PollsSpec == PollsInit /\ [][PollsNext]_pollVars

-----------------------------------------------------------------------------
(***************************************************************************)
(* Properties.                                                             *)
(***************************************************************************)
PollsTypeOK ==
  /\ failovers \in [Workers -> 0 .. MaxFailovers]
  /\ onPage \in BOOLEAN /\ visit \in 0 .. MaxVisits
  /\ onPage => visit > 0
  /\ polls \subseteq [visit : 1 .. visit, list : Lists]
  /\ prevEvents \in [Visits -> Lists]
  /\ announced \in [Visits -> [Workers -> [Failovers -> 0 .. 2]]]
  /\ jumbled \subseteq Visits

(* A visit that took the answers of one worker, in the order it gave them, *)
(* announces no failover twice, and has announced the newest it knows of,  *)
(* for as long as that worker's list still grows: once it is full, a new   *)
(* failover makes it no longer and is not announced.                       *)
AnnouncedOnce ==
  \A v \in Visits \ jumbled :
    LET prev == prevEvents[v]
    IN /\ \A w \in Workers, f \in Failovers : announced[v][w][f] <= 1
       /\ prev.seen \in 1 .. Kept => announced[v][prev.of][prev.seen] = 1

(* What announcing at most once rests on: a failover not yet seen has not  *)
(* been announced.                                                         *)
NoneAhead ==
  \A v \in Visits \ jumbled : \A w \in Workers, f \in Failovers :
    announced[v][w][f] > 0 => w = prevEvents[v].of /\ f <= prevEvents[v].seen

PollsIInv == PollsTypeOK /\ AnnouncedOnce /\ NoneAhead
=============================================================================
