------------------------------ MODULE GameVotes ------------------------------
(***************************************************************************)
(* Votes on the public list of requested games                             *)
(* (dashboard/frontend/src/pages/GamesDatabase.jsx) and the backend that   *)
(* counts its votes (dashboard/backend/routers/games.py).                  *)
(*                                                                         *)
(* A browser remembers what it voted for, in the page and in its storage;  *)
(* each click works with what the page remembered when it was rendered.    *)
(* The backend reads a row and commits it in two steps.                    *)
(***************************************************************************)
EXTENDS Naturals

CONSTANTS
  Votable,       (* requests that can be voted for                         *)
  MaxVotes,      (* bound of the model: clicks, and openings of the page    *)
  MaxOthers      (* bound of the model: votes of other browsers            *)

ASSUME GameVotesAssumption == MaxVotes \in Nat /\ MaxOthers \in Nat

Clicked == 1 .. MaxVotes
Other == 0
Voters == 0 .. MaxVotes

VARIABLES
  votedIds,     (* what the page knows it has voted for                    *)
  ajVoted,      (* the browser's storage                                   *)
  visitNo,      (* times the page has been opened                          *)
  click,        (* votes clicked so far                                    *)
  vote,         (* by voter: step, request, the page's votedIds, its visit *)
                (* and the count the backend read                          *)
  votes,        (* by request: the count of its row                        *)
  own, others,  (* history: votes committed, of the browser and of others  *)
  hasty,        (* history: the browser had two votes under way            *)
  unsaid,       (* history: requests whose vote was committed and not told *)
  raced         (* history: the backend served two of one request at once  *)

votesVars == <<votedIds, ajVoted, visitNo, click, vote, votes, own, others,
               hasty, unsaid, raced>>

NoVote == [step |-> "none", request |-> "none", known |-> {}, visit |-> 0,
           read |-> 0]

VotesInit ==
  /\ votedIds = {} /\ ajVoted = {} /\ visitNo = 1 /\ click = 0
  /\ vote = [v \in Voters |-> NoVote]
  /\ votes = [g \in Votable |-> 0]
  /\ own = [g \in Votable |-> 0] /\ others = [g \in Votable |-> 0]
  /\ hasty = FALSE /\ unsaid = {} /\ raced = FALSE

OwnUnderWay == {v \in Clicked : vote[v].step # "none"}

-----------------------------------------------------------------------------
(* Votes.                                                                  *)
Send(v, g) ==
  vote' = [vote EXCEPT ![v] = [step |-> "sent", request |-> g,
             known |-> votedIds, visit |-> visitNo, read |-> 0]]

(* Wrong: it is not looked whether the page has voted.                     *)
VoteAnyway(g) ==
  /\ click < MaxVotes
  /\ click' = click + 1
  /\ Send(click + 1, g)
  /\ hasty' = (hasty \/ OwnUnderWay # {})
  /\ UNCHANGED <<votedIds, ajVoted, visitNo, votes, own, others,
                 unsaid, raced>>

(* handleVote; the button of a request is disabled once it is voted for.   *)
Vote(g) ==
  /\ g \notin votedIds /\ click < MaxVotes
  /\ click' = click + 1
  /\ Send(click + 1, g)
  /\ hasty' = (hasty \/ OwnUnderWay # {})
  /\ UNCHANGED <<votedIds, ajVoted, visitNo, votes, own, others,
                 unsaid, raced>>

VoteOfOther(g) ==
  /\ vote[Other].step = "none" /\ others[g] < MaxOthers
  /\ Send(Other, g)
  /\ UNCHANGED <<votedIds, ajVoted, visitNo, click, votes, own, others, hasty,
                 unsaid, raced>>

(* vote_request reads the row ...                                          *)
ReadRow(v) ==
  /\ vote[v].step = "sent"
  /\ vote' = [vote EXCEPT ![v].step = "read",
                          ![v].read = votes[vote[v].request]]
  /\ raced' = (raced \/ \E w \in Voters :
                 vote[w].step = "read" /\ vote[w].request = vote[v].request)
  /\ UNCHANGED <<votedIds, ajVoted, visitNo, click, votes, own, others, hasty,
                 unsaid>>

(* ... and commits it with one vote more.                                  *)
CommitRow(v) ==
  LET g == vote[v].request IN
    /\ vote[v].step = "read"
    /\ votes' = [votes EXCEPT ![g] = vote[v].read + 1]
    /\ IF v = Other
       THEN /\ vote' = [vote EXCEPT ![v] = NoVote]
            /\ others' = [others EXCEPT ![g] = @ + 1]
            /\ UNCHANGED own
       ELSE /\ vote' = [vote EXCEPT ![v].step = "committed"]
            /\ own' = [own EXCEPT ![g] = @ + 1]
            /\ UNCHANGED others
    /\ UNCHANGED <<votedIds, ajVoted, visitNo, click, hasty,
                   unsaid, raced>>

(* The answer, an error like any other: the page of the click remembers,   *)
(* and its storage with it, what the click knew and this request.          *)
VoteTold(v) ==
  LET g == vote[v].request IN
    /\ v # Other /\ vote[v].step \in {"sent", "committed"}
    /\ ajVoted' = vote[v].known \cup {g}
    /\ IF vote[v].visit = visitNo
       THEN votedIds' = vote[v].known \cup {g} ELSE UNCHANGED votedIds
    /\ vote' = [vote EXCEPT ![v] = NoVote]
    /\ UNCHANGED <<visitNo, click, votes, own, others, hasty, unsaid, raced>>

(* The request throws, on its way there or back or as its commit fails:    *)
(* that answer cannot be read.                                             *)
VoteLost(v) ==
  /\ v # Other /\ vote[v].step # "none"
  /\ vote' = [vote EXCEPT ![v] = NoVote]
  /\ unsaid' = IF vote[v].step = "committed"
               THEN unsaid \cup {vote[v].request} ELSE unsaid
  /\ UNCHANGED <<votedIds, ajVoted, visitNo, click, votes, own, others, hasty,
                 raced>>

(* The page is left and opened again: it reads its storage.                *)
(* A vote on its way counts as one made beside those of the new page.      *)
OpenAgain ==
  /\ visitNo < MaxVotes /\ visitNo' = visitNo + 1
  /\ votedIds' = ajVoted
  /\ hasty' = (hasty \/ OwnUnderWay # {})
  /\ UNCHANGED <<ajVoted, click, vote, votes, own, others, unsaid, raced>>

-----------------------------------------------------------------------------
VotesNext ==
  \/ \E g \in Votable : Vote(g) \/ VoteOfOther(g)
  \/ \E v \in Voters : ReadRow(v) \/ CommitRow(v) \/ VoteTold(v) \/ VoteLost(v)
  \/ OpenAgain

VotesSpec == VotesInit /\ [][VotesNext]_votesVars

-----------------------------------------------------------------------------
(***************************************************************************)
(* Properties.                                                             *)
(***************************************************************************)
VotesTypeOK ==
  /\ votedIds \subseteq Votable /\ ajVoted \subseteq Votable
  /\ visitNo \in Nat /\ click \in 0 .. MaxVotes
  /\ vote \in [Voters ->
       {NoVote} \cup [step : {"sent", "read", "committed"}, request : Votable,
                      known : SUBSET Votable, visit : Nat, read : Nat]]
  /\ votes \in [Votable -> Nat]
  /\ own \in [Votable -> Nat] /\ others \in [Votable -> Nat]
  /\ hasty \in BOOLEAN /\ unsaid \subseteq Votable
  /\ raced \in BOOLEAN

(* A browser's vote counts once and is remembered, unless it had two under *)
(* way at once, or the answer of a committed vote did not arrive.          *)
VotedOnce ==
  ~hasty =>
    \A g \in Votable \ unsaid :
      /\ own[g] <= 1
      /\ own[g] = 1 /\ OwnUnderWay = {} => g \in ajVoted

(* Every vote is in the count, unless the backend served two for one       *)
(* request at once.                                                        *)
VotesAddUp == ~raced => \A g \in Votable : votes[g] = own[g] + others[g]

(* What they rest on.  The browser's one vote under way knows all that the *)
(* page and its storage know, and a committed one is known or under way.   *)
VotesKnown ==
  ~hasty =>
    /\ ajVoted = votedIds
    /\ \A v, w \in OwnUnderWay : v = w
    /\ \A v \in OwnUnderWay :
         /\ vote[v].known = votedIds /\ vote[v].request \notin votedIds
         /\ vote[v].visit = visitNo
    /\ \A g \in Votable \ unsaid :
         own[g] > 0 => \/ g \in votedIds
                       \/ \E v \in OwnUnderWay :
                            vote[v].step = "committed" /\ vote[v].request = g

(* What a vote has read is still the count.                                *)
ReadIsCount ==
  ~raced => \A v \in Voters : vote[v].step = "read" =>
    /\ vote[v].read = votes[vote[v].request]
    /\ \A w \in Voters :
         vote[w].step = "read" /\ vote[w].request = vote[v].request => w = v

VotesIInv ==
  VotesTypeOK /\ VotedOnce /\ VotesAddUp /\ VotesKnown /\ ReadIsCount

(* The count only grows, one vote at a time, unless the backend served two *)
(* for one request at once: no commit takes a vote back that it did not    *)
(* see.                                                                    *)
VotesGrow ==
  [][~raced' =>
       \A g \in Votable : votes'[g] = votes[g] \/ votes'[g] = votes[g] + 1]_votesVars

(* What a browser has voted for it does not forget, neither the page nor   *)
(* its storage, unless it had two votes under way at once: an answer       *)
(* stores what the page knew when the vote was clicked.                    *)
VotedStays ==
  [][~hasty' => votedIds \subseteq votedIds' /\ ajVoted \subseteq ajVoted']_votesVars
=============================================================================
