---------------------------- MODULE NormalMode ----------------------------
(***************************************************************************)
(* Which path carries the payload.  The client chooses the targets of an   *)
(* uplink packet by how long its primary path has been silent              *)
(* (client/bonding/client.go: sendTargets, isStalled); the server answers  *)
(* on the path it heard last, or on all (server/main.go: registerPath,     *)
(* replyTargets); each choice is driven by what the other one sends.       *)
(*                                                                         *)
(* Times are kept as ages, which stop growing past the threshold they are  *)
(* compared with.  Copies of different packets on one path are not told    *)
(* apart: a copy in flight is the fact that its path carries one.          *)
(***************************************************************************)
EXTENDS Integers

CONSTANTS
  Paths,        (* the client's paths                                      *)
  Dish,         (* the one that is not metered                             *)
  SendMode,     (* Config.SendMode                                         *)
  ReplyMode,    (* the reply mode the server has for the client            *)
  Stall,        (* normalPrimaryStall, in ticks                            *)
  PathTTL,      (* pathTTL, in ticks                                       *)
  Busy,         (* whether both sides send in every tick                   *)
  MaxChanges,   (* bound: how often paths fail or come back                *)
  NoPath

ASSUME NormalModeAssumption ==
  /\ Dish \in Paths
  /\ SendMode \in {"primary", "all"} /\ ReplyMode \in {"primary", "all"}
  /\ Stall \in Nat /\ PathTTL \in Nat /\ MaxChanges \in Nat
  /\ Busy \in BOOLEAN
  /\ NoPath \notin Paths

Mobile == Paths \ {Dish}

(* An age, and what stands for a time never set.                           *)
Never == -1
Age(limit) == 0 .. limit + 1
Older(age, limit) == IF age = Never \/ age > limit THEN age ELSE age + 1

VARIABLES
  works,        (* external: the paths whose packets arrive                *)
  changes,      (* external: how often that changed                        *)
  uplink,       (* paths with copies of payload on the way to the server   *)
  downlink,     (* paths with replies on the way to the client             *)
  lastSend,     (* age of Path.lastSend of the primary path                *)
  lastRecv,     (* age of Path.lastRecv of the primary path                *)
  primary,      (* clientState.primary                                     *)
  lastSeen,     (* ages of clientPath.lastSeen                             *)
  quiet,        (* the sides yet to send in this tick, when Busy           *)
  stalled       (* history: the primary path has seemed stalled            *)

network == <<works, changes>>
client == <<lastSend, lastRecv>>
server == <<primary, lastSeen>>
vars == <<network, uplink, downlink, client, server, quiet, stalled>>

Sides == IF Busy THEN {"client", "server"} ELSE {}

Init ==
  /\ works \in SUBSET Paths
  /\ changes = 0
  /\ uplink = {}
  /\ downlink = {}
  /\ lastSend = Never
  /\ lastRecv = Never
  /\ primary = NoPath
  /\ lastSeen = [p \in Paths |-> Never]
  /\ quiet = Sides
  /\ stalled = FALSE

-----------------------------------------------------------------------------
(* Wrong: replies are not looked at.                                       *)
IsStalledBySends == lastSend > Stall

(* isStalled: no reply for longer than the threshold; before the first     *)
(* reply, no packet sent for longer than that.                             *)
IsStalled ==
  IF lastRecv # Never THEN lastRecv > Stall ELSE lastSend > Stall

(* Wrong: the first packet opens every path.                               *)
SendTargetsWarm ==
  IF SendMode = "all" \/ IsStalled \/ lastSend = Never THEN Paths ELSE {Dish}

SendTargets ==
  IF SendMode = "all" \/ IsStalled THEN Paths ELSE {Dish}

(* The main loop takes a packet of WireGuard's.  Writes on a path that     *)
(* works succeed; those on one that does not may fail or be lost.          *)
Send(failed) ==
  /\ failed \subseteq SendTargets \ works
  /\ uplink' = uplink \cup (SendTargets \ failed)
  /\ lastSend' = IF Dish \in SendTargets \ failed THEN 0 ELSE lastSend
  /\ stalled' = (stalled \/ IsStalled)
  /\ quiet' = quiet \ {"client"}
  /\ UNCHANGED <<network, downlink, lastRecv, server>>

(* The reader of path p gets a reply.                                      *)
Receive(p) ==
  /\ p \in downlink \cap works
  /\ downlink' = downlink \ {p}
  /\ lastRecv' = IF p = Dish THEN 0 ELSE lastRecv
  /\ UNCHANGED <<network, uplink, lastSend, server, quiet, stalled>>

-----------------------------------------------------------------------------
(* Wrong: the path heard first stays the primary.                          *)
ArriveKeepsPrimary(p) ==
  /\ p \in uplink \cap works
  /\ uplink' = uplink \ {p}
  /\ primary' = IF primary = NoPath THEN p ELSE primary
  /\ lastSeen' = [q \in Paths |-> IF q = p THEN 0
                                  ELSE IF lastSeen[q] > PathTTL THEN Never
                                  ELSE lastSeen[q]]
  /\ UNCHANGED <<network, downlink, client, quiet, stalled>>

(* registerPath, for every copy, whether the deduplicator has seen its     *)
(* packet or not; expired paths are dropped.                               *)
Arrive(p) ==
  /\ p \in uplink \cap works
  /\ uplink' = uplink \ {p}
  /\ primary' = p
  /\ lastSeen' = [q \in Paths |-> IF q = p THEN 0
                                  ELSE IF lastSeen[q] > PathTTL THEN Never
                                  ELSE lastSeen[q]]
  /\ UNCHANGED <<network, downlink, client, quiet, stalled>>

(* replyTargets: the paths heard within pathTTL, or the primary if it was. *)
ReplyTargets ==
  {p \in Paths : /\ lastSeen[p] # Never /\ lastSeen[p] <= PathTTL
                 /\ ReplyMode = "all" \/ p = primary}

(* WireGuard has a packet for the client.                                  *)
Reply ==
  /\ ReplyTargets # {}
  /\ downlink' = downlink \cup ReplyTargets
  /\ quiet' = quiet \ {"server"}
  /\ UNCHANGED <<network, uplink, client, server, stalled>>

-----------------------------------------------------------------------------
(* The network: a path fails or comes back, and loses what it carries      *)
(* while it is down.                                                       *)
Change(p) ==
  /\ changes < MaxChanges
  /\ changes' = changes + 1
  /\ works' = IF p \in works THEN works \ {p} ELSE works \cup {p}
  /\ UNCHANGED <<uplink, downlink, client, server, quiet, stalled>>

Lose(p) ==
  /\ p \notin works
  /\ p \in uplink \cup downlink
  /\ uplink' = uplink \ {p}
  /\ downlink' = downlink \ {p}
  /\ UNCHANGED <<network, client, server, quiet, stalled>>

(* Time passes; a path that works takes less than a tick.                  *)
Tick ==
  /\ (uplink \cup downlink) \cap works = {}
  /\ quiet = {} \/ (quiet = {"server"} /\ ReplyTargets = {})
  /\ quiet' = Sides
  /\ lastSend' = Older(lastSend, Stall)
  /\ lastRecv' = Older(lastRecv, Stall)
  /\ lastSeen' = [p \in Paths |-> Older(lastSeen[p], PathTTL)]
  /\ UNCHANGED <<network, uplink, downlink, primary, stalled>>

Sending == \E failed \in SUBSET Paths : Send(failed)

Next ==
  \/ Sending
  \/ \E p \in Paths : Receive(p) \/ Arrive(p) \/ Change(p) \/ Lose(p)
  \/ Reply
  \/ Tick

(* Both sides always have more to send: the server's, whenever the client  *)
(* is reachable again and again.  What a working path carries arrives.     *)
Fairness ==
  /\ WF_vars(Sending) /\ SF_vars(Reply)
  /\ \A p \in Paths : WF_vars(Receive(p)) /\ WF_vars(Arrive(p)) /\ WF_vars(Lose(p))

Spec == Init /\ [][Next]_vars /\ Fairness

-----------------------------------------------------------------------------
(***************************************************************************)
(* Properties.                                                             *)
(***************************************************************************)
TypeOK ==
  /\ changes \in 0 .. MaxChanges
  /\ works \subseteq Paths /\ uplink \subseteq Paths /\ downlink \subseteq Paths
  /\ lastSend \in Age(Stall) \cup {Never} /\ lastRecv \in Age(Stall) \cup {Never}
  /\ primary \in Paths \cup {NoPath}
  /\ lastSeen \in [Paths -> Age(PathTTL) \cup {Never}]
  /\ quiet \subseteq Sides
  /\ stalled \in BOOLEAN

(* Until the primary path first seems stalled, nothing makes a mobile path *)
(* carry payload, up or down (docs/ui-spec.md:158): keeping it registered  *)
(* would make the server answer there.                                     *)
MobileRestsUntilStall ==
  SendMode = "primary" /\ ~stalled =>
    /\ (uplink \cup downlink) \cap Mobile = {}
    /\ primary \in {Dish, NoPath}

(* The server answers a client it has heard: while any path was heard      *)
(* within the time to live there is one a reply may go on, in either mode, *)
(* for the path heard last is never older than another.                    *)
HeardIsAnswered ==
  (\E p \in Paths : lastSeen[p] # Never /\ lastSeen[p] <= PathTTL)
    => ReplyTargets # {}

(* Once the primary path has answered, losing it is survived: as long as a *)
(* mobile path works, packets keep arriving at the server and replies at   *)
(* the client.                                                             *)
SomeArrive == \E p \in Paths : Arrive(p)
SomeReceive == \E p \in Paths : Receive(p)

MobileWorks == \E p \in Mobile : <>[](p \in works)

TimePasses == []<><<Tick>>_vars

FailoverWorks ==
  TimePasses /\ <>(lastRecv # Never) /\ MobileWorks
    => []<><<SomeArrive>>_vars /\ []<><<SomeReceive>>_vars

(* What docs/ui-spec.md:160 says of Normal: "only send real mobile payload *)
(* when the primary path appears stalled", and :241 that the traffic is    *)
(* that of real stalls: a primary path that works from some time on        *)
(* carries the payload alone in the end.                                   *)
ReturnsToPrimary ==
  TimePasses /\ <>[](Dish \in works) => <>[](uplink \cap Mobile = {})

-----------------------------------------------------------------------------
(***************************************************************************)
(* The inductive invariant behind MobileRestsUntilStall: the server has    *)
(* not even heard a mobile path.                                           *)
(***************************************************************************)
UnheardInv ==
  SendMode = "primary" /\ ~stalled => \A p \in Mobile : lastSeen[p] = Never

IInv == TypeOK /\ MobileRestsUntilStall /\ UnheardInv

(* The path heard last is never older than another: what HeardIsAnswered   *)
(* rests on when replies go on the primary path only.                      *)
PrimaryFreshest ==
  \A p \in Paths : lastSeen[p] # Never =>
    /\ primary # NoPath /\ lastSeen[primary] # Never
    /\ lastSeen[primary] <= lastSeen[p]
=============================================================================
