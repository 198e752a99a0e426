------------------------------- MODULE Uplink -------------------------------
(***************************************************************************)
(* One session's uplink, end to end: the client numbers every WireGuard    *)
(* packet and writes a copy of it on some of its paths; the network        *)
(* delays, reorders, duplicates and loses copies; the server asks the      *)
(* session's Deduplicator about each copy that arrives and hands the new   *)
(* ones to WireGuard.                                                      *)
(***************************************************************************)
EXTENDS Dedup, FiniteSets

CONSTANTS
  Paths,        (* the network paths of the client                         *)
  MaxSeq,       (* bound: packets one session may send                     *)
  MaxFlight,    (* bound: copies in flight after a packet was sent         *)
  MaxDelay,     (* the network delivers a copy within this time or never   *)
  MaxLag,       (* and before the client is more packets ahead than this   *)
  Horizon       (* bound: how far the clock runs                           *)

ASSUME UplinkAssumption ==
  /\ MaxSeq \in Seq32
  /\ MaxFlight \in Nat
  /\ MaxDelay \in Nat
  /\ MaxLag \in Nat
  /\ Horizon \in Nat

VARIABLES
  seq,          (* Sequencer.seq: the last sequence number handed out      *)
  wire,         (* copies in flight                                        *)
  now,          (* the clock                                               *)
  dedup,        (* clientState.dedup                                       *)
  delivered,    (* history: sequence numbers written to WireGuard          *)
  verdict       (* history: the last answer of IsNew                       *)

vars == <<seq, wire, now, dedup, delivered, verdict>>

Packet == 1 .. MaxSeq
Copy == [seq : Packet, path : Paths, sent : Nat]

Init ==
  /\ seq = 0
  /\ wire = {}
  /\ now = 0
  /\ dedup = FreshDedup
  /\ delivered = {}
  /\ verdict = [seq |-> 0, new |-> FALSE]

(***************************************************************************)
(* The client's main loop: the next number, one copy per path it could     *)
(* write to (a write that fails is skipped).  What the client has by then  *)
(* left too far behind is never delivered.                                 *)
(***************************************************************************)
Send(targets) ==
  /\ seq < MaxSeq
  /\ seq' = U32(seq + 1)
  /\ wire' = {c \in wire : seq' - c.seq <= MaxLag}
               \cup {[seq |-> seq', path |-> p, sent |-> now] : p \in targets}
  /\ Cardinality(wire') <= MaxFlight
  /\ UNCHANGED <<now, dedup, delivered, verdict>>

(***************************************************************************)
(* A copy reaches the server.  The network may keep it to deliver again.   *)
(***************************************************************************)
Arrive(c, again) ==
  /\ wire' = IF again THEN wire ELSE wire \ {c}
  /\ dedup' = AfterIsNew(dedup, c.seq, now)
  /\ verdict' = [seq |-> c.seq, new |-> IsNew(dedup, c.seq, now)]
  /\ delivered' = IF verdict'.new THEN delivered \cup {c.seq} ELSE delivered
  /\ UNCHANGED <<seq, now>>

Lose(c) ==
  /\ wire' = wire \ {c}
  /\ UNCHANGED <<seq, now, dedup, delivered, verdict>>

(* Time passes; what is then too old is never delivered.                   *)
Tick ==
  /\ now < Horizon
  /\ now' = now + 1
  /\ wire' = {c \in wire : now' - c.sent <= MaxDelay}
  /\ UNCHANGED <<seq, dedup, delivered, verdict>>

Next ==
  \/ \E targets \in SUBSET Paths : Send(targets)
  \/ \E c \in wire, again \in BOOLEAN : Arrive(c, again)
  \/ \E c \in wire : Lose(c)
  \/ Tick

Spec == Init /\ [][Next]_vars

-----------------------------------------------------------------------------
(***************************************************************************)
(* The premises under which the protocol is sound.                         *)
(***************************************************************************)

(* No copy outlives the silence that the server takes for a restart, none  *)
(* arrives as far behind as the numbers of a client that began anew, and a *)
(* session ends before the threshold added to a number leaves the uint32.  *)
Premise ==
  /\ MaxDelay <= IdleTimeout
  /\ MaxLag <= Threshold
  /\ MaxSeq + Threshold < SeqMod

(***************************************************************************)
(* Properties.                                                             *)
(***************************************************************************)
TypeOK ==
  /\ seq \in 0 .. MaxSeq
  /\ wire \subseteq Copy
  /\ now \in Nat
  /\ dedup \in Deduplicator
  /\ delivered \subseteq Packet
  /\ verdict \in [seq : 0 .. MaxSeq, new : BOOLEAN]

(* IsNew never says "new" of a packet of the session it said "new" of      *)
(* before, whatever the network does to the copies: no copy of a packet    *)
(* WireGuard was given would be taken for a new one (the comment of IsNew, *)
(* protocol.go:78).                                                        *)
AtMostOnce ==
  \A c \in wire : IsNew(dedup, c.seq, now) => c.seq \notin delivered

(* The window forgets in time: a copy that would be turned away is a       *)
(* second copy, or is a whole window behind a packet WireGuard was given.  *)
(* A stale bit left by the slide or by a reset would lose a first copy.    *)
NoFreshLoss ==
  \A c \in wire :
    ~IsNew(dedup, c.seq, now) =>
      c.seq \in delivered \/ \E q \in delivered : q >= c.seq + W

(* The uplink as a whole implements the promise to WireGuard.              *)
Promise == INSTANCE Delivery WITH Window <- W
KeepsPromise == Promise!Spec

-----------------------------------------------------------------------------
(***************************************************************************)
(* The inductive invariant behind the safety properties.                   *)
(***************************************************************************)

(* Copies in flight are of numbers handed out, and not too far behind.     *)
WireInv ==
  \A c \in wire :
    /\ c.seq <= seq /\ seq - c.seq <= MaxLag
    /\ c.sent <= now /\ now - c.sent <= MaxDelay

(* Only numbers handed out were delivered, and no call is in the future.   *)
DeliveredInv ==
  /\ \A s \in delivered : s <= seq
  /\ dedup.maxSeen <= seq
  /\ dedup.lastPkt <= now

(* The window ends at maxSeen, or is still the initial one.                *)
WindowOK(d) ==
  \/ d.minSeq = 0 /\ d.maxSeen < W
  \/ d.minSeq = d.maxSeen - W + 1 /\ d.maxSeen >= W

(* A bit that is set stands for a packet of D in the window, and maxSeen   *)
(* for a packet of D unless nothing was accepted since the last reset.     *)
SeenOK(d, D) ==
  /\ d.maxSeen = 0 \/ d.maxSeen \in D
  /\ \A k \in 0 .. W - 1 :
       d.seen[k] =>
         \E s \in D : s % W = k /\ d.minSeq <= s /\ s <= d.maxSeen

Remembers(d, s) == s <= d.maxSeen /\ (s < d.minSeq \/ d.seen[s % W])

(* A delivered packet of which a copy is still in flight is remembered,    *)
(* and was sent before the last call.                                      *)
RememberedInv ==
  \A c \in wire :
    c.seq \in delivered =>
      /\ dedup.lastPkt # NoTime /\ c.sent <= dedup.lastPkt
      /\ Remembers(dedup, c.seq)

IInv ==
  /\ TypeOK
  /\ WireInv
  /\ DeliveredInv
  /\ WindowOK(dedup)
  /\ SeenOK(dedup, delivered)
  /\ RememberedInv
=============================================================================
