------------------------------ MODULE Delivery ------------------------------
(***************************************************************************)
(* What the bonding link promises the WireGuard endpoint behind it: every  *)
(* packet is handed over at most once, and a copy is turned away only      *)
(* because its packet was handed over already, or because a packet at      *)
(* least a whole window newer was.                                         *)
(***************************************************************************)
EXTENDS Integers

CONSTANTS
  Window,       (* how far behind the newest packet a copy may still count *)
  Packet        (* the sequence numbers of the packets of one session      *)

VARIABLES
  delivered,    (* the packets handed over                                 *)
  verdict       (* what was last decided, and of which packet              *)

NoVerdict == [seq |-> 0, new |-> FALSE]

Init == delivered = {} /\ verdict = NoVerdict

HandOver(p) ==
  /\ p \notin delivered
  /\ delivered' = delivered \cup {p}
  /\ verdict' = [seq |-> p, new |-> TRUE]

TurnAway(p) ==
  /\ p \in delivered \/ \E q \in delivered : q >= p + Window
  /\ verdict' = [seq |-> p, new |-> FALSE]
  /\ UNCHANGED delivered

Next == \E p \in Packet : HandOver(p) \/ TurnAway(p)

Spec == Init /\ [][Next]_<<delivered, verdict>>
=============================================================================
