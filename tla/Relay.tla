------------------------------- MODULE Relay -------------------------------
(***************************************************************************)
(* What the bonding server promises the two WireGuard endpoints around it, *)
(* without its sockets, goroutines, deduplicators and path tables: a       *)
(* packet of a session the server answered is handed over once; a reply    *)
(* may go to some addresses of the client it is for, and to one at least   *)
(* while that client is heard; nothing is remembered across a crash.       *)
(***************************************************************************)
EXTENDS Integers

CONSTANTS
  Addrs, Sessions, Packet, Initiation, NoSession, NoTime,
  Holder,       (* the client an address belongs to                        *)
  Peer,         (* the client a session belongs to                         *)
  TTL           (* how long a client counts as heard                       *)

VARIABLES
  kernel,       (* where each session's handshake is                       *)
  answered,     (* the sessions whose client has its response              *)
  written,      (* the packets handed over                                 *)
  served,       (* the sessions whose data is known to be theirs           *)
  heard,        (* when each session was last heard                        *)
  ways,         (* where a reply of each session would go                  *)
  reply,        (* the session whose reply is on its way                   *)
  now

vars == <<kernel, answered, written, served, heard, ways, reply, now>>

Init ==
  /\ kernel = [s \in Sessions |-> "none"]
  /\ answered = {}
  /\ written = {}
  /\ served = {}
  /\ heard = [s \in Sessions |-> NoTime]
  /\ ways = [s \in Sessions |-> {}]
  /\ reply = NoSession
  /\ now = 0

(* Every reply would go to its own client, and somewhere while that client *)
(* is heard.                                                               *)
Routed ==
  \A s \in Sessions :
    /\ \A a \in ways[s] : a \in Addrs /\ Holder[a] = Peer[s]
    /\ heard[s] # NoTime /\ now - heard[s] <= TTL => ways[s] # {}

Known(pkt) == pkt.body = Initiation \/ pkt.session \in served

(* A packet read at time t counts for session s of the client that sent    *)
(* it: its own, unless the server does not know that one.                  *)
HandOver(pkt, s, t) ==
  /\ pkt.body = Initiation \/ pkt.session \in answered
  /\ Peer[s] = Peer[pkt.session]
  /\ Known(pkt) => s = pkt.session /\ pkt \notin written
  /\ written' = written \cup {pkt}
  /\ kernel' = [kernel EXCEPT ![pkt.session] =
       IF pkt.body = Initiation
       THEN IF @ = "none" THEN "initiated" ELSE @
       ELSE IF @ = "responded" THEN "established" ELSE @]
  /\ t \in 0 .. now
  /\ heard' = [heard EXCEPT ![s] = IF t > @ THEN t ELSE @]
  /\ UNCHANGED <<answered, served, ways, reply, now>>

(* WireGuard responds.  A session this process has heard of is served from *)
(* here on; one it has not may stay unknown, and its response unsent.      *)
Respond(s) ==
  /\ reply = NoSession
  /\ kernel[s] = "initiated"
  /\ kernel' = [kernel EXCEPT ![s] = "responded"]
  /\ \/ served' = served \cup {s} /\ reply' = s
     \/ heard[s] = NoTime /\ UNCHANGED <<served, reply>>
  /\ UNCHANGED <<answered, written, heard, ways, now>>

FetchData(s) ==
  /\ reply = NoSession
  /\ kernel[s] = "established"
  /\ reply' = s
  /\ UNCHANGED <<kernel, answered, written, served, heard, ways, now>>

(* The reply reaches the client on one of its ways, or is lost.            *)
Answer ==
  /\ reply # NoSession
  /\ reply' = NoSession
  /\ \/ ways[reply] # {} /\ answered' = answered \cup {reply}
     \/ UNCHANGED answered
  /\ UNCHANGED <<kernel, written, served, heard, ways, now>>

(* The ways change, with time or without.                                  *)
ReRoute ==
  /\ now' \in {now, now + 1}
  /\ UNCHANGED <<kernel, answered, written, served, heard, reply>>

Crash ==
  /\ written' = {}
  /\ served' = {}
  /\ heard' = [s \in Sessions |-> NoTime]
  /\ ways' = [s \in Sessions |-> {}]
  /\ reply' = NoSession
  /\ UNCHANGED <<kernel, answered, now>>

Next ==
  /\ Routed'
  /\ \/ \E pkt \in Packet, s \in Sessions, t \in 0 .. now : HandOver(pkt, s, t)
     \/ \E s \in Sessions : Respond(s) \/ FetchData(s)
     \/ Answer
     \/ ReRoute
     \/ Crash

Spec == Init /\ [][Next]_vars
=============================================================================
