---------------------------- MODULE BondServer ----------------------------
(***************************************************************************)
(* The bonding server (server/main.go): one goroutine per listener takes   *)
(* packets of many clients off the network and writes each new one to      *)
(* WireGuard; one goroutine reads WireGuard's replies and writes each on   *)
(* the paths of the client it is for.  They share the client registry.     *)
(*                                                                         *)
(* What is kept per address (pathIndex, pendingReplyMode) is touched only  *)
(* by the listener the address sends to, one packet at a time, and is      *)
(* accessed in one step with what is shared next to it.                    *)
(*                                                                         *)
(* A clientState is created for a client index and never replaced, so it   *)
(* is named by the session whose WireGuard sender index that is.           *)
(* A session's deduplicator is the set of packets it accepted, which is    *)
(* what Uplink shows of it.  WireGuard itself (the kernel, and the         *)
(* client's) is external: it has a session per handshake, never reuses an  *)
(* index, and ignores an initiation it saw before.                         *)
(***************************************************************************)
EXTENDS Integers

CONSTANTS
  Clients,      (* devices with a WireGuard tunnel                         *)
  Addrs,        (* the remote addresses of their network paths             *)
  Sessions,     (* WireGuard sessions: a client index and a server index   *)
  Listeners,    (* the server's bound sockets                              *)
  Holder,       (* the client an address belongs to                        *)
  Peer,         (* the client a session belongs to                         *)
  Port,         (* the socket an address sends to                          *)
  Asks,         (* the reply modes asked for: pairs of an address and mode *)
  Data,         (* the data packets a client sends in one session          *)
  DefaultMode,  (* --reply-mode                                            *)
  PathTTL,      (* pathTTL, in ticks                                       *)
  Horizon,      (* bound: how far the clock runs                           *)
  MaxRestarts,  (* bound: restarts of the server process                   *)
  MaxArrivals,  (* bound: how many datagrams reach the server              *)
  NoAddr, NoSession, Initiation

Mode == {"primary", "all"}
NoMode == ""
NoTime == -1

ASSUME ServerAssumption ==
  /\ Holder \in [Addrs -> Clients]
  /\ Peer \in [Sessions -> Clients]
  /\ Port \in [Addrs -> Listeners]
  /\ Asks \subseteq Addrs \X Mode
  /\ DefaultMode \in Mode
  /\ PathTTL \in Nat /\ Horizon \in Nat /\ MaxRestarts \in Nat
  /\ MaxArrivals \in Nat
  /\ NoAddr \notin Addrs
  /\ NoSession \notin Sessions
  /\ Initiation \notin Data

(* What the client's WireGuard sends: the handshake initiation of a        *)
(* session, and its data packets.                                          *)
Packet == [session : Sessions, body : Data \cup {Initiation}]

ClientState ==
  [lastSeen : [Addrs -> Int], primary : Addrs \cup {NoAddr},
   replyMode : Mode \cup {NoMode}, accepted : SUBSET Packet]

(* A listener is idle, or has found the state of a packet's client, has    *)
(* registered its path, or knows that the packet is new.                   *)
Handshake == {"none", "initiated", "responded", "established"}
Steps == {"found", "registered", "new"}
Idle == [at |-> "idle"]
Busy == [at : Steps, pkt : Packet, addr : Addrs, cs : Sessions, read : Nat]

VARIABLES
  clientIndex,  (* the client indexes with a clientState                   *)
  serverIndex,  (* the sessions whose server index leads to a clientState  *)
  pathIndex,    (* per address, the clientState last seen there            *)
  pending,      (* pendingReplyMode                                        *)
  state,        (* the clientStates                                        *)
  listener,     (* where each readLoop is                                  *)
  reply,        (* the session whose reply is being sent, or NoSession     *)
  now,
  restarts,
  arrivals,     (* datagrams that reached the server                       *)
  kernel,       (* external: where each session's handshake is             *)
  answered,     (* external: sessions whose client got its response        *)
  written,      (* history: packets this process wrote to WireGuard        *)
  heard,        (* history: when the latest packet written for each        *)
                (* clientState was read                                    *)
  asked         (* history: the mode last asked for from each address      *)

Working(l) == listener[l].at # "idle"

registry == <<clientIndex, serverIndex, pathIndex, pending>>
external == <<kernel, answered>>
history == <<written, heard, asked>>
clock == <<now, restarts>>
vars ==
  <<registry, state, listener, reply, clock, arrivals, external, history>>

NewClientState ==
  [lastSeen |-> [a \in Addrs |-> NoTime], primary |-> NoAddr,
   replyMode |-> NoMode, accepted |-> {}]

(* What main starts with, and starts with again after a restart.           *)
FreshProcess ==
  /\ clientIndex = {}
  /\ serverIndex = {}
  /\ pathIndex = [a \in Addrs |-> NoSession]
  /\ pending = [a \in Addrs |-> NoMode]
  /\ state = [s \in Sessions |-> NewClientState]
  /\ listener = [l \in Listeners |-> Idle]
  /\ reply = NoSession
  /\ written = {}
  /\ heard = [s \in Sessions |-> NoTime]
  /\ asked = [a \in Addrs |-> NoMode]

Init ==
  /\ FreshProcess
  /\ now = 0
  /\ restarts = 0
  /\ arrivals = 0
  /\ kernel = [s \in Sessions |-> "none"]
  /\ answered = {}

-----------------------------------------------------------------------------
(***************************************************************************)
(* The operations of the registry.                                         *)
(***************************************************************************)

(* Wrong: an unknown index is filed under any client of the same socket.   *)
ClientForInboundByPort(pkt, a) ==
  IF pkt.body = Initiation \/ pkt.session \in serverIndex
  THEN pkt.session
  ELSE LET near == {b \in Addrs : Port[b] = Port[a] /\ pathIndex[b] # NoSession}
       IN IF near = {} THEN NoSession
          ELSE pathIndex[CHOOSE b \in near : TRUE]

(* Wrong: the address is asked before the index.                           *)
ClientForInboundByAddr(pkt, a) ==
  IF pkt.body # Initiation /\ pathIndex[a] # NoSession
  THEN pathIndex[a]
  ELSE IF pkt.body = Initiation \/ pkt.session \in serverIndex
  THEN pkt.session
  ELSE NoSession

(* clientForInboundWireGuard: by the index in the packet, and a data       *)
(* packet whose index is unknown by the address it came from.              *)
ClientForInbound(pkt, a) ==
  IF pkt.body = Initiation \/ pkt.session \in serverIndex
  THEN pkt.session
  ELSE pathIndex[a]

Live(c, a, t) == c.lastSeen[a] # NoTime /\ t - c.lastSeen[a] <= PathTTL

(* Wrong: only a client's first path becomes its primary.                  *)
RegisteredKeepsPrimary(c, a, t) ==
  [lastSeen  |-> [b \in Addrs |-> IF b = a THEN t
                                  ELSE IF Live(c, b, t) THEN c.lastSeen[b]
                                  ELSE NoTime],
   primary   |-> IF c.primary = NoAddr THEN a ELSE c.primary,
   replyMode |-> IF pending[a] # NoMode THEN pending[a] ELSE c.replyMode,
   accepted  |-> c.accepted]

(* Wrong: a path the session did not have puts it in the default mode.     *)
RegisteredInDefault(c, a, t) ==
  [lastSeen  |-> [b \in Addrs |-> IF b = a THEN t
                                  ELSE IF Live(c, b, t) THEN c.lastSeen[b]
                                  ELSE NoTime],
   primary   |-> a,
   replyMode |-> IF c.lastSeen[a] = NoTime THEN DefaultMode ELSE c.replyMode,
   accepted  |-> c.accepted]

(* registerPath, under the client's lock: the mode asked for from this     *)
(* address, expired paths dropped, this path the freshest and the primary. *)
Registered(c, a, t) ==
  [lastSeen  |-> [b \in Addrs |-> IF b = a THEN t
                                  ELSE IF Live(c, b, t) THEN c.lastSeen[b]
                                  ELSE NoTime],
   primary   |-> a,
   replyMode |-> IF pending[a] # NoMode THEN pending[a] ELSE c.replyMode,
   accepted  |-> c.accepted]

ReplyTargets(c, t) ==
  LET mode == IF c.replyMode # NoMode THEN c.replyMode ELSE DefaultMode
  IN {a \in Addrs : Live(c, a, t) /\ (mode = "all" \/ a = c.primary)}

-----------------------------------------------------------------------------
(***************************************************************************)
(* readLoop, one action per access to what the goroutines share.  Any copy *)
(* of any packet a client may have sent can arrive at any of its           *)
(* addresses, at any time and again.                                       *)
(***************************************************************************)
Sent(pkt) == pkt.body = Initiation \/ pkt.session \in answered

Receive(l, pkt, a) ==
  LET cs == ClientForInbound(pkt, a)
  IN /\ arrivals < MaxArrivals /\ arrivals' = arrivals + 1
     /\ ~Working(l)
     /\ Port[a] = l /\ Holder[a] = Peer[pkt.session] /\ Sent(pkt)
     /\ cs # NoSession
     /\ listener' = [listener EXCEPT ![l] =
          [at |-> "found", pkt |-> pkt, addr |-> a, cs |-> cs, read |-> now]]
     /\ clientIndex' = clientIndex \cup {cs}
     /\ UNCHANGED <<serverIndex, pathIndex, pending, state, reply, clock,
                    external, history>>

RegisterPath(l) ==
  LET j == listener[l]
  IN /\ j.at = "found"
     /\ state' = [state EXCEPT ![j.cs] = Registered(@, j.addr, now)]
     /\ pathIndex' = [pathIndex EXCEPT ![j.addr] = j.cs]
     /\ listener' = [listener EXCEPT ![l] =
          [at |-> "registered", pkt |-> j.pkt, addr |-> j.addr, cs |-> j.cs,
           read |-> j.read]]
     /\ UNCHANGED <<clientIndex, serverIndex, pending, reply, clock, arrivals,
                    external, history>>

(* dedup.IsNew, under the deduplicator's lock.                             *)
CheckNew(l) ==
  LET j == listener[l]
      c == state[j.cs]
  IN /\ j.at = "registered"
     /\ state' = [state EXCEPT ![j.cs] =
          [lastSeen |-> c.lastSeen, primary |-> c.primary,
           replyMode |-> c.replyMode, accepted |-> c.accepted \cup {j.pkt}]]
     /\ listener' = [listener EXCEPT ![l] =
          IF j.pkt \in c.accepted
          THEN Idle
          ELSE [at |-> "new", pkt |-> j.pkt, addr |-> j.addr, cs |-> j.cs,
                read |-> j.read]]
     /\ UNCHANGED <<registry, reply, clock, arrivals, external, history>>

WriteToWireGuard(l) ==
  LET j == listener[l]
  IN /\ j.at = "new"
     /\ listener' = [listener EXCEPT ![l] = Idle]
     /\ kernel' = [kernel EXCEPT ![j.pkt.session] =
          IF j.pkt.body = Initiation
          THEN IF @ = "none" THEN "initiated" ELSE @
          ELSE IF @ = "responded" THEN "established" ELSE @]
     /\ written' = written \cup {j.pkt}
     /\ heard' = IF j.read > heard[j.cs]
                 THEN [heard EXCEPT ![j.cs] = j.read]
                 ELSE heard
     /\ UNCHANGED <<registry, state, reply, clock, arrivals, answered, asked>>

(* setReplyModeForPath, for a control packet that came in on listener l.   *)
Control(l, a, mode) ==
  /\ arrivals < MaxArrivals /\ arrivals' = arrivals + 1
  /\ ~Working(l)
  /\ Port[a] = l
  /\ pending' = [pending EXCEPT ![a] = mode]
  /\ asked' = [asked EXCEPT ![a] = mode]
  /\ state' = IF pathIndex[a] = NoSession THEN state
              ELSE [state EXCEPT ![pathIndex[a]] =
                [lastSeen |-> @.lastSeen, primary |-> @.primary,
                 replyMode |-> mode, accepted |-> @.accepted]]
  /\ UNCHANGED <<clientIndex, serverIndex, pathIndex, listener, reply, clock,
                 external, written, heard>>

-----------------------------------------------------------------------------
(***************************************************************************)
(* The reply goroutine.  clientForWireGuardReply finds the client by the   *)
(* receiver index; a handshake response also teaches it the server index.  *)
(***************************************************************************)

(* Wrong: the server index is filed before the client is looked up.        *)
ReadResponseFilesFirst(s) ==
  /\ reply = NoSession
  /\ kernel[s] = "initiated"
  /\ kernel' = [kernel EXCEPT ![s] = "responded"]
  /\ reply' = IF s \in clientIndex THEN s ELSE NoSession
  /\ serverIndex' = serverIndex \cup {s}
  /\ UNCHANGED <<clientIndex, pathIndex, pending, state, listener, clock,
                 arrivals, answered, history>>

ReadResponse(s) ==
  /\ reply = NoSession
  /\ kernel[s] = "initiated"
  /\ kernel' = [kernel EXCEPT ![s] = "responded"]
  /\ reply' = IF s \in clientIndex THEN s ELSE NoSession
  /\ serverIndex' = IF s \in clientIndex THEN serverIndex \cup {s}
                    ELSE serverIndex
  /\ UNCHANGED <<clientIndex, pathIndex, pending, state, listener, clock,
                 arrivals, answered, history>>

ReadData(s) ==
  /\ reply = NoSession
  /\ kernel[s] = "established"
  /\ s \in clientIndex
  /\ reply' = s
  /\ UNCHANGED <<registry, state, listener, clock, arrivals, external, history>>

(* replyTargets, and a write on each.  The network may lose every copy.    *)
SendReply(lost) ==
  /\ reply # NoSession
  /\ answered' = IF lost \/ ReplyTargets(state[reply], now) = {}
                 THEN answered
                 ELSE answered \cup {reply}
  /\ reply' = NoSession
  /\ UNCHANGED <<registry, state, listener, clock, arrivals, kernel, history>>

-----------------------------------------------------------------------------
Tick ==
  /\ now < Horizon
  /\ now' = now + 1
  /\ UNCHANGED <<registry, state, listener, reply, restarts, arrivals, external,
                 history>>

(* The process dies and is started again; WireGuard and the clients stay.  *)
Restart ==
  /\ restarts < MaxRestarts
  /\ restarts' = restarts + 1
  /\ clientIndex' = {}
  /\ serverIndex' = {}
  /\ pathIndex' = [a \in Addrs |-> NoSession]
  /\ pending' = [a \in Addrs |-> NoMode]
  /\ state' = [s \in Sessions |-> NewClientState]
  /\ listener' = [l \in Listeners |-> Idle]
  /\ reply' = NoSession
  /\ written' = {}
  /\ heard' = [s \in Sessions |-> NoTime]
  /\ asked' = [a \in Addrs |-> NoMode]
  /\ UNCHANGED <<now, arrivals, external>>

ListenerStep(l) == RegisterPath(l) \/ CheckNew(l) \/ WriteToWireGuard(l)

Next ==
  \/ \E l \in Listeners, pkt \in Packet, a \in Addrs : Receive(l, pkt, a)
  \/ \E l \in Listeners : ListenerStep(l)
  \/ \E l \in Listeners, ask \in Asks : Control(l, ask[1], ask[2])
  \/ \E s \in Sessions : ReadResponse(s) \/ ReadData(s)
  \/ \E lost \in BOOLEAN : SendReply(lost)
  \/ Tick
  \/ Restart

Spec == Init /\ [][Next]_vars

-----------------------------------------------------------------------------
(***************************************************************************)
(* Properties.                                                             *)
(***************************************************************************)
TypeOK ==
  /\ clientIndex \subseteq Sessions
  /\ serverIndex \subseteq Sessions
  /\ pathIndex \in [Addrs -> Sessions \cup {NoSession}]
  /\ pending \in [Addrs -> Mode \cup {NoMode}]
  /\ state \in [Sessions -> ClientState]
  /\ listener \in [Listeners -> Busy \cup {Idle}]
  /\ reply \in Sessions \cup {NoSession}
  /\ now \in Nat /\ restarts \in Nat /\ arrivals \in Nat
  /\ kernel \in [Sessions -> Handshake]
  /\ answered \subseteq Sessions
  /\ written \subseteq Packet
  /\ heard \in [Sessions -> Int]
  /\ asked \in [Addrs -> Mode \cup {NoMode}]

(* No reply of one client's session would ever be written to an address of *)
(* another client: not when listeners interleave, not for a packet filed   *)
(* by its address because its index is unknown, not across a restart.      *)
ReplyReachesOwner ==
  \A s \in Sessions : \A a \in ReplyTargets(state[s], now) : Holder[a] = Peer[s]

(* When WireGuard was given a packet read no longer than pathTTL ago, the  *)
(* answer has somewhere to go: the client is found by its index, and       *)
(* expiry and cleanup leave it a path in either reply mode.                *)
AnswerFindsAWay ==
  \A s \in Sessions :
    heard[s] # NoTime /\ now - heard[s] <= PathTTL =>
      s \in clientIndex /\ ReplyTargets(state[s], now) # {}

(* Copies of one packet race through the listeners, and WireGuard gets one *)
(* of them.  This needs the session's response to have gone through this   *)
(* process: the copies of an older session are filed by address, and may   *)
(* meet different deduplicators.                                           *)
FiledByIndex(pkt) == pkt.body = Initiation \/ pkt.session \in serverIndex

HandedOverOnce ==
  \A l \in Listeners :
    listener[l].at = "new" /\ FiledByIndex(listener[l].pkt) =>
      /\ listener[l].pkt \notin written
      /\ \A k \in Listeners \ {l} :
           listener[k].at = "new" => listener[k].pkt # listener[l].pkt

(* Once a client asked for one mode from each of its addresses, nothing a  *)
(* listener still has in hand turns its sessions back to another.          *)
Agreed(s, mode) ==
  /\ \E a \in Addrs : Holder[a] = Peer[s]
  /\ \A a \in Addrs : Holder[a] = Peer[s] => asked[a] = mode

ModeSticks ==
  [][\A s \in Sessions, mode \in Mode :
       state[s].replyMode = mode /\ Agreed(s, mode) /\ Agreed(s, mode)'
         => state'[s].replyMode = mode]_vars

(* All of it together: the server is a Relay, one that has no sockets, no  *)
(* goroutines and no tables.  A listener's steps before its write, and the *)
(* control packets, are at most a change of the ways a reply may take.     *)
R == INSTANCE Relay WITH
       served <- serverIndex,
       ways   <- [s \in Sessions |-> ReplyTargets(state[s], now)],
       TTL    <- PathTTL

IsRelay == R!Spec

-----------------------------------------------------------------------------
(***************************************************************************)
(* The inductive invariant behind them.                                    *)
(***************************************************************************)

(* An address is only ever filed under sessions of the client it belongs   *)
(* to.                                                                     *)
OwnerInv ==
  /\ \A a \in Addrs :
       pathIndex[a] # NoSession => Holder[a] = Peer[pathIndex[a]]
  /\ \A s \in Sessions, a \in Addrs :
       state[s].lastSeen[a] # NoTime => Holder[a] = Peer[s]
  /\ \A l \in Listeners :
       Working(l) => /\ Holder[listener[l].addr] = Peer[listener[l].cs]
                     /\ Holder[listener[l].addr] = Peer[listener[l].pkt.session]

(* Every clientState that is reachable is in clientIndex.                  *)
KnownInv ==
  /\ serverIndex \subseteq clientIndex
  /\ \A a \in Addrs : pathIndex[a] # NoSession => pathIndex[a] \in clientIndex
  /\ \A l \in Listeners : Working(l) => listener[l].cs \in clientIndex
  /\ reply # NoSession => reply \in clientIndex
  /\ \A s \in Sessions : heard[s] # NoTime => s \in clientIndex

(* The primary is the path heard last, and was heard no earlier than any   *)
(* packet that was registered.                                             *)
Fresh(c, t) == c.primary # NoAddr /\ c.lastSeen[c.primary] >= t

PrimaryInv ==
  /\ \A s \in Sessions, a \in Addrs :
       state[s].lastSeen[a] # NoTime =>
         state[s].lastSeen[a] <= now /\ Fresh(state[s], state[s].lastSeen[a])
  /\ \A s \in Sessions :
       heard[s] # NoTime => heard[s] >= 0 /\ Fresh(state[s], heard[s])
  /\ \A l \in Listeners :
       Working(l) =>
         /\ listener[l].read <= now
         /\ listener[l].at # "found" =>
              Fresh(state[listener[l].cs], listener[l].read)

(* A session's data exists only when its response reached the client, so   *)
(* never before its server index is filed, unless an earlier process       *)
(* answered it.                                                            *)
SessionInv ==
  /\ \A s \in answered : kernel[s] \in {"responded", "established"}
  /\ \A s \in serverIndex : kernel[s] \in {"responded", "established"}
  /\ reply # NoSession => kernel[reply] \in {"responded", "established"}
  /\ \A l \in Listeners : Working(l) => Sent(listener[l].pkt)
  /\ \A pkt \in written : Sent(pkt)

(* A packet filed by its index is in its own session's deduplicator once   *)
(* it passed it, and only one listener holds it.                           *)
PassedInv ==
  /\ \A l \in Listeners :
       Working(l) /\ FiledByIndex(listener[l].pkt) =>
         /\ listener[l].cs = listener[l].pkt.session
         /\ listener[l].at = "new" =>
              listener[l].pkt \in state[listener[l].pkt.session].accepted
  /\ \A pkt \in written :
       FiledByIndex(pkt) => pkt \in state[pkt.session].accepted

AskedInv == pending = asked

IInv ==
  /\ TypeOK
  /\ OwnerInv
  /\ ReplyReachesOwner
  /\ KnownInv
  /\ PrimaryInv
  /\ SessionInv
  /\ PassedInv
  /\ HandedOverOnce
  /\ AskedInv
=============================================================================
