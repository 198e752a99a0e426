------------------------- MODULE BondServerProofs -------------------------
(***************************************************************************)
(* The bonding server keeps its clients apart, whatever their number, the  *)
(* number of their addresses and sessions, and the number of listeners.    *)
(***************************************************************************)
EXTENDS BondServer, TLAPS

(* What a client index is first given is a clientState.                    *)
LEMMA FreshState == NewClientState \in ClientState
  BY DEF NewClientState, ClientState, NoTime, NoMode

(* main starts in the invariant.                                           *)
LEMMA InitInv == Init => IInv
  <1> SUFFICES ASSUME Init PROVE IInv
    OBVIOUS
  <1> USE DEF Init, FreshProcess
  <1>1. TypeOK
    <2>1. state \in [Sessions -> ClientState]
      BY FreshState
    <2>2. listener \in [Listeners -> Busy \cup {Idle}]
      OBVIOUS
    <2>3. pathIndex \in [Addrs -> Sessions \cup {NoSession}]
      OBVIOUS
    <2>5. pending \in [Addrs -> Mode \cup {NoMode}] /\ asked = pending
      OBVIOUS
    <2>6. heard \in [Sessions -> Int]
      BY DEF NoTime
    <2>4. kernel \in [Sessions -> Handshake]
      BY DEF Handshake
    <2> QED BY <2>1, <2>2, <2>3, <2>4, <2>5, <2>6 DEF TypeOK
  <1>2. OwnerInv /\ KnownInv /\ PrimaryInv
    BY DEF OwnerInv, KnownInv, PrimaryInv, NewClientState, Working, Idle, NoTime
  <1>3. ReplyReachesOwner
    BY DEF ReplyReachesOwner, ReplyTargets, Live, NewClientState, NoTime
  <1>4. SessionInv /\ PassedInv /\ HandedOverOnce /\ AskedInv
    BY DEF SessionInv, PassedInv, HandedOverOnce, AskedInv, Working, Idle
  <1> QED BY <1>1, <1>2, <1>3, <1>4 DEF IInv

(* A packet that arrives is filed under a session of the client it is of.  *)
LEMMA ReceiveInv ==
  ASSUME IInv, NEW l \in Listeners, NEW pkt \in Packet, NEW a \in Addrs,
         Receive(l, pkt, a)
  PROVE  IInv'
  <1>1. TypeOK'
    BY ServerAssumption
    DEF IInv, TypeOK, Receive, ClientForInbound, Busy, Steps, Packet, external, history, clock
  <1>a. ClientForInbound(pkt, a) \in Sessions
    BY DEF Receive, ClientForInbound, IInv, TypeOK, Packet
  <1>b. Holder[a] = Peer[ClientForInbound(pkt, a)]
    BY DEF Receive, ClientForInbound, IInv, OwnerInv
  <1>2. OwnerInv'
    BY <1>b DEF IInv, TypeOK, OwnerInv, Receive, Working
  <1>3. ReplyReachesOwner'
    BY DEF IInv, ReplyReachesOwner, ReplyTargets, Live, Receive, clock
  <1>4. KnownInv'
    BY DEF IInv, TypeOK, KnownInv, Receive, Working, history
  <1>5. PrimaryInv'
    BY DEF IInv, TypeOK, PrimaryInv, Fresh, Receive, Working, history, clock
  <1>6. SessionInv'
    BY DEF IInv, TypeOK, SessionInv, Sent, Receive, Working, history, external
  <1>7. PassedInv'
    BY DEF IInv, TypeOK, PassedInv, FiledByIndex, Receive, ClientForInbound, Working, history
  <1>8. HandedOverOnce'
    BY DEF IInv, TypeOK, HandedOverOnce, FiledByIndex, Receive, Working, history
  <1>9. AskedInv'
    BY DEF IInv, AskedInv, Receive, history
  <1> QED BY <1>1, <1>2, <1>3, <1>4, <1>5, <1>6, <1>7, <1>8, <1>9 DEF IInv

(* What registerPath leaves is a clientState of the same addresses, and    *)
(* the path it registered is the one heard last.                           *)
LEMMA RegisteredLemma ==
  ASSUME IInv, NEW s \in Sessions, NEW a \in Addrs
  PROVE  LET r == Registered(state[s], a, now)
         IN /\ r \in ClientState
            /\ r.primary = a /\ r.lastSeen[a] = now
            /\ r.accepted = state[s].accepted
            /\ \A b \in Addrs :
                 b # a => r.lastSeen[b] \in {state[s].lastSeen[b], NoTime}
  <1> DEFINE r == Registered(state[s], a, now)
  <1>1. state[s] \in ClientState /\ now \in Int /\ pending[a] \in Mode \cup {NoMode}
    BY DEF IInv, TypeOK
  <1>2. r.lastSeen \in [Addrs -> Int]
    BY <1>1 DEF Registered, ClientState, NoTime
  <1> QED
    BY <1>1, <1>2 DEF Registered, ClientState, NoTime

(* registerPath keeps every session with its own client.                   *)
LEMMA RegisterPathInv ==
  ASSUME IInv, NEW l \in Listeners, RegisterPath(l)
  PROVE  IInv'
  <1> DEFINE j == listener[l]
             r == Registered(state[j.cs], j.addr, now)
  <1>0. /\ j.at = "found" /\ j \in Busy /\ j.cs \in Sessions /\ j.addr \in Addrs
        /\ Working(l) /\ j.read <= now /\ Holder[j.addr] = Peer[j.cs]
        /\ now \in Nat
    BY DEF IInv, TypeOK, RegisterPath, Busy, Idle, Working, PrimaryInv, OwnerInv
  <1>r. /\ r \in ClientState
        /\ r.primary = j.addr /\ r.lastSeen[j.addr] = now
        /\ r.accepted = state[j.cs].accepted
        /\ \A b \in Addrs :
             b # j.addr => r.lastSeen[b] \in {state[j.cs].lastSeen[b], NoTime}
    BY <1>0, RegisteredLemma
  <1>s. state' = [state EXCEPT ![j.cs] = r]
    BY DEF RegisterPath
  <1> HIDE DEF r
  <1>1. TypeOK'
    BY <1>0, <1>r, <1>s
    DEF IInv, TypeOK, RegisterPath, Busy, Steps, external, history, clock
  <1>2. OwnerInv'
    BY <1>0, <1>r, <1>s DEF IInv, TypeOK, OwnerInv, RegisterPath, Working
  <1>3. ReplyReachesOwner'
    BY <1>2, <1>1 DEF OwnerInv, ReplyReachesOwner, ReplyTargets, Live
  <1>4. KnownInv'
    BY <1>0 DEF IInv, TypeOK, KnownInv, RegisterPath, Working, history
  <1>5. PrimaryInv'
    <2>1. \A s \in Sessions, t \in Int :
            t <= now /\ (Fresh(state[s], t) \/ s = j.cs) => Fresh(state'[s], t)
      BY <1>0, <1>r, <1>s, ServerAssumption DEF IInv, TypeOK, Fresh
    <2>2. ASSUME NEW s \in Sessions, NEW a \in Addrs,
                 state'[s].lastSeen[a] # NoTime
          PROVE  /\ state'[s].lastSeen[a] <= now'
                 /\ Fresh(state'[s], state'[s].lastSeen[a])
      BY <1>0, <1>r, <1>s, <2>1, <2>2
      DEF IInv, TypeOK, PrimaryInv, RegisterPath, clock, ClientState
    <2>3. ASSUME NEW s \in Sessions, heard'[s] # NoTime
          PROVE  heard'[s] >= 0 /\ Fresh(state'[s], heard'[s])
      <3>1. heard[s] # NoTime /\ heard' = heard
        BY <2>3 DEF RegisterPath, history
      <3>2. heard[s] >= 0 /\ Fresh(state[s], heard[s])
        BY <3>1 DEF IInv, PrimaryInv
      <3>3. heard[s] \in Int /\ heard[s] <= now
        <4>1. state[s] \in ClientState /\ heard[s] \in Int
          BY DEF IInv, TypeOK
        <4>2. state[s].primary \in Addrs
          BY <3>2, <4>1 DEF Fresh, ClientState
        <4>3. state[s].lastSeen[state[s].primary] # NoTime
          BY <3>2, <4>1, <4>2 DEF Fresh, ClientState, NoTime
        <4>4. state[s].lastSeen[state[s].primary] <= now
          BY <4>2, <4>3 DEF IInv, PrimaryInv
        <4> QED BY <1>0, <3>2, <4>1, <4>2, <4>4 DEF Fresh, ClientState
      <3> QED BY <2>1, <3>1, <3>2, <3>3
    <2>4. ASSUME NEW k \in Listeners, Working(k)'
          PROVE  /\ listener'[k].read <= now'
                 /\ listener'[k].at # "found" =>
                      Fresh(state'[listener'[k].cs], listener'[k].read)
      BY <1>0, <1>r, <1>s, <2>1, <2>4
      DEF IInv, TypeOK, PrimaryInv, RegisterPath, Working, Busy, Idle, clock
    <2> QED BY <2>2, <2>3, <2>4 DEF PrimaryInv
  <1>6. SessionInv'
    BY <1>0 DEF IInv, TypeOK, SessionInv, Sent, RegisterPath, Working, history, external
  <1>7. PassedInv'
    BY <1>0, <1>r, <1>s
    DEF IInv, TypeOK, PassedInv, FiledByIndex, RegisterPath, Working, history
  <1>8. HandedOverOnce'
    BY <1>0
    DEF IInv, TypeOK, HandedOverOnce, FiledByIndex, RegisterPath, history
  <1>9. AskedInv'
    BY DEF IInv, AskedInv, RegisterPath, history
  <1> QED BY <1>1, <1>2, <1>3, <1>4, <1>5, <1>6, <1>7, <1>8, <1>9 DEF IInv

(* IsNew lets one listener at most hold a packet on its way to WireGuard.  *)
LEMMA CheckNewInv ==
  ASSUME IInv, NEW l \in Listeners, CheckNew(l)
  PROVE  IInv'
  <1> DEFINE j == listener[l]
             c == state[j.cs]
             r == [lastSeen |-> c.lastSeen, primary |-> c.primary,
                   replyMode |-> c.replyMode, accepted |-> c.accepted \cup {j.pkt}]
  <1>0. /\ j.at = "registered" /\ j \in Busy /\ j.cs \in Sessions
        /\ j.addr \in Addrs /\ j.pkt \in Packet /\ Working(l)
        /\ c \in ClientState
    BY DEF IInv, TypeOK, CheckNew, Busy, Idle, Working
  <1>r. /\ r \in ClientState /\ r.primary = c.primary
        /\ r.lastSeen = c.lastSeen /\ r.replyMode = c.replyMode
        /\ r.accepted = c.accepted \cup {j.pkt}
    BY <1>0 DEF ClientState
  <1>s. state' = [state EXCEPT ![j.cs] = r]
    BY DEF CheckNew
  <1>l. /\ \A k \in Listeners \ {l} : listener'[k] = listener[k]
        /\ j.pkt \in c.accepted => listener'[l] = Idle
        /\ j.pkt \notin c.accepted =>
             listener'[l] = [at |-> "new", pkt |-> j.pkt, addr |-> j.addr,
                             cs |-> j.cs, read |-> j.read]
    BY DEF IInv, TypeOK, CheckNew
  <1> HIDE DEF r
  <1>1. TypeOK'
    BY <1>0, <1>r, <1>s
    DEF IInv, TypeOK, CheckNew, Busy, Steps, registry, external, history, clock
  <1>2. OwnerInv'
    BY <1>0, <1>r, <1>s, <1>l
    DEF IInv, TypeOK, OwnerInv, CheckNew, Working, Idle, registry
  <1>3. ReplyReachesOwner'
    BY <1>2, <1>1 DEF OwnerInv, ReplyReachesOwner, ReplyTargets, Live
  <1>4. KnownInv'
    BY <1>0, <1>l
    DEF IInv, TypeOK, KnownInv, CheckNew, Working, Idle, registry, history
  <1>5. PrimaryInv'
    <2>1. \A s \in Sessions :
            state'[s].lastSeen = state[s].lastSeen /\ state'[s].primary = state[s].primary
      BY <1>0, <1>r, <1>s DEF IInv, TypeOK
    <2>2. now' = now /\ heard' = heard
      BY DEF CheckNew, clock, history
    <2>3. ASSUME NEW k \in Listeners, Working(k)'
          PROVE  /\ listener'[k].read <= now'
                 /\ listener'[k].at # "found" =>
                      Fresh(state'[listener'[k].cs], listener'[k].read)
      <3>1. /\ Working(k) /\ listener'[k].cs = listener[k].cs
            /\ listener'[k].read = listener[k].read
            /\ listener'[k].at # "found" => listener[k].at # "found"
            /\ listener[k].cs \in Sessions
        BY <1>0, <1>l, <2>3 DEF Working, Idle, IInv, TypeOK, Busy
      <3> QED BY <2>1, <2>2, <3>1 DEF IInv, PrimaryInv, Fresh
    <2> QED BY <2>1, <2>2, <2>3 DEF IInv, PrimaryInv, Fresh
  <1>6. SessionInv'
    BY <1>0, <1>l
    DEF IInv, TypeOK, SessionInv, Sent, CheckNew, Working, Idle, registry,
        history, external
  <1>7. PassedInv'
    BY <1>0, <1>r, <1>s, <1>l
    DEF IInv, TypeOK, PassedInv, FiledByIndex, CheckNew, Working, Idle, registry,
        history
  <1>8. HandedOverOnce'
    BY <1>0, <1>l
    DEF IInv, TypeOK, HandedOverOnce, PassedInv, FiledByIndex, CheckNew, Working,
        Idle, registry, history
  <1>9. AskedInv'
    BY DEF IInv, AskedInv, CheckNew, history, registry
  <1> QED BY <1>1, <1>2, <1>3, <1>4, <1>5, <1>6, <1>7, <1>8, <1>9 DEF IInv

(* The write spends what CheckNew granted, and nothing else.               *)
LEMMA WriteToWireGuardInv ==
  ASSUME IInv, NEW l \in Listeners, WriteToWireGuard(l)
  PROVE  IInv'
  <1> DEFINE j == listener[l]
  <1>0. /\ j.at = "new" /\ j \in Busy /\ j.cs \in Sessions
        /\ j.pkt \in Packet /\ Working(l) /\ j.read \in Nat
        /\ j.pkt.session \in Sessions
    BY DEF IInv, TypeOK, WriteToWireGuard, Busy, Idle, Working, Packet
  <1>l. /\ \A k \in Listeners \ {l} : listener'[k] = listener[k]
        /\ listener'[l] = Idle
    BY DEF IInv, TypeOK, WriteToWireGuard
  <1>1. TypeOK'
    BY <1>0
    DEF IInv, TypeOK, WriteToWireGuard, Handshake, registry, clock
  <1>2. OwnerInv'
    BY <1>l DEF IInv, TypeOK, OwnerInv, WriteToWireGuard, Working, Idle, registry
  <1>3. ReplyReachesOwner'
    BY DEF IInv, ReplyReachesOwner, ReplyTargets, Live, WriteToWireGuard, clock
  <1>4. KnownInv'
    BY <1>0, <1>l
    DEF IInv, TypeOK, KnownInv, WriteToWireGuard, Working, Idle, registry
  <1>5. PrimaryInv'
    BY <1>0, <1>l
    DEF IInv, TypeOK, PrimaryInv, Fresh, WriteToWireGuard, Working, Idle, clock, NoTime
  <1>6. SessionInv'
    BY <1>0, <1>l
    DEF IInv, TypeOK, SessionInv, Sent, WriteToWireGuard, Working, Idle, registry
  <1>7. PassedInv'
    BY <1>0, <1>l
    DEF IInv, TypeOK, PassedInv, FiledByIndex, WriteToWireGuard, Working, Idle,
        registry
  <1>8. HandedOverOnce'
    BY <1>0, <1>l
    DEF IInv, TypeOK, HandedOverOnce, FiledByIndex, WriteToWireGuard, Idle, registry
  <1>9. AskedInv'
    BY DEF IInv, AskedInv, WriteToWireGuard, registry
  <1> QED BY <1>1, <1>2, <1>3, <1>4, <1>5, <1>6, <1>7, <1>8, <1>9 DEF IInv

(* A control packet changes modes only.                                    *)
LEMMA ControlInv ==
  ASSUME IInv, NEW l \in Listeners, NEW a \in Addrs, NEW mode \in Mode,
         Control(l, a, mode)
  PROVE  IInv'
  <1>1. TypeOK'
    BY DEF IInv, TypeOK, Control, ClientState, external, clock
  <1>s. \A s \in Sessions :
          /\ state'[s].lastSeen = state[s].lastSeen
          /\ state'[s].primary = state[s].primary
          /\ state'[s].accepted = state[s].accepted
    BY DEF IInv, TypeOK, Control
  <1>2. OwnerInv'
    BY <1>s DEF IInv, OwnerInv, Control, Working
  <1>3. ReplyReachesOwner'
    BY <1>2, <1>1 DEF OwnerInv, ReplyReachesOwner, ReplyTargets, Live
  <1>4. KnownInv'
    BY DEF IInv, KnownInv, Control, Working
  <1>5. PrimaryInv'
    BY <1>s DEF IInv, TypeOK, PrimaryInv, Fresh, Control, Working, clock, Busy, Idle
  <1>6. SessionInv'
    BY DEF IInv, SessionInv, Sent, Control, Working, external
  <1>7. PassedInv'
    BY <1>s
    DEF IInv, TypeOK, PassedInv, FiledByIndex, Control, Working, Busy, Idle, Packet
  <1>8. HandedOverOnce'
    BY DEF IInv, HandedOverOnce, FiledByIndex, Control
  <1>9. AskedInv'
    BY DEF IInv, AskedInv, Control
  <1> QED BY <1>1, <1>2, <1>3, <1>4, <1>5, <1>6, <1>7, <1>8, <1>9 DEF IInv

(* A server index is learnt only of a client whose index is known.         *)
LEMMA ReadResponseInv ==
  ASSUME IInv, NEW s \in Sessions, ReadResponse(s)
  PROVE  IInv'
  <1>1. TypeOK'
    BY DEF IInv, TypeOK, ReadResponse, Handshake, history, clock
  <1>2. OwnerInv' /\ ReplyReachesOwner' /\ KnownInv' /\ PrimaryInv' /\ AskedInv'
    BY DEF IInv, OwnerInv, ReplyReachesOwner, KnownInv, PrimaryInv, AskedInv,
           ReadResponse, ReplyTargets, Live, Fresh, Working, history, clock
  <1>3. SessionInv'
    BY DEF IInv, TypeOK, SessionInv, Sent, ReadResponse, Working, history
  (* None of the session's data exists yet. *)
  <1>4. s \notin answered
    BY DEF IInv, SessionInv, ReadResponse
  <1>5. PassedInv' /\ HandedOverOnce'
    BY <1>4
    DEF IInv, PassedInv, HandedOverOnce, FiledByIndex, SessionInv, Sent,
        ReadResponse, Working, history
  <1> QED BY <1>1, <1>2, <1>3, <1>5 DEF IInv

(* The steps that touch neither the registry nor a clientState.            *)
LEMMA OtherInv ==
  ASSUME IInv,
         \/ \E s \in Sessions : ReadData(s)
         \/ \E lost \in BOOLEAN : SendReply(lost)
         \/ Tick
         \/ UNCHANGED vars
  PROVE  IInv'
  <1>1. CASE \E s \in Sessions : ReadData(s)
    <2> PICK s \in Sessions : ReadData(s)
      BY <1>1
    <2>1. TypeOK' /\ SessionInv'
      BY DEF IInv, TypeOK, SessionInv, Sent, ReadData, Working, registry,
             external, history, clock
    <2>2. /\ OwnerInv' /\ ReplyReachesOwner' /\ KnownInv' /\ PrimaryInv'
          /\ AskedInv' /\ PassedInv' /\ HandedOverOnce'
      BY DEF IInv, OwnerInv, ReplyReachesOwner, KnownInv, PrimaryInv, AskedInv,
             PassedInv, HandedOverOnce, FiledByIndex, ReadData, ReplyTargets,
             Live, Fresh, Working, registry, history, clock
    <2> QED BY <2>1, <2>2 DEF IInv
  <1>2. CASE \E lost \in BOOLEAN : SendReply(lost)
    <2> PICK lost \in BOOLEAN : SendReply(lost)
      BY <1>2
    <2>1. TypeOK' /\ SessionInv'
      BY DEF IInv, TypeOK, SessionInv, Sent, SendReply, Working, registry,
             history, clock
    <2>2. /\ OwnerInv' /\ ReplyReachesOwner' /\ KnownInv' /\ PrimaryInv'
          /\ AskedInv' /\ PassedInv' /\ HandedOverOnce'
      BY DEF IInv, OwnerInv, ReplyReachesOwner, KnownInv, PrimaryInv, AskedInv,
             PassedInv, HandedOverOnce, FiledByIndex, SendReply, ReplyTargets,
             Live, Fresh, Working, registry, history, clock
    <2> QED BY <2>1, <2>2 DEF IInv
  <1>3. CASE Tick
    <2>1. TypeOK' /\ SessionInv'
      BY <1>3 DEF IInv, TypeOK, SessionInv, Sent, Tick, Working, registry,
             external, history
    <2>2. OwnerInv' /\ KnownInv' /\ AskedInv' /\ PassedInv' /\ HandedOverOnce'
      BY <1>3
      DEF IInv, OwnerInv, KnownInv, AskedInv, PassedInv, HandedOverOnce,
          FiledByIndex, Tick, Working, registry, history
    <2>3. ReplyReachesOwner'
      BY <2>2, <2>1 DEF OwnerInv, ReplyReachesOwner, ReplyTargets, Live
    <2>4. PrimaryInv'
      BY <1>3 DEF IInv, TypeOK, PrimaryInv, Tick, Fresh, Working, history,
                  ClientState, Busy, Idle
    <2> QED BY <2>1, <2>2, <2>3, <2>4 DEF IInv
  <1>4. CASE UNCHANGED vars
    BY <1>4
    DEF IInv, TypeOK, OwnerInv, ReplyReachesOwner, KnownInv, PrimaryInv,
        SessionInv, AskedInv, PassedInv, HandedOverOnce, FiledByIndex,
        ReplyTargets, Live, Fresh, Sent, Working, vars, registry, external,
        history, clock
  <1> QED BY <1>1, <1>2, <1>3, <1>4

(* A new process starts in the invariant, whatever the clients hold.       *)
LEMMA RestartInv ==
  ASSUME IInv, Restart
  PROVE  IInv'
  <1>1. TypeOK'
    <2>1. state' \in [Sessions -> ClientState]
      BY FreshState DEF Restart
    <2>2. heard' \in [Sessions -> Int]
      BY DEF Restart, NoTime
    <2>3. pending' \in [Addrs -> Mode \cup {NoMode}] /\ asked' = pending'
      BY DEF Restart
    <2>4. listener' \in [Listeners -> Busy \cup {Idle}]
      BY DEF Restart
    <2> QED
      BY <2>1, <2>2, <2>3, <2>4 DEF IInv, TypeOK, Restart, external
  <1>2. OwnerInv' /\ KnownInv' /\ PrimaryInv'
    BY DEF OwnerInv, KnownInv, PrimaryInv, NewClientState, Working, Idle,
           NoTime, Restart
  <1>3. ReplyReachesOwner'
    BY DEF ReplyReachesOwner, ReplyTargets, Live, NewClientState, NoTime, Restart
  <1>4. SessionInv'
    BY DEF IInv, SessionInv, Sent, Working, Idle, Restart, external
  <1>5. PassedInv' /\ HandedOverOnce' /\ AskedInv'
    BY DEF PassedInv, HandedOverOnce, AskedInv, Working, Idle, Restart
  <1> QED BY <1>1, <1>2, <1>3, <1>4, <1>5 DEF IInv

(* Every step of the server, of WireGuard and of the network keeps it.     *)
LEMMA NextInv == IInv /\ [Next]_vars => IInv'
  <1> SUFFICES ASSUME IInv, [Next]_vars PROVE IInv'
    OBVIOUS
  <1>1. CASE \E l \in Listeners, pkt \in Packet, a \in Addrs : Receive(l, pkt, a)
    BY <1>1, ReceiveInv
  <1>2. CASE \E l \in Listeners : ListenerStep(l)
    BY <1>2, RegisterPathInv, CheckNewInv, WriteToWireGuardInv DEF ListenerStep
  <1>3. CASE \E l \in Listeners, ask \in Asks : Control(l, ask[1], ask[2])
    BY <1>3, ControlInv, ServerAssumption
  <1>4. CASE \E s \in Sessions : ReadResponse(s)
    BY <1>4, ReadResponseInv
  <1>5. CASE Restart
    BY <1>5, RestartInv
  <1> QED BY <1>1, <1>2, <1>3, <1>4, <1>5, OtherInv DEF Next

(* Clients, paths and sessions stay matched in every reachable state of    *)
(* the server: the invariant the next results are read off.                *)
THEOREM InductiveInvariant == Spec => []IInv
  BY InitInv, NextInv, PTL DEF Spec

(* No reply ever goes to another client's address, for any number of       *)
(* clients, addresses, sessions, listeners and restarts.                   *)
THEOREM ReplyReachesOwnerHolds == Spec => []ReplyReachesOwner
  <1>1. IInv => ReplyReachesOwner
    BY DEF IInv
  <1> QED BY <1>1, InductiveInvariant, PTL

(* WireGuard is given one copy of a packet filed by its index, however     *)
(* many listeners the copies race through.                                 *)
THEOREM HandedOverOnceHolds == Spec => []HandedOverOnce
  <1>1. IInv => HandedOverOnce
    BY DEF IInv
  <1> QED BY <1>1, InductiveInvariant, PTL

(* Within pathTTL of a packet WireGuard was given, its answer has a known  *)
(* client and at least one path, in either reply mode.                     *)
LEMMA HeardHasAWay == IInv => AnswerFindsAWay
  <1> SUFFICES ASSUME IInv, NEW s \in Sessions,
                      heard[s] # NoTime, now - heard[s] <= PathTTL
               PROVE  s \in clientIndex /\ ReplyTargets(state[s], now) # {}
    BY DEF AnswerFindsAWay
  <1> DEFINE p == state[s].primary
  <1>1. state[s] \in ClientState /\ heard[s] \in Int /\ now \in Int
    BY DEF IInv, TypeOK
  <1>2. s \in clientIndex /\ heard[s] >= 0 /\ Fresh(state[s], heard[s])
    BY DEF IInv, KnownInv, PrimaryInv
  <1>3. p \in Addrs /\ state[s].lastSeen[p] \in Int
    BY <1>1, <1>2 DEF Fresh, ClientState
  <1>4. Live(state[s], p, now)
    BY <1>1, <1>2, <1>3, ServerAssumption DEF Live, Fresh, NoTime
  <1>5. p \in ReplyTargets(state[s], now)
    BY <1>3, <1>4 DEF ReplyTargets
  <1> QED BY <1>2, <1>5

(* The same in every reachable state.                                      *)
THEOREM AnswerFindsAWayHolds == Spec => []AnswerFindsAWay
  BY HeardHasAWay, InductiveInvariant, PTL

(* A mode a client asked for on all its addresses is not turned back by    *)
(* any step of a listener, whatever it read before.                        *)
THEOREM ModeSticksHolds == Spec => ModeSticks
  <1> DEFINE Sticks ==
        \A s \in Sessions, mode \in Mode :
          state[s].replyMode = mode /\ Agreed(s, mode) /\ Agreed(s, mode)'
            => state'[s].replyMode = mode
  <1>1. IInv /\ [Next]_vars => Sticks
    <2> SUFFICES ASSUME IInv, [Next]_vars, NEW s \in Sessions, NEW mode \in Mode,
                        Agreed(s, mode), Agreed(s, mode)',
                        state[s].replyMode = mode
                 PROVE  state'[s].replyMode = mode
      OBVIOUS
    <2>1. CASE \E l \in Listeners : RegisterPath(l)
      <3> PICK l \in Listeners : RegisterPath(l)
        BY <2>1
      <3> DEFINE j == listener[l]
      <3>1. /\ j \in Busy /\ j.cs \in Sessions /\ j.addr \in Addrs
            /\ Holder[j.addr] = Peer[j.cs]
        BY DEF IInv, TypeOK, RegisterPath, Busy, Idle, Working, OwnerInv
      <3>2. j.cs = s => pending[j.addr] = mode
        BY <3>1 DEF Agreed, IInv, AskedInv
      <3>3. state' = [state EXCEPT ![j.cs] = Registered(state[j.cs], j.addr, now)]
        BY DEF RegisterPath
      <3> QED BY <3>1, <3>2, <3>3 DEF Registered, IInv, TypeOK
    <2>2. CASE \E l \in Listeners : CheckNew(l)
      BY <2>2 DEF CheckNew, IInv, TypeOK
    <2>3. CASE \E l \in Listeners, ask \in Asks : Control(l, ask[1], ask[2])
      <3> PICK l \in Listeners, ask \in Asks : Control(l, ask[1], ask[2])
        BY <2>3
      <3>1. ask[1] \in Addrs /\ ask[2] \in Mode
        BY ServerAssumption
      <3>2. asked'[ask[1]] = ask[2]
        BY <3>1 DEF Control, IInv, TypeOK
      <3>3. pathIndex[ask[1]] = s => ask[2] = mode
        BY <3>1, <3>2, ServerAssumption DEF Agreed, IInv, OwnerInv
      <3> QED BY <3>1, <3>3 DEF Control, IInv, TypeOK
    <2>4. CASE Restart
      <3>1. asked' = [a \in Addrs |-> NoMode] /\ NoMode # mode
        BY <2>4 DEF Restart, NoMode, Mode
      <3> QED BY <3>1 DEF Agreed
    <2>5. CASE UNCHANGED state
      BY <2>5
    <2> QED
      BY <2>1, <2>2, <2>3, <2>4, <2>5
      DEF Next, ListenerStep, Receive, WriteToWireGuard, ReadResponse, ReadData,
          SendReply, Tick, vars
  <1>2. ModeSticks <=> [][Sticks]_vars
    BY DEF ModeSticks
  <1> QED BY <1>1, <1>2, InductiveInvariant, PTL DEF Spec

-----------------------------------------------------------------------------
(***************************************************************************)
(* The server implements the promise of module Relay.                      *)
(***************************************************************************)
Ways == [s \in Sessions |-> ReplyTargets(state[s], now)]

(* Where replies would go is as the Relay demands.                         *)
LEMMA InvRouted == IInv => R!Routed
  BY HeardHasAWay DEF IInv, ReplyReachesOwner, AnswerFindsAWay, R!Routed, ReplyTargets

(* The ways depend on what registerPath, a control packet and the clock    *)
(* change, not on what a client's deduplicator holds.                      *)
LEMMA SameWays ==
  ASSUME now' = now,
         \A s \in Sessions : /\ state'[s].lastSeen = state[s].lastSeen
                             /\ state'[s].primary = state[s].primary
                             /\ state'[s].replyMode = state[s].replyMode
  PROVE  Ways' = Ways
  BY DEF Ways, ReplyTargets, Live

(* What a listener does before its write changes no more than the ways.    *)
LEMMA ListenersReRoute ==
  ASSUME IInv, R!Routed',
         UNCHANGED <<kernel, answered, written, serverIndex, heard, reply>>,
         now' \in {now, now + 1}
  PROVE  R!Next
  BY DEF R!Next, R!ReRoute

(* The write hands over a packet of the client the listener filed it       *)
(* under, and one that was not handed over before.                         *)
LEMMA WriteHandsOver ==
  ASSUME IInv, R!Routed', NEW l \in Listeners, WriteToWireGuard(l)
  PROVE  R!Next
  <1> DEFINE j == listener[l]
  <1>1. /\ j.at = "new" /\ j \in Busy /\ Working(l)
        /\ j.cs \in Sessions /\ j.pkt \in Packet
        /\ j.read \in Nat /\ j.read <= now /\ now \in Nat
    BY DEF IInv, TypeOK, PrimaryInv, WriteToWireGuard, Busy, Idle, Working
  <1>2. Peer[j.cs] = Peer[j.pkt.session]
    BY <1>1 DEF IInv, OwnerInv
  <1>3. Sent(j.pkt)
    BY <1>1 DEF IInv, SessionInv
  <1>4. R!Known(j.pkt) => j.cs = j.pkt.session /\ j.pkt \notin written
    BY <1>1 DEF IInv, PassedInv, HandedOverOnce, FiledByIndex, R!Known
  <1>5. heard' = [heard EXCEPT ![j.cs] = IF j.read > @ THEN j.read ELSE @]
    BY <1>1 DEF WriteToWireGuard, IInv, TypeOK
  <1>6. Ways' = Ways
    BY SameWays DEF WriteToWireGuard, clock
  <1>7. /\ written' = written \cup {j.pkt}
        /\ kernel' = [kernel EXCEPT ![j.pkt.session] =
             IF j.pkt.body = Initiation
             THEN IF @ = "none" THEN "initiated" ELSE @
             ELSE IF @ = "responded" THEN "established" ELSE @]
        /\ UNCHANGED <<answered, serverIndex, Ways, reply, now>>
    BY <1>6 DEF WriteToWireGuard, registry, clock
  <1>8. j.read \in 0 .. now
    BY <1>1
  <1>9. j.pkt.body = Initiation \/ j.pkt.session \in answered
    BY <1>3 DEF Sent
  <1> HIDE DEF j
  <1>10. R!HandOver(j.pkt, j.cs, j.read)
    BY <1>2, <1>4, <1>5, <1>7, <1>8, <1>9 DEF R!HandOver, Ways
  <1> QED BY <1>1, <1>8, <1>10 DEF R!Next

(* What the reply goroutine does are the Relay's own steps.                *)
LEMMA RepliesRelay ==
  ASSUME IInv, R!Routed',
         \/ \E s \in Sessions : ReadResponse(s) \/ ReadData(s)
         \/ \E lost \in BOOLEAN : SendReply(lost)
  PROVE  R!Next
  <1>0. Ways' = Ways
    BY SameWays DEF ReadResponse, ReadData, SendReply, clock
  <1>1. CASE \E s \in Sessions : ReadResponse(s)
    <2> PICK s \in Sessions : ReadResponse(s)
      BY <1>1
    <2>1. s \notin clientIndex => heard[s] = NoTime
      BY DEF IInv, KnownInv
    <2>2. R!Respond(s)
      BY <1>0, <2>1 DEF R!Respond, ReadResponse, Ways, clock, history
    <2> QED BY <2>2 DEF R!Next
  <1>2. CASE \E s \in Sessions : ReadData(s)
    <2> PICK s \in Sessions : ReadData(s)
      BY <1>2
    <2>1. R!FetchData(s)
      BY <1>0 DEF R!FetchData, ReadData, Ways, registry, clock, external, history
    <2> QED BY <2>1 DEF R!Next
  <1>3. CASE \E lost \in BOOLEAN : SendReply(lost)
    <2> PICK lost \in BOOLEAN : SendReply(lost)
      BY <1>3
    <2>0. reply \in Sessions
      BY DEF SendReply, IInv, TypeOK
    <2>1. R!Answer
      BY <1>0, <2>0 DEF R!Answer, SendReply, Ways, registry, clock, history
    <2> QED BY <2>1 DEF R!Next
  <1> QED BY <1>1, <1>2, <1>3

(* A restart forgets what the Relay's crash forgets, and no more.          *)
LEMMA RestartCrashes ==
  ASSUME R!Routed', Restart
  PROVE  R!Next
  <1>1. Ways' = [s \in Sessions |-> {}]
    BY DEF Restart, Ways, ReplyTargets, Live, NewClientState
  <1>2. R!Crash
    BY <1>1 DEF R!Crash, Restart, Ways, external
  <1> QED BY <1>2 DEF R!Next

(* The bonding server, with its listeners racing, its tables filling and   *)
(* expiring and its process restarting, is a Relay: every packet that can  *)
(* be told by its index is handed over once, every reply is for its own    *)
(* client, and a client that is heard can be answered.                     *)
THEOREM ImplementsRelay == Spec => IsRelay
  <1>1. Init => R!Init
    BY DEF Init, FreshProcess, R!Init, ReplyTargets, Live, NewClientState
  <1>2. IInv /\ R!Routed' /\ [Next]_vars => [R!Next]_(R!vars)
    <2> SUFFICES ASSUME IInv, R!Routed', [Next]_vars
                 PROVE  R!Next \/ UNCHANGED R!vars
      OBVIOUS
    <2>1. CASE \E l \in Listeners, pkt \in Packet, a \in Addrs : Receive(l, pkt, a)
      BY <2>1, ListenersReRoute DEF Receive, clock, external, history
    <2>2. CASE \E l \in Listeners : RegisterPath(l)
      BY <2>2, ListenersReRoute DEF RegisterPath, clock, external, history
    <2>3. CASE \E l \in Listeners : CheckNew(l)
      BY <2>3, ListenersReRoute DEF CheckNew, registry, clock, external, history
    <2>4. CASE \E l \in Listeners : WriteToWireGuard(l)
      BY <2>4, WriteHandsOver
    <2>5. CASE \E l \in Listeners, ask \in Asks : Control(l, ask[1], ask[2])
      BY <2>5, ListenersReRoute DEF Control, clock, external
    <2>6. CASE \/ \E s \in Sessions : ReadResponse(s) \/ ReadData(s)
               \/ \E lost \in BOOLEAN : SendReply(lost)
      BY <2>6, RepliesRelay
    <2>7. CASE Tick
      BY <2>7, ListenersReRoute DEF Tick, registry, external, history
    <2>8. CASE Restart
      BY <2>8, RestartCrashes
    <2>9. CASE UNCHANGED vars
      BY <2>9, SameWays
      DEF vars, R!vars, Ways, registry, clock, external, history
    <2> QED
      BY <2>1, <2>2, <2>3, <2>4, <2>5, <2>6, <2>7, <2>8, <2>9 DEF Next, ListenerStep
  <1>3. IsRelay <=> R!Init /\ [][R!Next]_(R!vars)
    BY DEF IsRelay, R!Spec
  <1> QED BY <1>1, <1>2, <1>3, InvRouted, InductiveInvariant, PTL DEF Spec
=============================================================================
