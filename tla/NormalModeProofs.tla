------------------------- MODULE NormalModeProofs -------------------------
(***************************************************************************)
(* Mobile paths rest in Normal mode, however many they are and however     *)
(* long the thresholds.                                                    *)
(***************************************************************************)
EXTENDS NormalMode, TLAPS

(* An age stays an age.                                                    *)
LEMMA AgeLemma ==
  ASSUME NEW limit \in Nat, NEW age \in Age(limit) \cup {Never}
  PROVE  Older(age, limit) \in Age(limit) \cup {Never}
  BY DEF Age, Older, Never

(* Nobody has been heard, and nothing is on its way.                       *)
LEMMA InitInv == Init => IInv
  <1> SUFFICES ASSUME Init PROVE IInv
    OBVIOUS
  <1>1. lastSeen \in [Paths -> Age(PathTTL) \cup {Never}]
    BY DEF Init
  <1>2. TypeOK
    <2>1. changes \in 0 .. MaxChanges
      BY NormalModeAssumption DEF Init
    <2>2. /\ works \subseteq Paths /\ uplink \subseteq Paths
          /\ downlink \subseteq Paths /\ quiet \subseteq Sides
          /\ primary = NoPath /\ stalled = FALSE
          /\ lastSend = Never /\ lastRecv = Never
      BY DEF Init
    <2> QED BY <1>1, <2>1, <2>2 DEF TypeOK
  <1>3. MobileRestsUntilStall /\ UnheardInv
    BY DEF Init, MobileRestsUntilStall, UnheardInv, Mobile
  <1> QED BY <1>2, <1>3 DEF IInv

(* Every step of the client, of the server and of the network keeps it.    *)
LEMMA NextInv == IInv /\ [Next]_vars => IInv'
  <1> SUFFICES ASSUME IInv, [Next]_vars PROVE IInv'
    OBVIOUS
  <1> USE DEF IInv, TypeOK, MobileRestsUntilStall, UnheardInv, network, client, server
  <1>1. CASE Sending
    <2> PICK failed \in SUBSET Paths : Send(failed)
      BY <1>1 DEF Sending
    <2>1. SendTargets \subseteq Paths
      BY NormalModeAssumption DEF SendTargets
    <2>2. SendMode = "primary" /\ ~stalled' => ~stalled /\ SendTargets = {Dish}
      BY DEF Send, SendTargets
    <2>3. 0 \in Age(Stall)
      BY NormalModeAssumption DEF Age
    <2>4. TypeOK'
      BY <2>1, <2>3 DEF Send
    <2> QED BY <2>2, <2>4 DEF Send, Mobile
  <1>2. CASE \E p \in Paths : Receive(p)
    BY <1>2, NormalModeAssumption DEF Receive, Mobile, Age
  <1>3. CASE \E p \in Paths : Arrive(p)
    <2> PICK p \in Paths : Arrive(p)
      BY <1>3
    <2>1. TypeOK'
      BY NormalModeAssumption DEF Arrive, Age
    <2>2. SendMode = "primary" /\ ~stalled => p = Dish
      BY DEF Arrive, Mobile
    <2> QED BY <2>1, <2>2 DEF Arrive, Mobile
  <1>4. CASE \E p \in Paths : Change(p)
    BY <1>4, NormalModeAssumption DEF Change
  <1>5. CASE \E p \in Paths : Lose(p)
    BY <1>5 DEF Lose
  <1>6. CASE Reply
    BY <1>6 DEF Reply, ReplyTargets, Mobile
  <1>7. CASE Tick
    <2>1. TypeOK'
      BY <1>7, AgeLemma, NormalModeAssumption DEF Tick
    <2>2. UnheardInv'
      BY <1>7, NormalModeAssumption DEF Tick, Older, Mobile
    <2> QED BY <1>7, <2>1, <2>2 DEF Tick
  <1>8. CASE UNCHANGED vars
    BY <1>8 DEF vars
  <1> QED BY <1>1, <1>2, <1>3, <1>4, <1>5, <1>6, <1>7, <1>8 DEF Next

(* Client and server agree on what rests, in every reachable state.        *)
THEOREM InductiveInvariant == Spec => []IInv
  BY InitInv, NextInv, PTL DEF Spec

(* Until the primary path seems stalled, no payload and no reply is on a   *)
(* mobile path, in either reply mode.                                      *)
THEOREM MobileRestsHolds == Spec => []MobileRestsUntilStall
  <1>1. IInv => MobileRestsUntilStall
    BY DEF IInv
  <1> QED BY <1>1, InductiveInvariant, PTL
(* The path heard last stays the freshest: time passes for all of them.    *)
LEMMA FreshestNext ==
  ASSUME IInv, PrimaryFreshest, [Next]_vars
  PROVE  PrimaryFreshest'
  <1> USE DEF server
  <1>a. lastSeen \in [Paths -> Age(PathTTL) \cup {Never}] /\ PathTTL \in Nat
    BY NormalModeAssumption DEF IInv, TypeOK
  <1>b. NoPath \notin Paths /\ primary \in Paths \cup {NoPath}
    BY NormalModeAssumption DEF IInv, TypeOK
  <1>1. CASE \E p \in Paths : Arrive(p)
    <2> PICK p \in Paths : Arrive(p)
      BY <1>1
    <2>1. primary' = p /\ lastSeen'[p] = 0
      BY <1>a DEF Arrive
    <2>2. \A q \in Paths : lastSeen'[q] # Never => lastSeen'[q] >= 0
      BY <1>a DEF Arrive, Age, Never
    <2> QED BY <1>b, <2>1, <2>2 DEF PrimaryFreshest, Never
  <1>2. CASE Tick
    <2>1. primary' = primary
      BY <1>2 DEF Tick
    <2>2. \A p \in Paths : lastSeen'[p] = Older(lastSeen[p], PathTTL)
      BY <1>2 DEF Tick
    <2>3. \A p \in Paths : lastSeen'[p] # Never => lastSeen[p] # Never
      BY <2>2 DEF Older
    <2>4. \A p \in Paths : lastSeen'[p] # Never =>
            lastSeen'[primary] # Never /\ lastSeen'[primary] <= lastSeen'[p]
      BY <1>a, <1>b, <2>2, <2>3 DEF PrimaryFreshest, Older, Age, Never
    <2> QED BY <2>1, <2>3, <2>4 DEF PrimaryFreshest
  <1>3. CASE \/ Sending \/ Reply
             \/ \E p \in Paths : Receive(p) \/ Change(p) \/ Lose(p)
             \/ UNCHANGED vars
    <2>1. UNCHANGED <<primary, lastSeen>>
      BY <1>3 DEF Sending, Send, Reply, Receive, Change, Lose, vars
    <2> QED BY <2>1 DEF PrimaryFreshest
  <1> QED BY <1>1, <1>2, <1>3 DEF Next

(* A client that was heard is answered: whatever fails, expires and moves, *)
(* a reply has a path to go on while one was heard within the time to live *)
(* (server/main.go, registerPath and replyTargets), in either reply mode.  *)
THEOREM HeardIsAnsweredHolds == Spec => []HeardIsAnswered
  <1>1. Init => PrimaryFreshest
    BY DEF Init, PrimaryFreshest
  <1>2. IInv /\ PrimaryFreshest => HeardIsAnswered
    <2> SUFFICES ASSUME IInv, PrimaryFreshest,
                        NEW p \in Paths, lastSeen[p] # Never, lastSeen[p] <= PathTTL
                 PROVE  ReplyTargets # {}
      BY DEF HeardIsAnswered
    <2>1. primary \in Paths /\ lastSeen[primary] # Never
      BY DEF PrimaryFreshest, IInv, TypeOK
    <2>2. lastSeen[primary] <= PathTTL
      <3>1. lastSeen[primary] \in Int /\ lastSeen[p] \in Int /\ PathTTL \in Int
        BY <2>1, NormalModeAssumption DEF IInv, TypeOK, Age, Never
      <3>2. lastSeen[primary] <= lastSeen[p]
        BY DEF PrimaryFreshest
      <3> QED BY <3>1, <3>2
    <2>3. primary \in ReplyTargets
      BY <2>1, <2>2 DEF ReplyTargets
    <2> QED BY <2>3
  <1> QED BY <1>1, <1>2, FreshestNext, InductiveInvariant, PTL DEF Spec
=============================================================================
