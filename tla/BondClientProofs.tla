------------------------- MODULE BondClientProofs -------------------------
(***************************************************************************)
(* What Start and Stop leave behind, and what the metered paths carry, for *)
(* any number of paths and any limit.                                      *)
(***************************************************************************)
EXTENDS BondClient, FiniteSetTheorems, TLAPS

(* Cardinalities of sets of paths are numbers.                             *)
LEMMA PathCounts ==
  ASSUME NEW S \in SUBSET Paths
  PROVE  IsFiniteSet(S) /\ Cardinality(S) \in Nat
  BY ClientAssumption, FS_Subset, FS_CardinalityType

(* A new client is in the invariant.                                       *)
LEMMA InitInv == Init => IInv
  <1> SUFFICES ASSUME Init PROVE IInv
    OBVIOUS
  <1>1. TypeOK
    BY DEF Init, TypeOK
  <1>2. CapInv /\ CapHolds
    <2>1. Cardinality(Metered) \in Nat
      BY PathCounts, ClientAssumption
    <2>2. CapHolds
      <3> SUFFICES ASSUME DataLimit > 0
                   PROVE  dataUsed < DataLimit + Cardinality(Metered)
        BY DEF CapHolds
      <3>1. dataUsed = 0
        BY DEF Init
      <3> QED BY <2>1, <3>1, ClientAssumption
    <2>3. CapInv
      BY ClientAssumption DEF Init, CapInv
    <2> QED BY <2>2, <2>3
  <1>3. PathsInv /\ StopInv /\ ServeInv
    BY DEF Init, PathsInv, StopInv, ServeInv
  <1> QED BY <1>1, <1>2, <1>3 DEF IInv

(* One packet never takes the metered paths further past the limit than    *)
(* one write on each.                                                      *)
LEMMA ForwardingInv == ASSUME IInv, Forwarding PROVE IInv'
  <1> PICK targets \in SendTargets : \E written \in SUBSET targets :
             Forward(targets, written)
    BY DEF Forwarding
  <1> PICK written \in SUBSET targets : Forward(targets, written)
    OBVIOUS
  <1>0. \A p \in written : p \in paths /\ active[p]
    BY DEF SendTargets
  <1> DEFINE cost == Cardinality(written \cap Metered)
  <1>1. cost \in Nat /\ Cardinality(Metered) \in Nat /\ cost <= Cardinality(Metered)
    <2>1. IsFiniteSet(Metered)
      BY PathCounts, ClientAssumption
    <2>2. cost <= Cardinality(Metered)
      BY <2>1, FS_Subset
    <2> QED BY <2>2, PathCounts, ClientAssumption
  <1>2. dataUsed \in Nat /\ dataUsed' = dataUsed + cost /\ active' = AfterCap(dataUsed')
    BY DEF IInv, TypeOK, Forward
  <1> HIDE DEF cost
  <1>3. TypeOK'
    <2>1. active' \in [Paths -> BOOLEAN]
      BY <1>2 DEF IInv, TypeOK, AfterCap
    <2>2. dataUsed' \in Nat
      BY <1>1, <1>2
    <2>3. packets' \in Nat
      <3>1. packets \in Nat /\ packets' = packets + 1
        BY DEF IInv, TypeOK, Forward
      <3> QED BY <3>1
    <2> QED BY <2>1, <2>2, <2>3 DEF IInv, TypeOK, Forward
  <1>4. CapInv'
    <2>1. main' = "loop"
      BY DEF Forward
    <2>2. ASSUME DataLimit > 0, dataUsed' >= DataLimit, NEW p \in Paths, active'[p]
          PROVE  p \in Starlink
      BY <2>2, <1>2 DEF AfterCap
    <2> QED BY <2>1, <2>2 DEF CapInv
  <1>5. CapHolds'
    <2> SUFFICES ASSUME DataLimit > 0, Metered \cap Starlink = {}
                 PROVE  dataUsed' < DataLimit + Cardinality(Metered)
      BY DEF CapHolds
    <2>1. CASE dataUsed < DataLimit
      BY <2>1, <1>1, <1>2, ClientAssumption
    <2>2. CASE dataUsed >= DataLimit
      <3>1. written \cap Metered = {}
        BY <2>2, <1>0 DEF IInv, TypeOK, CapInv
      <3>2. cost = 0
        BY <3>1, FS_EmptySet DEF cost
      <3> QED BY <3>2, <1>2 DEF IInv, CapHolds
    <2> QED BY <2>1, <2>2, <1>2, ClientAssumption
  <1>6. PathsInv' /\ StopInv' /\ ServeInv'
    BY DEF IInv, PathsInv, StopInv, ServeInv, Forward
  <1> QED BY <1>3, <1>4, <1>5, <1>6 DEF IInv

(* Every step of Start, of its goroutines and of Stop keeps the invariant. *)
LEMMA NextInv == IInv /\ [Next]_vars => IInv'
  <1> SUFFICES ASSUME IInv, [Next]_vars PROVE IInv'
    OBVIOUS
  <1>0. dataUsed' = dataUsed => CapHolds'
    BY DEF IInv, CapHolds
  <1>1. CASE \E ok \in BOOLEAN : Listen(ok)
    <2> PICK ok \in BOOLEAN : Listen(ok)
      BY <1>1
    <2>1. TypeOK' /\ CapHolds'
      BY <1>0 DEF IInv, TypeOK, Listen
    <2>2. CapInv'
      BY ClientAssumption DEF IInv, TypeOK, CapInv, Listen
    <2>3. PathsInv'
      BY DEF IInv, TypeOK, PathsInv, Listen
    <2>4. StopInv'
      BY DEF IInv, TypeOK, PathsInv, StopInv, Listen
    <2>5. ServeInv'
      BY DEF IInv, TypeOK, PathsInv, StopInv, ServeInv, Listen
    <2> QED BY <2>1, <2>2, <2>3, <2>4, <2>5 DEF IInv
  <1>2. CASE \E p \in todo, ok \in BOOLEAN : CreatePath(p, ok)
    <2> PICK p \in todo, ok \in BOOLEAN : CreatePath(p, ok)
      BY <1>2
    <2>1. TypeOK' /\ CapHolds'
      BY <1>0 DEF IInv, TypeOK, CreatePath
    <2>2. CapInv'
      <3>1. dataUsed' = 0
        BY DEF IInv, CapInv, CreatePath
      <3>2. ~(DataLimit > 0 /\ dataUsed' >= DataLimit)
        BY <3>1, ClientAssumption
      <3> QED BY <3>1, <3>2 DEF CapInv
    <2>3. PathsInv'
      BY DEF IInv, TypeOK, PathsInv, CreatePath
    <2>4. StopInv'
      BY DEF IInv, TypeOK, PathsInv, StopInv, CreatePath
    <2>5. ServeInv'
      BY DEF IInv, TypeOK, PathsInv, StopInv, ServeInv, CreatePath
    <2> QED BY <2>1, <2>2, <2>3, <2>4, <2>5 DEF IInv
  <1>3. CASE AppendPath
    <2>1. TypeOK' /\ CapHolds'
      BY <1>3, <1>0 DEF IInv, TypeOK, AppendPath
    <2>2. CapInv'
      BY <1>3, ClientAssumption DEF IInv, TypeOK, CapInv, AppendPath
    <2>3. PathsInv'
      BY <1>3 DEF IInv, TypeOK, PathsInv, AppendPath
    <2>4. StopInv'
      BY <1>3 DEF IInv, TypeOK, PathsInv, StopInv, AppendPath
    <2>5. ServeInv'
      BY <1>3 DEF IInv, TypeOK, PathsInv, StopInv, ServeInv, AppendPath
    <2> QED BY <2>1, <2>2, <2>3, <2>4, <2>5 DEF IInv
  <1>4. CASE NoPaths
    <2>1. TypeOK' /\ CapHolds'
      BY <1>4, <1>0 DEF IInv, TypeOK, NoPaths, Return
    <2>2. CapInv'
      BY <1>4, ClientAssumption DEF IInv, TypeOK, CapInv, NoPaths, Return
    <2>3. PathsInv'
      BY <1>4 DEF IInv, TypeOK, PathsInv, NoPaths, Return
    <2>4. StopInv'
      BY <1>4 DEF IInv, TypeOK, PathsInv, StopInv, NoPaths, Return
    <2>5. ServeInv'
      BY <1>4 DEF IInv, TypeOK, PathsInv, StopInv, ServeInv, NoPaths, Return
    <2> QED BY <2>1, <2>2, <2>3, <2>4, <2>5 DEF IInv
  <1>5. CASE Run
    <2>1. TypeOK' /\ CapHolds'
      BY <1>5, <1>0 DEF IInv, TypeOK, Run
    <2>2. CapInv'
      BY <1>5, ClientAssumption DEF IInv, TypeOK, CapInv, Run
    <2>3. PathsInv'
      BY <1>5 DEF IInv, TypeOK, PathsInv, Run
    <2>4. StopInv'
      BY <1>5 DEF IInv, TypeOK, PathsInv, StopInv, Run
    <2>5. ServeInv'
      BY <1>5 DEF IInv, TypeOK, PathsInv, StopInv, ServeInv, Run, Workers
    <2> QED BY <2>1, <2>2, <2>3, <2>4, <2>5 DEF IInv
  <1>6. CASE CheckRunning
    <2>1. TypeOK' /\ CapHolds'
      BY <1>6, <1>0 DEF IInv, TypeOK, CheckRunning, Return
    <2>2. CapInv'
      BY <1>6, ClientAssumption DEF IInv, TypeOK, CapInv, CheckRunning, Return
    <2>3. PathsInv'
      BY <1>6 DEF IInv, TypeOK, PathsInv, CheckRunning, Return
    <2>4. StopInv'
      BY <1>6 DEF IInv, TypeOK, PathsInv, StopInv, CheckRunning, Return
    <2>5. ServeInv'
      BY <1>6 DEF IInv, TypeOK, PathsInv, StopInv, ServeInv, CheckRunning, Return
    <2> QED BY <2>1, <2>2, <2>3, <2>4, <2>5 DEF IInv
  <1>7. CASE ReadFails
    <2>1. TypeOK' /\ CapHolds'
      BY <1>7, <1>0 DEF IInv, TypeOK, ReadFails
    <2>2. CapInv'
      BY <1>7, ClientAssumption DEF IInv, TypeOK, CapInv, ReadFails
    <2>3. PathsInv'
      BY <1>7 DEF IInv, TypeOK, PathsInv, ReadFails
    <2>4. StopInv'
      BY <1>7 DEF IInv, TypeOK, PathsInv, StopInv, ReadFails
    <2>5. ServeInv'
      BY <1>7 DEF IInv, TypeOK, PathsInv, StopInv, ServeInv, ReadFails
    <2> QED BY <2>1, <2>2, <2>3, <2>4, <2>5 DEF IInv
  <1>8. CASE Forwarding
    BY <1>8, ForwardingInv
  <1>9. CASE \E w \in Workers : WorkerEnds(w)
    <2> PICK w \in Workers : WorkerEnds(w)
      BY <1>9
    <2>1. TypeOK' /\ CapHolds'
      BY <1>0 DEF IInv, TypeOK, WorkerEnds
    <2>2. CapInv'
      BY ClientAssumption DEF IInv, TypeOK, CapInv, WorkerEnds
    <2>3. PathsInv'
      BY DEF IInv, TypeOK, PathsInv, WorkerEnds
    <2>4. StopInv'
      BY DEF IInv, TypeOK, PathsInv, StopInv, WorkerEnds
    <2>5. ServeInv'
      BY DEF IInv, TypeOK, PathsInv, StopInv, ServeInv, WorkerEnds
    <2> QED BY <2>1, <2>2, <2>3, <2>4, <2>5 DEF IInv
  <1>10. CASE StopRunning
    <2>1. TypeOK' /\ CapHolds'
      BY <1>10, <1>0 DEF IInv, TypeOK, StopRunning
    <2>2. CapInv'
      BY <1>10, ClientAssumption DEF IInv, TypeOK, CapInv, StopRunning
    <2>3. PathsInv'
      BY <1>10 DEF IInv, TypeOK, PathsInv, StopRunning
    <2>4. StopInv'
      BY <1>10 DEF IInv, TypeOK, PathsInv, StopInv, StopRunning
    <2>5. ServeInv'
      BY <1>10 DEF IInv, TypeOK, PathsInv, StopInv, ServeInv, StopRunning
    <2> QED BY <2>1, <2>2, <2>3, <2>4, <2>5 DEF IInv
  <1>11. CASE StopLocal
    <2>1. TypeOK' /\ CapHolds'
      BY <1>11, <1>0 DEF IInv, TypeOK, StopLocal
    <2>2. CapInv'
      BY <1>11, ClientAssumption DEF IInv, TypeOK, CapInv, StopLocal
    <2>3. PathsInv'
      BY <1>11 DEF IInv, TypeOK, PathsInv, StopLocal
    <2>4. StopInv'
      BY <1>11 DEF IInv, TypeOK, PathsInv, StopInv, StopLocal
    <2>5. ServeInv'
      BY <1>11 DEF IInv, TypeOK, PathsInv, StopInv, ServeInv, StopLocal
    <2> QED BY <2>1, <2>2, <2>3, <2>4, <2>5 DEF IInv
  <1>12. CASE StopPaths
    <2>1. TypeOK' /\ CapHolds'
      BY <1>12, <1>0 DEF IInv, TypeOK, StopPaths
    <2>2. CapInv'
      BY <1>12, ClientAssumption DEF IInv, TypeOK, CapInv, StopPaths
    <2>3. PathsInv'
      BY <1>12 DEF IInv, TypeOK, PathsInv, StopPaths
    <2>4. StopInv'
      BY <1>12 DEF IInv, TypeOK, PathsInv, StopInv, StopPaths
    <2>5. ServeInv'
      BY <1>12 DEF IInv, TypeOK, PathsInv, StopInv, ServeInv, StopPaths
    <2> QED BY <2>1, <2>2, <2>3, <2>4, <2>5 DEF IInv
  <1>13. CASE UNCHANGED vars
    <2>1. TypeOK' /\ CapHolds'
      BY <1>13, <1>0 DEF IInv, TypeOK, vars
    <2>2. CapInv'
      BY <1>13, ClientAssumption DEF IInv, TypeOK, CapInv, vars
    <2>3. PathsInv'
      BY <1>13 DEF IInv, TypeOK, PathsInv, vars
    <2>4. StopInv'
      BY <1>13 DEF IInv, TypeOK, PathsInv, StopInv, vars
    <2>5. ServeInv'
      BY <1>13 DEF IInv, TypeOK, PathsInv, StopInv, ServeInv, vars
    <2> QED BY <2>1, <2>2, <2>3, <2>4, <2>5 DEF IInv
  <1> QED
    BY <1>1, <1>2, <1>3, <1>4, <1>5, <1>6, <1>7, <1>8, <1>9, <1>10, <1>11,
       <1>12, <1>13 DEF Next, MainStep

(* Start and Stop keep the invariant, however their steps interleave.      *)
THEOREM InductiveInvariant == Spec => []IInv
  BY InitInv, NextInv, PTL DEF Spec

(* Once Start and Stop have returned, no socket is open.                   *)
THEOREM CleanExitHolds == Spec => []CleanExit
  <1>1. IInv => CleanExit
    BY DEF IInv, TypeOK, PathsInv, StopInv, CleanExit, AllClosed
  <1> QED BY <1>1, InductiveInvariant, PTL

(* The metered paths never carry more than the limit and what is left of   *)
(* one packet's copies.                                                    *)
THEOREM CapHoldsAlways == Spec => []CapHolds
  <1>1. IInv => CapHolds
    BY DEF IInv
  <1> QED BY <1>1, InductiveInvariant, PTL

(* Nothing that Start or its goroutines still do brings a stopped client   *)
(* back.                                                                   *)
THEOREM NoRevivalHolds == Spec => NoRevival
  <1> DEFINE Dies ==
        stopped =>
          /\ stopped' /\ ~running'
          /\ localConn' = "open" => localConn = "open"
          /\ \A p \in Paths : conn'[p] = "open" => conn[p] = "open"
          /\ \A w \in Workers : worker'[w] = "runs" => worker[w] = "runs"
          /\ main' = "read" => (main = "read" /\ packets' = packets)
  <1>1. IInv /\ [Next]_vars => [Dies]_vars
    <2> SUFFICES ASSUME IInv, Next, stopped PROVE Dies
      OBVIOUS
    <2>1. /\ main \in {"loop", "read", "returned"}
          /\ stop # "not called"
          /\ ~running
      BY DEF IInv, StopInv
    <2>2. CASE CheckRunning \/ ReadFails \/ Forwarding
      BY <2>1, <2>2 DEF CheckRunning, Return, ReadFails, Forwarding, Forward
    <2>3. CASE \E w \in Workers : WorkerEnds(w)
      <3> PICK w \in Workers : WorkerEnds(w)
        BY <2>3
      <3> QED BY <2>1 DEF IInv, TypeOK, WorkerEnds
    <2>4. CASE StopLocal \/ StopPaths
      BY <2>1, <2>4 DEF IInv, TypeOK, StopLocal, StopPaths
    <2> QED
      BY <2>1, <2>2, <2>3, <2>4
      DEF Next, MainStep, Listen, CreatePath, AppendPath, NoPaths, Run, StopRunning
  <1>2. NoRevival <=> [][Dies]_vars
    BY DEF NoRevival
  <1> HIDE DEF Dies
  <1> QED BY <1>1, <1>2, InductiveInvariant, PTL DEF Spec

(* A client nobody stops goes on serving, whatever fails underneath it.    *)
THEOREM ServesUntilStoppedHolds == Spec => ServesUntilStopped
  <1> DEFINE Serves ==
        stop' = "not called" /\ main \in {"loop", "read"} => KeepsServing
  <1>1. IInv /\ [Next]_vars => [Serves]_vars
    <2> SUFFICES ASSUME IInv, Next, stop' = "not called", main \in {"loop", "read"}
                 PROVE  KeepsServing
      OBVIOUS
    <2>0. stop = "not called"
      BY DEF Next, MainStep, Listen, CreatePath, AppendPath, NoPaths, Run,
             CheckRunning, ReadFails, Forwarding, Forward, WorkerEnds,
             StopRunning, StopLocal, StopPaths
    <2>1. /\ running
          /\ localConn = "open"
          /\ paths # {}
          /\ \A p \in paths : conn[p] = "open" /\ worker[p] = "runs"
      BY <2>0 DEF IInv, ServeInv
    <2>2. CASE CheckRunning \/ ReadFails \/ Forwarding
      BY <2>1, <2>2 DEF CheckRunning, ReadFails, Forwarding, Forward, KeepsServing
    <2> QED
      BY <2>0, <2>1, <2>2
      DEF Next, MainStep, Listen, CreatePath, AppendPath, NoPaths, Run,
          WorkerEnds, StopRunning, StopLocal, StopPaths
  <1>2. ServesUntilStopped <=> [][Serves]_vars
    BY DEF ServesUntilStopped
  <1> HIDE DEF Serves
  <1> QED BY <1>1, <1>2, InductiveInvariant, PTL DEF Spec
=============================================================================
