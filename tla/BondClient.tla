---------------------------- MODULE BondClient ----------------------------
(***************************************************************************)
(* The life of one bonding client of the Windows app                       *)
(* (client/bonding/client.go): Start runs on a goroutine of its own, opens *)
(* the local socket and the paths, starts the workers and forwards what    *)
(* WireGuard sends until it is stopped; Stop is called from another        *)
(* goroutine, at any moment after Start was spawned.  The data cap is      *)
(* counted in packets.                                                     *)
(***************************************************************************)
EXTENDS Integers, FiniteSets

CONSTANTS
  Paths,        (* Config.Paths                                            *)
  Metered,      (* those with PathConfig.Metered                           *)
  Starlink,     (* those whose PathConfig.Name is "Starlink"               *)
  SendMode,     (* Config.SendMode: "primary" or "all"                     *)
  DataLimit,    (* DataLimitMB, in packets; 0 is no limit                  *)
  MaxPackets    (* bound: packets WireGuard sends                          *)

ASSUME ClientAssumption ==
  /\ IsFiniteSet(Paths)
  /\ Metered \subseteq Paths
  /\ Starlink \subseteq Paths
  /\ SendMode \in {"primary", "all"}
  /\ DataLimit \in Nat
  /\ MaxPackets \in Nat

(* The goroutines Start leaves behind it: one reader of replies per path,  *)
(* the probe loop and the periodic counters.                               *)
Workers == Paths \cup {"probeLoop", "counters"}

VARIABLES
  main,         (* where Start is                                          *)
  todo,         (* the paths Start has yet to create                       *)
  localConn,    (* the socket WireGuard sends to                           *)
  conn,         (* the socket of each path                                 *)
  paths,        (* c.paths                                                 *)
  active,       (* Path.active                                             *)
  running,      (* c.running                                               *)
  worker,       (* the goroutines                                          *)
  stop,         (* where Stop is                                           *)
  dataUsed,     (* c.DataUsed4G                                            *)
  packets,      (* c.TotalPackets                                          *)
  stopped       (* history: Stop found the client running                  *)

vars == <<main, todo, localConn, conn, paths, active, running, worker, stop,
          dataUsed, packets, stopped>>

Init ==
  /\ main = "listen"
  /\ todo = Paths
  /\ localConn = "nil"
  /\ conn = [p \in Paths |-> "nil"]
  /\ paths = {}
  /\ active = [p \in Paths |-> FALSE]
  /\ running = FALSE
  /\ worker = [w \in Workers |-> "none"]
  /\ stop = "not called"
  /\ dataUsed = 0
  /\ packets = 0
  /\ stopped = FALSE

-----------------------------------------------------------------------------
(***************************************************************************)
(* Start.                                                                  *)
(***************************************************************************)

(* Wrong: Start leaves the local socket to Stop.                           *)
ReturnLeavesSocket ==
  /\ main' = "returned"
  /\ UNCHANGED localConn

(* Return: the deferred close of the local socket.                         *)
Return ==
  /\ main' = "returned"
  /\ localConn' = "closed"

Listen(ok) ==
  /\ main = "listen"
  /\ main' = IF ok THEN "create" ELSE "returned"
  /\ localConn' = IF ok THEN "open" ELSE "nil"
  /\ UNCHANGED <<todo, conn, paths, active, running, worker, stop, dataUsed,
                 packets, stopped>>

(* createPath; a path that cannot be created is left out.                  *)
CreatePath(p, ok) ==
  /\ main = "create" /\ p \in todo
  /\ todo' = todo \ {p}
  /\ conn' = [conn EXCEPT ![p] = IF ok THEN "open" ELSE "nil"]
  /\ active' = [active EXCEPT ![p] = ok]
  /\ main' = IF ok THEN "append" ELSE "create"
  /\ UNCHANGED <<localConn, paths, running, worker, stop, dataUsed, packets,
                 stopped>>

(* The new path becomes one of c.paths, where Stop can see it.             *)
AppendPath ==
  /\ main = "append"
  /\ paths' = {p \in Paths : conn[p] # "nil"}
  /\ main' = "create"
  /\ UNCHANGED <<todo, localConn, conn, active, running, worker, stop,
                 dataUsed, packets, stopped>>

NoPaths ==
  /\ main = "create" /\ todo = {} /\ paths = {}
  /\ Return
  /\ UNCHANGED <<todo, conn, paths, active, running, worker, stop, dataUsed,
                 packets, stopped>>

(* The reply-mode control is sent, running is set and the goroutines are   *)
(* started.                                                                *)
Run ==
  /\ main = "create" /\ todo = {} /\ paths # {}
  /\ main' = "loop"
  /\ running' = TRUE
  /\ worker' = [w \in Workers |-> IF w \in Paths \ paths THEN "none" ELSE "runs"]
  /\ UNCHANGED <<todo, localConn, conn, paths, active, stop, dataUsed, packets,
                 stopped>>

(* The test of the main loop, and the one of each worker.                  *)
CheckRunning ==
  /\ main = "loop"
  /\ IF running
     THEN main' = "read" /\ UNCHANGED localConn
     ELSE Return
  /\ UNCHANGED <<todo, conn, paths, active, running, worker, stop, dataUsed,
                 packets, stopped>>

WorkerEnds(w) ==
  /\ worker[w] = "runs"
  /\ ~running
  /\ worker' = [worker EXCEPT ![w] = "ended"]
  /\ UNCHANGED <<main, todo, localConn, conn, paths, active, running, stop,
                 dataUsed, packets, stopped>>

(* Wrong: the read is tried again at once.                                 *)
ReadFailsAgain ==
  /\ main = "read"
  /\ UNCHANGED vars

(* Wrong: a deadline that passes ends the loop like any other error.       *)
ReadFailsForGood ==
  /\ main = "read"
  /\ Return
  /\ UNCHANGED <<todo, conn, paths, active, running, worker, stop, dataUsed,
                 packets, stopped>>

(* The read of the local socket fails: it is closed, or the deadline       *)
(* passes.                                                                 *)
ReadFails ==
  /\ main = "read"
  /\ main' = "loop"
  /\ UNCHANGED <<todo, localConn, conn, paths, active, running, worker, stop,
                 dataUsed, packets, stopped>>

(* sendTargets: in primary mode one active path that is not metered, with  *)
(* the metered ones when it is stalled; without one, every active path.    *)
(* In the other mode every path, of which the loop skips the inactive.     *)
SendTargets ==
  LET up == {p \in paths : active[p]}
  IN IF SendMode = "all" \/ up \subseteq Metered
     THEN {up}
     ELSE UNION {{{p}, {p} \cup (up \cap Metered)} : p \in up \ Metered}

(* Wrong: the limit is noticed one packet late.                            *)
AfterCapLate(used) ==
  IF DataLimit > 0 /\ used > DataLimit
  THEN [p \in Paths |-> active[p] /\ p \in Starlink]
  ELSE active

(* disable4GPaths, once the metered paths carried the limit.               *)
AfterCap(used) ==
  IF DataLimit > 0 /\ used >= DataLimit
  THEN [p \in Paths |-> active[p] /\ p \in Starlink]
  ELSE active

(* One packet of WireGuard's: a write on each target, some of which fail,  *)
(* the metered ones counted, and the check of the limit.                   *)
Forward(targets, written) ==
  LET used == dataUsed + Cardinality(written \cap Metered)
  IN /\ main = "read" /\ localConn = "open" /\ packets < MaxPackets
     /\ written \subseteq {p \in targets : conn[p] = "open"}
     /\ packets' = packets + 1
     /\ dataUsed' = used
     /\ active' = AfterCap(used)
     /\ main' = "loop"
     /\ UNCHANGED <<todo, localConn, conn, paths, running, worker, stop, stopped>>

-----------------------------------------------------------------------------
(***************************************************************************)
(* Stop, one action per thing it shares with Start.                        *)
(***************************************************************************)
StopRunning ==
  /\ stop = "not called"
  /\ stop' = "running cleared"
  /\ running' = FALSE
  /\ stopped' = running
  /\ UNCHANGED <<main, todo, localConn, conn, paths, active, worker, dataUsed,
                 packets>>

StopLocal ==
  /\ stop = "running cleared"
  /\ stop' = "local closed"
  /\ localConn' = IF localConn = "nil" THEN "nil" ELSE "closed"
  /\ UNCHANGED <<main, todo, conn, paths, active, running, worker, dataUsed,
                 packets, stopped>>

StopPaths ==
  /\ stop = "local closed"
  /\ stop' = "returned"
  /\ conn' = [p \in Paths |-> IF p \in paths THEN "closed" ELSE conn[p]]
  /\ UNCHANGED <<main, todo, localConn, paths, active, running, worker,
                 dataUsed, packets, stopped>>

-----------------------------------------------------------------------------
Forwarding ==
  \E targets \in SendTargets : \E written \in SUBSET targets :
    Forward(targets, written)

MainStep ==
  \/ \E ok \in BOOLEAN : Listen(ok)
  \/ \E p \in todo, ok \in BOOLEAN : CreatePath(p, ok)
  \/ AppendPath
  \/ NoPaths
  \/ Run
  \/ CheckRunning
  \/ ReadFails
  \/ Forwarding

Next ==
  \/ MainStep
  \/ \E w \in Workers : WorkerEnds(w)
  \/ StopRunning
  \/ StopLocal
  \/ StopPaths

(* Every goroutine is scheduled; nobody has to call Stop.  The reads have  *)
(* deadlines and the tickers tick, so no goroutine blocks for ever.        *)
Fairness ==
  /\ WF_vars(MainStep)
  /\ \A w \in Workers : WF_vars(WorkerEnds(w))
  /\ WF_vars(StopLocal)
  /\ WF_vars(StopPaths)

Spec == Init /\ [][Next]_vars /\ Fairness

-----------------------------------------------------------------------------
(***************************************************************************)
(* Properties.                                                             *)
(***************************************************************************)
TypeOK ==
  /\ main \in {"listen", "create", "append", "loop", "read", "returned"}
  /\ todo \subseteq Paths
  /\ localConn \in {"nil", "open", "closed"}
  /\ conn \in [Paths -> {"nil", "open", "closed"}]
  /\ paths \subseteq Paths
  /\ active \in [Paths -> BOOLEAN]
  /\ running \in BOOLEAN
  /\ worker \in [Workers -> {"none", "runs", "ended"}]
  /\ stop \in {"not called", "running cleared", "local closed", "returned"}
  /\ dataUsed \in Nat
  /\ packets \in Nat
  /\ stopped \in BOOLEAN

AllClosed == localConn # "open" /\ \A p \in Paths : conn[p] # "open"

(* When Start and Stop have both returned, in whatever order they ran, no  *)
(* socket is left open: a path Stop did not see would keep its port and    *)
(* its adapter.                                                            *)
CleanExit == main = "returned" /\ stop = "returned" => AllClosed

(* A client that is stopped while it runs comes to rest: Start returns,    *)
(* every goroutine ends and every socket is closed, although none of them  *)
(* is waited for.                                                          *)
StoppedEnds ==
  stopped ~> /\ main = "returned" /\ AllClosed
             /\ \A w \in Workers : worker[w] # "runs"

(* What client.go:124 says: "Start begins bonding. Blocks until Stop() is  *)
(* called."                                                                *)
StartReturnsAfterStop == stop = "returned" ~> main = "returned"

(* The metered paths carry the limit and at most what one more packet      *)
(* costs, although they are only disabled after the packet that passes it. *)
CapHolds ==
  DataLimit > 0 /\ Metered \cap Starlink = {} =>
    dataUsed < DataLimit + Cardinality(Metered)

(* The limit is one of mobile data (client.go:52 and :74): a path that     *)
(* does not count against it stays in use when it is reached.              *)
CapSparesUnmetered ==
  [][\A p \in paths \ Metered : active[p] => active'[p]]_vars

(* A client that was stopped while it ran never comes back to life,        *)
(* although Stop waits for nobody: whatever its goroutines still do, none  *)
(* of them starts another, opens a socket or sets running again, and the   *)
(* main loop reads no packet after the one it was waiting for.             *)
NoRevival ==
  [][stopped =>
       /\ stopped' /\ ~running'
       /\ localConn' = "open" => localConn = "open"
       /\ \A p \in Paths : conn'[p] = "open" => conn[p] = "open"
       /\ \A w \in Workers : worker'[w] = "runs" => worker[w] = "runs"
       /\ main' = "read" => (main = "read" /\ packets' = packets)]_vars

(* What the app controller counts on when it answers that it is connected: *)
(* once the client serves, it keeps the port, the paths and their readers  *)
(* until somebody calls Stop; no failed read or write ends it.             *)
KeepsServing ==
  /\ main' \in {"loop", "read"}
  /\ running'
  /\ localConn' = "open"
  /\ paths' = paths /\ paths # {}
  /\ \A p \in paths : conn'[p] = "open" /\ worker'[p] = "runs"

ServesUntilStopped ==
  [][stop' = "not called" /\ main \in {"loop", "read"} => KeepsServing]_vars

-----------------------------------------------------------------------------
(***************************************************************************)
(* The inductive invariant behind the safety properties.                   *)
(***************************************************************************)

(* Nothing is counted before the main loop; past the limit, only what is   *)
(* named Starlink is active.                                               *)
CapInv ==
  /\ main \in {"listen", "create", "append"} => dataUsed = 0
  /\ DataLimit > 0 /\ dataUsed >= DataLimit =>
       \A p \in Paths : active[p] => p \in Starlink

(* A socket is one of c.paths, or is about to be.                          *)
PathsInv ==
  /\ main # "append" => \A p \in Paths : conn[p] # "nil" => p \in paths
  /\ \A p \in todo : conn[p] = "nil" /\ p \notin paths
  /\ main = "listen" => /\ todo = Paths /\ paths = {}
                        /\ \A p \in Paths : conn[p] = "nil"

(* The main loop finds running cleared only by a Stop that found it set,   *)
(* and that Stop sees every path.                                          *)
StopInv ==
  /\ running => main \in {"loop", "read"}
  /\ main \in {"loop", "read"} /\ ~running => stopped
  /\ stopped => main \in {"loop", "read", "returned"} /\ stop # "not called"
  /\ stopped /\ stop = "returned" => \A p \in paths : conn[p] = "closed"
  /\ stopped => ~running
  /\ main = "returned" =>
       /\ localConn # "open"
       /\ stopped \/ (paths = {} /\ \A p \in Paths : conn[p] = "nil")

(* Until Stop is called, what Start has opened stays open.                 *)
ServeInv ==
  /\ main = "listen" => localConn = "nil"
  /\ stop = "not called" /\ main \notin {"listen", "returned"} =>
       /\ localConn = "open"
       /\ \A p \in Paths : conn[p] # "closed"
       /\ \A p \in paths : conn[p] = "open"
  /\ stop = "not called" /\ main \in {"loop", "read"} =>
       running /\ paths # {} /\ \A p \in paths : worker[p] = "runs"

IInv ==
  /\ TypeOK
  /\ CapInv
  /\ CapHolds
  /\ PathsInv
  /\ StopInv
  /\ ServeInv
=============================================================================
