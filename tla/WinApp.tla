------------------------------- MODULE WinApp -------------------------------
(***************************************************************************)
(* The controller of the Windows client (client/app.go): what Toggle,      *)
(* Logout, Login and the end of the process do to the bonding client, the  *)
(* tunnel and the host routes, one step of one goroutine at a time.        *)
(*                                                                         *)
(* A connection is what startGameMode builds and stopGameMode takes down.  *)
(* It is in one pair of hands at a time: those of the goroutine that       *)
(* works on it, or the app's, between commit and the stop that grabs it.   *)
(* toggleMu keeps Toggle out of Toggle's way, and nothing else: Logout and *)
(* shutdown stop whatever the app holds at that moment.                    *)
(*                                                                         *)
(* External: Windows' route table (HostRoutes) and WireGuard's device,     *)
(* which may fail to come up.  The bonding client is a port that one       *)
(* client at a time can listen on; BondClient is what happens behind it.   *)
(* The interface lets one sign-out run at a time and shows the login page  *)
(* after it.  Mode and region choose values of the connection, not steps.  *)
(***************************************************************************)
EXTENDS HostRoutes, Sequences

CONSTANTS
  MaxStarts,    (* bounds how often Toggle starts                         *)
  MaxExits,     (* bounds how often the process ends                       *)
  Flaky         (* the routes at which a command of Windows may fail       *)

ASSUME WinAppAssumption ==
  /\ MaxStarts \in Nat
  /\ MaxExits \in Nat
  /\ Flaky \subseteq Route

VARIABLES
  token,        (* is somebody signed in (App.token # "")                  *)
  connecting,   (* the last "connecting" event sent to the interface       *)
  pc,           (* where each goroutine is                                 *)
  conn,         (* the connection in each pair of hands                    *)
  todo,         (* routes AddHostRoutes has still to try                   *)
  unprobed,     (* adapters Probe has still to try                         *)
  table,        (* Windows' metrics of the host routes                     *)
  client,       (* the connection whose bonding client has the port, or 0  *)
  tunnels,      (* the connections whose tunnel is up                      *)
  starts, exits,
  orphans,      (* history: routes left behind, by processes that ended    *)
                (* and by deletions that failed                            *)
  unpinned      (* history: the routes held that could not be pinned       *)

vars == <<token, connecting, pc, conn, todo, unprobed, table, client,
          tunnels, starts, exits, orphans, unpinned>>

(* The goroutines: Toggle's call, Logout's and shutdown's.                 *)
Threads == {"toggle", "logout", "shutdown"}
Hands == Threads \cup {"app"}

(* What the commit hands over: routes and paths; the number stands for the *)
(* bonding client and the tunnel.                                          *)
Connection == [n : 0..MaxStarts, routes : SUBSET Route, paths : Seq(Route)]
None == [n |-> 0, routes |-> {}, paths |-> <<>>]

Building == {"add", "probe", "spawn", "tunnel", "commit", "undo"}
Connecting == {"fetch"} \cup Building
Stopping == {"stop tunnel", "stop client", "restore", "remove"}
Leaving == Stopping \cup {"report", "forget"}
Places == {"idle", "start", "stop"} \cup Connecting \cup Leaving

Init ==
  /\ token \in BOOLEAN
  /\ connecting = FALSE
  /\ pc = [t \in Threads |-> "idle"]
  /\ conn = [h \in Hands |-> None]
  /\ todo = {} /\ unprobed = {}
  /\ table = [r \in Route |-> Absent]
  /\ client = 0 /\ tunnels = {}
  /\ starts = 0 /\ exits = 0
  /\ orphans = {} /\ unpinned = {}

Goes(t, place) == pc' = [pc EXCEPT ![t] = place]
Holds(h, c) == conn' = [conn EXCEPT ![h] = c]
HandsOver(g, h) == conn' = [conn EXCEPT ![h] = conn[g], ![g] = None]

WithRoutes(c, routes) == [n |-> c.n, routes |-> routes, paths |-> c.paths]
Adds(r) ==
  LET c == conn["toggle"]
  IN Holds("toggle", WithRoutes(c, c.routes \cup {r}))
Drops(t, r) == Holds(t, WithRoutes(conn[t], conn[t].routes \ {r}))

WithPath(c, r) ==
  [n |-> c.n, routes |-> c.routes, paths |-> Append(c.paths, r)]

active == conn["app"].n # 0

(* Routes and adapters are gone through in an order that does not change.  *)
First(S) == CHOOSE e \in S : TRUE

-----------------------------------------------------------------------------
(* Commands of the interface.                                              *)

(* The token is saved before the call returns.                             *)
Login ==
  /\ ~token /\ pc["logout"] = "idle"
  /\ token' = TRUE
  /\ UNCHANGED <<connecting, pc, conn, todo, unprobed, table, client,
                 tunnels, starts, exits, orphans, unpinned>>

(* Toggle decides by what it reads of active, which it then lets go of.    *)
Toggle ==
  /\ pc["toggle"] = "idle"
  /\ \/ /\ active
        /\ Goes("toggle", "stop")
        /\ UNCHANGED starts
     \/ /\ ~active
        /\ starts < MaxStarts /\ starts' = starts + 1
        /\ Goes("toggle", "start")
  /\ UNCHANGED <<token, connecting, conn, todo, unprobed, table,
                 client, tunnels, exits, orphans, unpinned>>

Logout ==
  /\ token /\ pc["logout"] = "idle"
  /\ Goes("logout", "stop")
  /\ UNCHANGED <<token, connecting, conn, todo, unprobed, table,
                 client, tunnels, starts, exits, orphans, unpinned>>

Shutdown ==
  /\ exits < MaxExits /\ pc["shutdown"] = "idle"
  /\ Goes("shutdown", "stop")
  /\ UNCHANGED <<token, connecting, conn, todo, unprobed, table,
                 client, tunnels, starts, exits, orphans, unpinned>>

-----------------------------------------------------------------------------
(* startGameMode.                                                          *)

(* Every early return tells the interface that the attempt is over.        *)
(* Wrong: an early return that leaves the interface waiting.               *)
GivesUpSilently ==
  /\ Goes("toggle", "idle")
  /\ Holds("toggle", None)
  /\ UNCHANGED connecting

GivesUp ==
  /\ Goes("toggle", "idle")
  /\ connecting' = FALSE
  /\ Holds("toggle", None)

(* The snapshot: nothing happens unless somebody is signed in.             *)
Snapshot ==
  /\ pc["toggle"] = "start"
  /\ \/ token /\ Goes("toggle", "fetch") /\ connecting' = TRUE
     \/ ~token /\ Goes("toggle", "idle") /\ UNCHANGED connecting
  /\ UNCHANGED <<token, conn, todo, unprobed, table, client, tunnels,
                 starts, exits, orphans, unpinned>>

(* The configuration and the adapters: either step may fail.               *)
Fetch ==
  /\ pc["toggle"] = "fetch"
  /\ \/ /\ Goes("toggle", "add")
        /\ Holds("toggle", [n |-> starts, routes |-> {}, paths |-> <<>>])
        /\ todo' = Route /\ unprobed' = Adapters
        /\ UNCHANGED connecting
     \/ GivesUp /\ UNCHANGED <<todo, unprobed>>
  /\ UNCHANGED <<token, table, client, tunnels, starts, exits,
                 orphans, unpinned>>

(* Wrong: a route that is already there is taken for one's own.            *)
AddRouteAssumed(r) ==
  /\ pc["toggle"] = "add" /\ r \in todo /\ r = First(todo)
  /\ todo' = todo \ {r}
  /\ table' = Added(table, r)
  /\ Adds(r)
  /\ UNCHANGED <<token, connecting, pc, unprobed, client, tunnels,
                 starts, exits, orphans, unpinned>>

(* AddHostRoutes, one route: only what was added is kept for removal.      *)
AddRoute(r) ==
  /\ pc["toggle"] = "add" /\ r \in todo /\ r = First(todo)
  /\ todo' = todo \ {r}
  /\ \/ /\ table[r] = Absent
        /\ table' = Added(table, r)
        /\ Adds(r)
     \/ /\ (table[r] # Absent \/ r \in Flaky)
        /\ UNCHANGED <<table, conn>>
  /\ UNCHANGED <<token, connecting, pc, unprobed, client, tunnels,
                 starts, exits, orphans, unpinned>>

RoutesAdded ==
  /\ pc["toggle"] = "add" /\ todo = {}
  /\ Goes("toggle", "probe")
  /\ UNCHANGED <<token, connecting, conn, todo, unprobed, table,
                 client, tunnels, starts, exits, orphans, unpinned>>

(* Probe, one adapter: it reaches one of the candidates or none.  Changes  *)
(* that Windows refuses are logged and passed over.                        *)
ProbeAdapter(a) ==
  /\ pc["toggle"] = "probe" /\ a \in unprobed /\ a = First(unprobed)
  /\ unprobed' = unprobed \ {a}
  /\ \E refused \in SUBSET (Flaky \cap conn["toggle"].routes) :
       table' = Preferred(table, conn["toggle"].routes, a, refused)
  /\ \/ \E host \in Candidates(conn["toggle"].paths) :
          Holds("toggle", WithPath(conn["toggle"], <<host, a>>))
     \/ UNCHANGED conn
  /\ UNCHANGED <<token, connecting, pc, todo, client, tunnels, starts,
                 exits, orphans, unpinned>>

(* Wrong: the early return without the routes' removal.                    *)
NoneReachableLeaves ==
  /\ pc["toggle"] = "probe" /\ unprobed = {}
  /\ conn["toggle"].paths = <<>>
  /\ GivesUp
  /\ UNCHANGED <<token, todo, unprobed, table, client, tunnels,
                 starts, exits, orphans, unpinned>>

(* The routes of conn["toggle"] come out one by one.                       *)
NoneReachable ==
  /\ pc["toggle"] = "probe" /\ unprobed = {}
  /\ conn["toggle"].paths = <<>>
  /\ Goes("toggle", "undo")
  /\ UNCHANGED <<token, connecting, conn, todo, unprobed, table,
                 client, tunnels, starts, exits, orphans, unpinned>>

(* PinHostRoutes: it changes only routes of this connection, so that it    *)
(* does not matter what others do between its commands.                    *)
Pin ==
  /\ pc["toggle"] = "probe" /\ unprobed = {}
  /\ conn["toggle"].paths # <<>>
  /\ \E refused \in SUBSET (Flaky \cap conn["toggle"].routes) :
       /\ table' = Pinned(table, conn["toggle"].routes, conn["toggle"].paths,
                          refused)
       /\ unpinned' = unpinned \cup
                       {r \in refused : Mispinned(table, conn["toggle"].paths, r)}
  /\ Goes("toggle", "spawn")
  /\ UNCHANGED <<token, connecting, conn, todo, unprobed, client,
                 tunnels, starts, exits, orphans>>

(* The bonding client is spawned, and given 100 ms to listen.  That it     *)
(* cannot, or finds no path, is only logged.                               *)
SpawnClient ==
  /\ pc["toggle"] = "spawn"
  /\ client' \in IF client = 0 THEN {0, conn["toggle"].n} ELSE {client}
  /\ Goes("toggle", "tunnel")
  /\ UNCHANGED <<token, connecting, conn, todo, unprobed, table,
                 tunnels, starts, exits, orphans, unpinned>>

(* client.Stop gives the port back if it is this client's.                 *)
PortWithout(n) == IF client = n THEN 0 ELSE client

StartTunnel ==
  /\ pc["toggle"] = "tunnel"
  /\ \/ /\ tunnels' = tunnels \cup {conn["toggle"].n}
        /\ Goes("toggle", "commit")
        /\ UNCHANGED <<client, table>>
     \/ /\ client' = PortWithout(conn["toggle"].n)
        /\ \E refused \in SUBSET (Flaky \cap conn["toggle"].routes) :
             table' = Restored(table, conn["toggle"].routes, refused)
        /\ Goes("toggle", "undo")
        /\ UNCHANGED tunnels
  /\ UNCHANGED <<token, connecting, conn, todo, unprobed, starts,
                 exits, orphans, unpinned>>

(* RemoveHostRoutes, one route of what t holds.  A deletion that Windows   *)
(* refuses is logged and passed over: nobody holds the route any more.     *)
Removes(t, r) ==
  /\ r \in conn[t].routes /\ r = First(conn[t].routes)
  /\ Drops(t, r)
  /\ unpinned' = unpinned \ {r}
  /\ \/ table' = Deleted(table, r) /\ UNCHANGED orphans
     \/ r \in Flaky /\ orphans' = orphans \cup {r} /\ UNCHANGED table

(* After a failure, and the return after it.                               *)
UndoRoute(r) ==
  /\ pc["toggle"] = "undo"
  /\ Removes("toggle", r)
  /\ UNCHANGED <<token, connecting, pc, todo, unprobed, client,
                 tunnels, starts, exits>>

Undone ==
  /\ pc["toggle"] = "undo" /\ conn["toggle"].routes = {}
  /\ GivesUp
  /\ UNCHANGED <<token, todo, unprobed, table, client, tunnels,
                 starts, exits, orphans, unpinned>>

Commit ==
  /\ pc["toggle"] = "commit"
  /\ HandsOver("toggle", "app")
  /\ connecting' = FALSE
  /\ Goes("toggle", "idle")
  /\ UNCHANGED <<token, todo, unprobed, table, client, tunnels,
                 starts, exits, orphans, unpinned>>

-----------------------------------------------------------------------------
(* stopGameMode, for whichever goroutine calls it.                         *)

(* Wrong: the stop reads the app's state without clearing it.              *)
GrabKeeps(t) ==
  /\ pc[t] = "stop"
  /\ Holds(t, conn["app"])
  /\ Goes(t, IF active THEN "stop tunnel" ELSE "report")
  /\ UNCHANGED <<token, connecting, todo, unprobed, table, client,
                 tunnels, starts, exits, orphans, unpinned>>

(* What the app holds is grabbed and cleared in one lock; when it holds    *)
(* nothing there is nothing to do.                                         *)
Grab(t) ==
  /\ pc[t] = "stop"
  /\ HandsOver("app", t)
  /\ Goes(t, IF active THEN "stop tunnel" ELSE "report")
  /\ UNCHANGED <<token, connecting, todo, unprobed, table, client,
                 tunnels, starts, exits, orphans, unpinned>>

StopTunnel(t) ==
  /\ pc[t] = "stop tunnel"
  /\ tunnels' = tunnels \ {conn[t].n}
  /\ Goes(t, "stop client")
  /\ UNCHANGED <<token, connecting, conn, todo, unprobed, table,
                 client, starts, exits, orphans, unpinned>>

StopClient(t) ==
  /\ pc[t] = "stop client"
  /\ client' = PortWithout(conn[t].n)
  /\ Goes(t, "restore")
  /\ UNCHANGED <<token, connecting, conn, todo, unprobed, table,
                 tunnels, starts, exits, orphans, unpinned>>

RestoreMetrics(t) ==
  /\ pc[t] = "restore"
  /\ \E refused \in SUBSET (Flaky \cap conn[t].routes) :
       table' = Restored(table, conn[t].routes, refused)
  /\ Goes(t, "remove")
  /\ UNCHANGED <<token, connecting, conn, todo, unprobed, client,
                 tunnels, starts, exits, orphans, unpinned>>

RemoveRoute(t, r) ==
  /\ pc[t] = "remove"
  /\ Removes(t, r)
  /\ UNCHANGED <<token, connecting, pc, todo, unprobed, client,
                 tunnels, starts, exits>>

Removed(t) ==
  /\ pc[t] = "remove" /\ conn[t].routes = {}
  /\ Holds(t, None)
  /\ Goes(t, "report")
  /\ UNCHANGED <<token, connecting, todo, unprobed, table, client,
                 tunnels, starts, exits, orphans, unpinned>>

(* The interface is told; Toggle returns, and Logout goes on.              *)
Report(t) ==
  /\ pc[t] = "report" /\ t # "shutdown"
  /\ Goes(t, IF t = "logout" THEN "forget" ELSE "idle")
  /\ UNCHANGED <<token, connecting, conn, todo, unprobed, table,
                 client, tunnels, starts, exits, orphans, unpinned>>

(* Logout forgets the token only now, in memory and then in the file.      *)
ForgetToken ==
  /\ pc["logout"] = "forget"
  /\ token' = FALSE
  /\ Goes("logout", "idle")
  /\ UNCHANGED <<connecting, conn, todo, unprobed, table, client, tunnels,
                 starts, exits, orphans, unpinned>>

-----------------------------------------------------------------------------
(* The process ends, after shutdown or killed at any point, and is started *)
(* again.  Sockets and tunnel go with it; the routes of the host and the   *)
(* saved token stay, and the latter is read again.                         *)
Exit ==
  /\ exits < MaxExits
  /\ exits' = exits + 1
  /\ orphans' = Present(table) /\ unpinned' = {}
  /\ connecting' = FALSE
  /\ pc' = [t \in Threads |-> "idle"]
  /\ conn' = [h \in Hands |-> None]
  /\ todo' = {} /\ unprobed' = {}
  /\ client' = 0 /\ tunnels' = {}
  /\ UNCHANGED <<token, table, starts>>

-----------------------------------------------------------------------------
StartStep ==
  \/ Snapshot \/ Fetch \/ RoutesAdded \/ NoneReachable \/ Pin
  \/ SpawnClient \/ StartTunnel \/ Undone \/ Commit
  \/ \E r \in Route : AddRoute(r) \/ UndoRoute(r)
  \/ \E a \in Adapters : ProbeAdapter(a)

StopStep(t) ==
  \/ Grab(t) \/ StopTunnel(t) \/ StopClient(t) \/ RestoreMetrics(t)
  \/ Removed(t) \/ Report(t)
  \/ \E r \in Route : RemoveRoute(t, r)

Next ==
  \/ Login \/ Toggle \/ Logout \/ Shutdown \/ Exit \/ ForgetToken
  \/ StartStep
  \/ \E t \in Threads : StopStep(t)

(* A goroutine in startGameMode goes on: the request has a timeout of 15 s *)
(* (client/api/client.go), probes of 1.5 s, and commands end.              *)
Fairness == WF_vars(StartStep)

Spec == Init /\ [][Next]_vars /\ Fairness

-----------------------------------------------------------------------------
TypeOK ==
  /\ token \in BOOLEAN /\ connecting \in BOOLEAN
  /\ pc \in [Threads -> Places]
  /\ conn \in [Hands -> Connection]
  /\ todo \subseteq Route /\ unprobed \subseteq Adapters
  /\ table \in Table
  /\ client \in 0..MaxStarts /\ tunnels \subseteq 1..MaxStarts
  /\ starts \in 0..MaxStarts /\ exits \in 0..MaxExits
  /\ orphans \subseteq Route /\ unpinned \subseteq Route

(* Every host route that is installed is in one pair of hands, which will  *)
(* remove it, or was left behind.                                          *)
Accounted ==
  \A r \in Route :
    r \in Present(table) <=> \/ r \in orphans
                            \/ \E h \in Hands : r \in conn[h].routes

(* No two hands hold the same route or the same connection.                *)
Apart ==
  /\ \A g, h \in Hands :
       g # h => /\ conn[g].routes \cap conn[h].routes = {}
                /\ conn[g].n = conn[h].n => conn[g].n = 0
  /\ \A h \in Hands : conn[h].routes \cap orphans = {}

(* Hands are empty but where a connection is built or taken down; only     *)
(* Toggle builds.                                                          *)
EmptyInv ==
  /\ \A h \in Hands : conn[h].n = 0 => conn[h] = None
  /\ \A t \in Threads : /\ conn[t].n # 0 <=> pc[t] \in Building \cup Stopping
                        /\ pc[t] \in Connecting \cup {"start"} => t = "toggle"

(* While Toggle connects, the app holds nothing a commit could overwrite.  *)
(* The number of a connection is new.                                      *)
AloneInv ==
  /\ pc["toggle"] \in Connecting \cup {"start"} => conn["app"].n = 0
  /\ \A h \in Hands : conn[h].n <= starts
  /\ pc["toggle"] \in {"start", "fetch"} => \A h \in Hands : conn[h].n < starts

(* Who holds a connection whose tunnel is up, and one whose client runs.   *)
HasTunnel(h) ==
  /\ conn[h].n # 0
  /\ h = "app" \/ pc[h] \in {"commit", "stop tunnel"}

HasClient(h) ==
  /\ conn[h].n # 0
  /\ h = "app" \/ pc[h] \in {"tunnel", "commit", "stop tunnel", "stop client"}

UpInv ==
  /\ \A h \in Hands : HasTunnel(h) => conn[h].n \in tunnels
  /\ \A n \in tunnels : \E h \in Hands : HasTunnel(h) /\ conn[h].n = n
  /\ client # 0 => \E h \in Hands : HasClient(h) /\ conn[h].n = client

IsPinned(h) ==
  conn[h].n # 0 /\ (h = "app" \/ pc[h] \in {"spawn", "tunnel", "commit"})

PinsInv ==
  \A h \in Hands : IsPinned(h) =>
    \A r \in conn[h].routes \ unpinned :
      Host(r) \in UsedHosts(conn[h].paths) =>
        table[r] = PinMetric(conn[h].paths, r)

(* The interface shows "connecting" just while Toggle connects.            *)
ConnectingInv == connecting <=> pc["toggle"] \in Connecting

IInv ==
  TypeOK /\ EmptyInv /\ Accounted /\ Apart /\ AloneInv /\ UpInv
  /\ PinsInv /\ ConnectingInv

AtRest == \A t \in Threads : pc[t] = "idle"

(* Whatever commands overlap and whatever fails half way, when all calls   *)
(* have returned nothing is left of a connection that is not in use: no    *)
(* host route but those whose deletion failed or whose process ended, no   *)
(* tunnel, and no bonding client that keeps the port.                      *)
NoRemnants ==
  AtRest =>
    /\ Present(table) = orphans \cup conn["app"].routes
    /\ tunnels = IF active THEN {conn["app"].n} ELSE {}
    /\ client \in {0, conn["app"].n}

(* The routes of the connection in use keep the metrics PinHostRoutes gave *)
(* them, all but those whose pin Windows refused, although another         *)
(* connection's routes to the same hosts are being changed and removed by  *)
(* an overlapping stop.                                                    *)
PinsKept ==
  active =>
    \A r \in conn["app"].routes \ unpinned :
      Host(r) \in UsedHosts(conn["app"].paths) =>
        table[r] = PinMetric(conn["app"].paths, r)

(* What PinHostRoutes (client/iface/route_windows.go:151) says: each host  *)
(* a path uses stays preferred on the adapter that probed it, for the      *)
(* whole session; here, at least while no call is running.                 *)
PinsStay ==
  AtRest /\ active =>
    LET paths == conn["app"].paths
    IN \A host \in UsedHosts(paths) :
         LET pinned == Adapter(paths[FirstOn(paths, host)])
         IN /\ table[<<host, pinned>>] = Near
            /\ \A a \in Adapters \ {pinned} : table[<<host, a>>] # Near

(* The interface is told of the end of every attempt to connect, whichever *)
(* of the ways it ends: the power button is disabled until then.           *)
ConnectingEnds == connecting ~> ~connecting

(* The controller, with its goroutines, routes and failures, leads the     *)
(* life of one connection that module AppLife tells.                       *)
Life == INSTANCE AppLife WITH
          starting <- connecting,
          stopping <- \E t \in Threads : pc[t] \in Leaving

IsAppLife == Life!Spec
=============================================================================
