---------------------------- MODULE WinAppProofs ----------------------------
(***************************************************************************)
(* WinApp, proved for any hosts, adapters, refused routes and bounds.      *)
(***************************************************************************)
EXTENDS WinApp, TLAPS

(* A route added or deleted is the only one that changes.                  *)
LEMMA AddedDeleted ==
  ASSUME NEW t \in Table, NEW s \in Route
  PROVE  /\ Added(t, s) \in Table /\ Deleted(t, s) \in Table
         /\ Added(t, s)[s] # Absent /\ Deleted(t, s)[s] = Absent
         /\ \A r \in Route \ {s} : /\ Added(t, s)[r] = t[r]
                                   /\ Deleted(t, s)[r] = t[r]
  BY DEF Table, Added, Deleted, Absent, Near, Far

(* The metrics of the routes given change, and no route comes or goes, when *)
(* PinHostRoutes is undone, whichever routes it had changed.               *)
LEMMA RestoredChanges ==
  ASSUME NEW t \in Table, NEW S \in SUBSET Route, NEW F \in SUBSET Route
  PROVE  /\ Restored(t, S, F) \in Table
         /\ \A r \in Route : Restored(t, S, F)[r] = Absent <=> t[r] = Absent
         /\ \A r \in Route \ S : Restored(t, S, F)[r] = t[r]
  BY DEF Table, Restored, Changed, Absent, Near, Far

(* Which goroutines, hands and places there are.                           *)
LEMMA Names ==
  /\ "toggle" \in Threads /\ Threads \subseteq Hands
  /\ "app" \in Hands /\ "app" \notin Threads
  /\ \A h \in Hands : h = "app" \/ h \in Threads
  BY DEF Threads, Hands

(* Nothing is built or taken down at rest and on the way there.            *)
LEMMA RestPlaces ==
  \A p \in {"idle", "start", "stop", "report", "forget"} :
    p \in Places /\ p \notin Connecting /\ p \notin Building /\ p \notin Stopping
  BY DEF Places, Leaving, Connecting, Building, Stopping

(* A stop, its report and the token it forgets are apart from all else.    *)
LEMMA LeavingPlaces ==
  /\ Leaving \subseteq Places
  /\ "report" \in Leaving /\ "forget" \in Leaving /\ "stop tunnel" \in Leaving
  /\ "idle" \notin Leaving /\ "start" \notin Leaving /\ "stop" \notin Leaving
  /\ \A p \in Connecting : p \notin Leaving
  BY DEF Places, Leaving, Connecting, Building, Stopping

(* Fetching connects, but holds nothing yet.                               *)
LEMMA FetchPlace ==
  /\ "fetch" \in Places /\ "fetch" \in Connecting
  /\ "fetch" \notin Building /\ "fetch" \notin Stopping
  BY DEF Places, Leaving, Connecting, Building, Stopping

(* Where Toggle holds what it builds.                                      *)
LEMMA BuildPlaces ==
  \A p \in {"add", "probe", "spawn", "tunnel", "commit", "undo"} :
    p \in Places /\ p \in Connecting /\ p \in Building /\ p \notin Stopping
  BY DEF Places, Leaving, Connecting, Building, Stopping

(* Where a stop holds what it takes down.                                  *)
LEMMA StopPlaces ==
  \A p \in {"stop tunnel", "stop client", "restore", "remove"} :
    p \in Places /\ p \notin Connecting /\ p \notin Building /\ p \in Stopping
  BY DEF Places, Leaving, Connecting, Building, Stopping

(* What connections are made of.                                           *)
LEMMA NoConnection ==
  /\ None \in Connection
  /\ None.n = 0 /\ None.routes = {} /\ None.paths = <<>>
  BY WinAppAssumption DEF None, Connection

(* What each hand holds has the fields of a connection.                    *)
LEMMA Fields ==
  ASSUME TypeOK
  PROVE  /\ starts \in Nat
         /\ \A h \in Hands : /\ conn[h] \in Connection
                             /\ conn[h].n \in Nat /\ conn[h].n \in 0..MaxStarts
                             /\ conn[h].routes \in SUBSET Route
                             /\ conn[h].paths \in Seq(Route)
  <1>1. starts \in Nat
    BY DEF TypeOK
  <1>2. ASSUME NEW h \in Hands
        PROVE  /\ conn[h] \in Connection
               /\ conn[h].n \in Nat /\ conn[h].n \in 0..MaxStarts
               /\ conn[h].routes \in SUBSET Route
               /\ conn[h].paths \in Seq(Route)
    <2>1. conn[h] \in Connection
      BY DEF TypeOK
    <2> QED
      BY <2>1, WinAppAssumption DEF Connection
  <1> QED
    BY <1>1, <1>2

(* A connection with other routes, and one with a path more.               *)
LEMMA RoutesReplaced ==
  ASSUME NEW c \in Connection, NEW S \in SUBSET Route
  PROVE  /\ WithRoutes(c, S) \in Connection
         /\ WithRoutes(c, S).n = c.n
         /\ WithRoutes(c, S).routes = S
         /\ WithRoutes(c, S).paths = c.paths
  BY DEF Connection, WithRoutes

(* A path found is appended to those before it.                            *)
LEMMA PathAdded ==
  ASSUME NEW c \in Connection, NEW r \in Route
  PROVE  /\ WithPath(c, r) \in Connection
         /\ WithPath(c, r).n = c.n
         /\ WithPath(c, r).routes = c.routes
  <1>1. Append(c.paths, r) \in Seq(Route)
    BY DEF Connection
  <1> QED
    BY <1>1 DEF Connection, WithPath

(* One goroutine goes on, the others stay where they are.                  *)
LEMMA GoesThere ==
  ASSUME TypeOK, NEW t \in Threads, NEW p \in Places, Goes(t, p)
  PROVE  /\ pc' \in [Threads -> Places]
         /\ pc'[t] = p
         /\ \A u \in Threads \ {t} : pc'[u] = pc[u]
  BY DEF TypeOK, Goes

(* One connection changes, or changes hands.                               *)
LEMMA HoldsThere ==
  ASSUME TypeOK, NEW h \in Hands, NEW c \in Connection, Holds(h, c)
  PROVE  /\ conn' \in [Hands -> Connection]
         /\ conn'[h] = c
         /\ \A g \in Hands \ {h} : conn'[g] = conn[g]
  BY DEF TypeOK, Holds

(* A connection leaves one hand for another.                               *)
LEMMA HandedOver ==
  ASSUME TypeOK, NEW g \in Hands, NEW h \in Hands \ {g}, HandsOver(g, h)
  PROVE  /\ conn' \in [Hands -> Connection]
         /\ conn'[h] = conn[g] /\ conn'[g] = None
         /\ \A k \in Hands \ {g, h} : conn'[k] = conn[k]
  BY NoConnection DEF TypeOK, HandsOver

(* What a step leaves as it is when the same hands hold the same           *)
(* connections that are up, and when no route of a pinned one changes.     *)
LEMMA UpLeft ==
  ASSUME UpInv, UNCHANGED <<client, tunnels>>,
         \A h \in Hands : /\ HasTunnel(h)' <=> HasTunnel(h)
                          /\ HasClient(h)' <=> HasClient(h)
                          /\ HasClient(h) => conn'[h].n = conn[h].n
  PROVE  UpInv'
  <1>1. \A h \in Hands : HasTunnel(h) => HasClient(h)
    BY DEF HasTunnel, HasClient
  <1> QED
    BY <1>1 DEF UpInv

(* Pinned metrics stay when no route of a pinned connection changes.       *)
LEMMA PinsLeft ==
  ASSUME PinsInv,
         \A h \in Hands : IsPinned(h)' =>
           /\ IsPinned(h) /\ conn'[h].paths = conn[h].paths
           /\ conn'[h].routes \subseteq conn[h].routes
           /\ \A s \in conn'[h].routes :
                table'[s] = table[s] /\ (s \in unpinned => s \in unpinned')
  PROVE  PinsInv'
  BY DEF PinsInv

(* The initial state.                                                      *)
LEMMA InitInvariant == Init => IInv
  <1> SUFFICES ASSUME Init PROVE IInv
    OBVIOUS
  <1>a. table \in Table
    BY DEF Init, Table
  <1>b. pc \in [Threads -> Places] /\ conn \in [Hands -> Connection]
    BY NoConnection, RestPlaces DEF Init
  <1>c. 0 \in 0..MaxStarts /\ 0 \in 0..MaxExits
    BY WinAppAssumption
  <1>1. TypeOK
    BY <1>a, <1>b, <1>c DEF Init, TypeOK
  <1>2. EmptyInv
    BY NoConnection, RestPlaces, Names DEF Init, EmptyInv
  <1>3. Accounted /\ Apart
    BY NoConnection DEF Init, Accounted, Apart, Present
  <1>4. AloneInv
    BY NoConnection, RestPlaces, Names DEF Init, AloneInv
  <1>5. UpInv /\ PinsInv /\ ConnectingInv
    BY NoConnection, RestPlaces, Names
    DEF Init, UpInv, HasTunnel, HasClient, PinsInv, IsPinned, ConnectingInv
  <1> QED
    BY <1>1, <1>2, <1>3, <1>4, <1>5 DEF IInv

(* Login changes the token only.                                           *)
LEMMA LoginStep ==
  ASSUME IInv, Login
  PROVE  IInv'
  <1> USE Names DEF IInv
  <1>1. TypeOK'
    BY DEF Login, TypeOK
  <1>2. EmptyInv'
    BY DEF Login, EmptyInv
  <1>3. Accounted'
    BY DEF Login, Accounted
  <1>4. Apart'
    BY DEF Login, Apart
  <1>5. AloneInv'
    BY DEF Login, AloneInv
  <1>6. UpInv'
    BY DEF Login, UpInv, HasTunnel, HasClient
  <1>7. PinsInv'
    BY DEF Login, PinsInv, IsPinned
  <1>8. ConnectingInv'
    BY DEF Login, ConnectingInv
  <1> QED
    BY <1>1, <1>2, <1>3, <1>4, <1>5, <1>6, <1>7, <1>8

(* Toggle starts or stops by what it reads of active.                      *)
LEMMA ToggleStep ==
  ASSUME IInv, Toggle
  PROVE  IInv'
  <1> USE Names DEF IInv
  <1>a. /\ pc["toggle"] = "idle"
        /\ pc["toggle"] \notin Connecting
        /\ pc["toggle"] \notin Building /\ pc["toggle"] \notin Stopping
    BY RestPlaces DEF Toggle
  <1>b. /\ pc' \in [Threads -> Places]
        /\ \A u \in Threads \ {"toggle"} : pc'[u] = pc[u]
        /\ pc'["toggle"] \notin Connecting
        /\ pc'["toggle"] \notin Building /\ pc'["toggle"] \notin Stopping
    BY GoesThere, RestPlaces DEF Toggle
  <1>c. \/ pc'["toggle"] = "stop" /\ starts' = starts
        \/ /\ pc'["toggle"] = "start" /\ conn["app"].n = 0
           /\ starts < MaxStarts /\ starts' = starts + 1
    BY GoesThere, RestPlaces DEF Toggle, active
  <1>d. starts' \in 0..MaxStarts
    BY <1>c, WinAppAssumption DEF TypeOK
  <1>1. TypeOK'
    BY <1>a, <1>b, <1>c, <1>d DEF Toggle, TypeOK
  <1>2. EmptyInv'
    BY <1>a, <1>b, <1>c, <1>d DEF Toggle, EmptyInv
  <1>3. Accounted'
    BY <1>a, <1>b, <1>c, <1>d DEF Toggle, Accounted
  <1>4. Apart'
    BY <1>a, <1>b, <1>c, <1>d DEF Toggle, Apart
  <1>5. AloneInv'
    BY <1>a, <1>b, <1>c, <1>d, <1>a, <1>b, <1>c, Fields DEF Toggle, AloneInv
  <1>6. UpInv'
    BY <1>a, <1>b, <1>c, <1>d DEF Toggle, UpInv, HasTunnel, HasClient
  <1>7. PinsInv'
    BY <1>a, <1>b, <1>c, <1>d DEF Toggle, PinsInv, IsPinned
  <1>8. ConnectingInv'
    BY <1>a, <1>b, <1>c, <1>d DEF Toggle, ConnectingInv
  <1> QED
    BY <1>1, <1>2, <1>3, <1>4, <1>5, <1>6, <1>7, <1>8

(* Logout goes to its stop.                                                *)
LEMMA LogoutStep ==
  ASSUME IInv, Logout
  PROVE  IInv'
  <1> USE Names DEF IInv
  <1>a. "logout" \in Threads
    BY DEF Threads
  <1>b. /\ pc["logout"] = "idle"
        /\ pc["logout"] \notin Connecting
        /\ pc["logout"] \notin Building /\ pc["logout"] \notin Stopping
    BY RestPlaces DEF Logout
  <1>c. /\ pc' \in [Threads -> Places]
        /\ \A u \in Threads \ {"logout"} : pc'[u] = pc[u]
        /\ pc'["logout"] = "stop"
        /\ pc'["logout"] \notin Connecting
        /\ pc'["logout"] \notin Building /\ pc'["logout"] \notin Stopping
    BY <1>a, GoesThere, RestPlaces DEF Logout
  <1>1. TypeOK'
    BY <1>a, <1>b, <1>c DEF Logout, TypeOK
  <1>2. EmptyInv'
    BY <1>a, <1>b, <1>c DEF Logout, EmptyInv
  <1>3. Accounted'
    BY <1>a, <1>b, <1>c DEF Logout, Accounted
  <1>4. Apart'
    BY <1>a, <1>b, <1>c DEF Logout, Apart
  <1>5. AloneInv'
    BY <1>a, <1>b, <1>c, <1>a, <1>b, <1>c DEF Logout, AloneInv
  <1>6. UpInv'
    BY <1>a, <1>b, <1>c DEF Logout, UpInv, HasTunnel, HasClient
  <1>7. PinsInv'
    BY <1>a, <1>b, <1>c DEF Logout, PinsInv, IsPinned
  <1>8. ConnectingInv'
    BY <1>a, <1>b, <1>c DEF Logout, ConnectingInv
  <1> QED
    BY <1>1, <1>2, <1>3, <1>4, <1>5, <1>6, <1>7, <1>8

(* Shutdown goes to its stop.                                              *)
LEMMA ShutdownStep ==
  ASSUME IInv, Shutdown
  PROVE  IInv'
  <1> USE Names DEF IInv
  <1>a. "shutdown" \in Threads
    BY DEF Threads
  <1>b. /\ pc["shutdown"] = "idle"
        /\ pc["shutdown"] \notin Connecting
        /\ pc["shutdown"] \notin Building /\ pc["shutdown"] \notin Stopping
    BY RestPlaces DEF Shutdown
  <1>c. /\ pc' \in [Threads -> Places]
        /\ \A u \in Threads \ {"shutdown"} : pc'[u] = pc[u]
        /\ pc'["shutdown"] = "stop"
        /\ pc'["shutdown"] \notin Connecting
        /\ pc'["shutdown"] \notin Building /\ pc'["shutdown"] \notin Stopping
    BY <1>a, GoesThere, RestPlaces DEF Shutdown
  <1>1. TypeOK'
    BY <1>a, <1>b, <1>c DEF Shutdown, TypeOK
  <1>2. EmptyInv'
    BY <1>a, <1>b, <1>c DEF Shutdown, EmptyInv
  <1>3. Accounted'
    BY <1>a, <1>b, <1>c DEF Shutdown, Accounted
  <1>4. Apart'
    BY <1>a, <1>b, <1>c DEF Shutdown, Apart
  <1>5. AloneInv'
    BY <1>a, <1>b, <1>c, <1>a, <1>b, <1>c DEF Shutdown, AloneInv
  <1>6. UpInv'
    BY <1>a, <1>b, <1>c DEF Shutdown, UpInv, HasTunnel, HasClient
  <1>7. PinsInv'
    BY <1>a, <1>b, <1>c DEF Shutdown, PinsInv, IsPinned
  <1>8. ConnectingInv'
    BY <1>a, <1>b, <1>c DEF Shutdown, ConnectingInv
  <1> QED
    BY <1>1, <1>2, <1>3, <1>4, <1>5, <1>6, <1>7, <1>8

(* The process ends: every hand is empty, and what is left is left behind. *)
LEMMA ExitStep ==
  ASSUME IInv, Exit
  PROVE  IInv'
  <1> USE Names DEF IInv
  <1>a. /\ pc' = [t \in Threads |-> "idle"]
        /\ conn' = [h \in Hands |-> None]
    BY DEF Exit
  <1>b. \A t \in Threads : pc'[t] \notin Connecting \cup Building \cup Stopping
    BY <1>a, RestPlaces
  <1>c. /\ 0 \in 0..MaxStarts /\ exits' \in 0..MaxExits
        /\ orphans' \subseteq Route /\ unpinned' \subseteq Route
    BY WinAppAssumption DEF Exit, TypeOK, Present
  <1>d. pc' \in [Threads -> Places] /\ conn' \in [Hands -> Connection]
    BY <1>a, NoConnection, RestPlaces
  <1>1. TypeOK'
    BY <1>c, <1>d DEF Exit, TypeOK
  <1>2. EmptyInv'
    BY <1>a, <1>b, <1>c, <1>d, NoConnection DEF Exit, EmptyInv
  <1>3. Accounted'
    BY <1>a, <1>b, <1>c, <1>d, NoConnection DEF Exit, Accounted, Present
  <1>4. Apart'
    BY <1>a, <1>b, <1>c, <1>d, NoConnection DEF Exit, Apart
  <1>5. AloneInv'
    BY <1>a, <1>b, <1>c, <1>d, NoConnection, Fields DEF Exit, AloneInv
  <1>6. UpInv'
    BY <1>a, <1>b, <1>c, <1>d, NoConnection
    DEF Exit, UpInv, HasTunnel, HasClient
  <1>7. PinsInv'
    BY <1>a, <1>b, <1>c, <1>d, NoConnection DEF Exit, PinsInv, IsPinned
  <1>8. ConnectingInv'
    BY <1>a, <1>b, <1>c, <1>d DEF Exit, ConnectingInv
  <1> QED
    BY <1>1, <1>2, <1>3, <1>4, <1>5, <1>6, <1>7, <1>8

(* startGameMode goes on if somebody is signed in.                         *)
LEMMA SnapshotStep ==
  ASSUME IInv, Snapshot
  PROVE  IInv'
  <1> USE Names DEF IInv
  <1>a. /\ pc["toggle"] = "start"
        /\ pc["toggle"] \notin Connecting
        /\ pc["toggle"] \notin Building /\ pc["toggle"] \notin Stopping
    BY RestPlaces DEF Snapshot
  <1>b. /\ pc' \in [Threads -> Places]
        /\ \A u \in Threads \ {"toggle"} : pc'[u] = pc[u]
        /\ pc'["toggle"] \notin Building /\ pc'["toggle"] \notin Stopping
        /\ pc'["toggle"] = "fetch" \/ pc'["toggle"] = "idle"
    BY GoesThere, RestPlaces, FetchPlace DEF Snapshot
  <1>c. conn["toggle"].n = 0 /\ ~connecting
    BY <1>a DEF EmptyInv, ConnectingInv
  <1>d. connecting' <=> pc'["toggle"] = "fetch"
    BY <1>c, GoesThere, RestPlaces, FetchPlace DEF Snapshot
  <1>e. /\ UNCHANGED <<conn, table, client, tunnels, orphans, unpinned, starts>>
    BY DEF Snapshot
  <1>1. TypeOK'
    BY <1>b DEF Snapshot, TypeOK
  <1>2. EmptyInv'
    BY <1>a, <1>b, <1>c, <1>e DEF EmptyInv
  <1>3. Accounted'
    BY <1>e DEF Accounted, Present
  <1>4. Apart'
    BY <1>e DEF Apart
  <1>5. AloneInv'
    BY <1>a, <1>b, <1>e DEF AloneInv
  <1>6. UpInv'
    BY <1>a, <1>b, <1>c, <1>e DEF UpInv, HasTunnel, HasClient
  <1>7. PinsInv'
    BY <1>a, <1>b, <1>c, <1>e DEF PinsInv, IsPinned
  <1>8. ConnectingInv'
    BY <1>b, <1>d, FetchPlace, RestPlaces DEF ConnectingInv
  <1> QED
    BY <1>1, <1>2, <1>3, <1>4, <1>5, <1>6, <1>7, <1>8

(* Toggle holds a connection without routes, or gives up.                  *)
LEMMA FetchStep ==
  ASSUME IInv, Fetch
  PROVE  IInv'
  <1> USE Names DEF IInv
  <1>a. /\ pc["toggle"] = "fetch"
        /\ pc["toggle"] \in Connecting
        /\ pc["toggle"] \notin Building /\ pc["toggle"] \notin Stopping
    BY FetchPlace DEF Fetch
  <1>b. [n |-> starts, routes |-> {}, paths |-> <<>>] \in Connection
    BY WinAppAssumption DEF TypeOK, Connection
  <1>c. conn["toggle"].n = 0 /\ starts # 0
    BY <1>a, Fields DEF AloneInv, EmptyInv
  <1>d. /\ pc' \in [Threads -> Places]
        /\ \A u \in Threads \ {"toggle"} : pc'[u] = pc[u]
    BY GoesThere, BuildPlaces, RestPlaces DEF Fetch, GivesUp
  <1>e. /\ conn' \in [Hands -> Connection]
        /\ \A g \in Hands \ {"toggle"} : conn'[g] = conn[g]
    BY <1>b, NoConnection, HoldsThere DEF Fetch, GivesUp
  <1>f. \/ /\ pc'["toggle"] = "add" /\ pc'["toggle"] \in Building
           /\ pc'["toggle"] \in Connecting /\ connecting'
           /\ conn'["toggle"] = [n |-> starts, routes |-> {}, paths |-> <<>>]
        \/ /\ pc'["toggle"] = "idle" /\ pc'["toggle"] \notin Building
           /\ pc'["toggle"] \notin Stopping /\ ~connecting'
           /\ pc'["toggle"] \notin Connecting
           /\ conn'["toggle"] = None
    BY <1>a, <1>b, NoConnection, GoesThere, HoldsThere, BuildPlaces, RestPlaces
    DEF Fetch, GivesUp, ConnectingInv
  <1>g. /\ conn'["toggle"].routes = {}
        /\ conn'["toggle"].n = starts \/ conn'["toggle"] = None
    BY <1>f, NoConnection
  <1>h. /\ UNCHANGED <<table, client, tunnels, orphans, unpinned, starts>>
        /\ conn["toggle"].routes = {}
    BY <1>c, NoConnection DEF Fetch, EmptyInv
  <1>i. pc'["toggle"] = "add" \/ pc'["toggle"] = "idle"
    BY <1>f
  <1>j. \A h \in Hands : conn[h].n # starts
    BY <1>a, Fields DEF AloneInv
  <1>k. \A h \in Hands : /\ HasTunnel(h)' <=> HasTunnel(h)
                         /\ HasClient(h)' <=> HasClient(h)
                         /\ HasClient(h) => conn'[h].n = conn[h].n
    BY <1>a, <1>c, <1>d, <1>e, <1>i DEF HasTunnel, HasClient
  <1>1. TypeOK'
    BY <1>d, <1>e DEF Fetch, GivesUp, TypeOK
  <1>2. EmptyInv'
    BY <1>a, <1>c, <1>d, <1>e, <1>f, NoConnection DEF EmptyInv
  <1>3. Accounted'
    BY <1>e, <1>g, <1>h DEF Accounted, Present
  <1>4. Apart'
    BY <1>e, <1>g, <1>h, <1>j, NoConnection DEF Apart
  <1>5. AloneInv'
    BY <1>a, <1>c, <1>d, <1>e, <1>f, <1>g, <1>h, NoConnection, Fields
    DEF AloneInv
  <1>6. UpInv'
    BY <1>h, <1>k, UpLeft
  <1>7. PinsInv'
    BY <1>a, <1>d, <1>e, <1>g, <1>h DEF PinsInv, IsPinned
  <1>8. ConnectingInv'
    BY <1>f DEF ConnectingInv
  <1> QED
    BY <1>1, <1>2, <1>3, <1>4, <1>5, <1>6, <1>7, <1>8

(* AddHostRoutes is done with its routes.                                  *)
LEMMA RoutesAddedStep ==
  ASSUME IInv, RoutesAdded
  PROVE  IInv'
  <1> USE Names DEF IInv
  <1>a. /\ pc["toggle"] = "add"
        /\ pc["toggle"] \in Connecting
        /\ pc["toggle"] \in Building /\ pc["toggle"] \notin Stopping
    BY BuildPlaces DEF RoutesAdded
  <1>b. /\ pc' \in [Threads -> Places]
        /\ \A u \in Threads \ {"toggle"} : pc'[u] = pc[u]
        /\ pc'["toggle"] = "probe"
        /\ pc'["toggle"] \in Connecting
        /\ pc'["toggle"] \in Building /\ pc'["toggle"] \notin Stopping
    BY GoesThere, BuildPlaces DEF RoutesAdded
  <1>1. TypeOK'
    BY <1>a, <1>b DEF RoutesAdded, TypeOK
  <1>2. EmptyInv'
    BY <1>a, <1>b DEF RoutesAdded, EmptyInv
  <1>3. Accounted'
    BY <1>a, <1>b DEF RoutesAdded, Accounted
  <1>4. Apart'
    BY <1>a, <1>b DEF RoutesAdded, Apart
  <1>5. AloneInv'
    BY <1>a, <1>b DEF RoutesAdded, AloneInv
  <1>6. UpInv'
    BY <1>a, <1>b DEF RoutesAdded, UpInv, HasTunnel, HasClient
  <1>7. PinsInv'
    BY <1>a, <1>b DEF RoutesAdded, PinsInv, IsPinned
  <1>8. ConnectingInv'
    BY <1>a, <1>b DEF RoutesAdded, ConnectingInv
  <1> QED
    BY <1>1, <1>2, <1>3, <1>4, <1>5, <1>6, <1>7, <1>8

(* No adapter reached a server: the attempt is undone.                     *)
LEMMA NoneReachableStep ==
  ASSUME IInv, NoneReachable
  PROVE  IInv'
  <1> USE Names DEF IInv
  <1>a. /\ pc["toggle"] = "probe"
        /\ pc["toggle"] \in Connecting
        /\ pc["toggle"] \in Building /\ pc["toggle"] \notin Stopping
    BY BuildPlaces DEF NoneReachable
  <1>b. /\ pc' \in [Threads -> Places]
        /\ \A u \in Threads \ {"toggle"} : pc'[u] = pc[u]
        /\ pc'["toggle"] = "undo"
        /\ pc'["toggle"] \in Connecting
        /\ pc'["toggle"] \in Building /\ pc'["toggle"] \notin Stopping
    BY GoesThere, BuildPlaces DEF NoneReachable
  <1>1. TypeOK'
    BY <1>a, <1>b DEF NoneReachable, TypeOK
  <1>2. EmptyInv'
    BY <1>a, <1>b DEF NoneReachable, EmptyInv
  <1>3. Accounted'
    BY <1>a, <1>b DEF NoneReachable, Accounted
  <1>4. Apart'
    BY <1>a, <1>b DEF NoneReachable, Apart
  <1>5. AloneInv'
    BY <1>a, <1>b DEF NoneReachable, AloneInv
  <1>6. UpInv'
    BY <1>a, <1>b DEF NoneReachable, UpInv, HasTunnel, HasClient
  <1>7. PinsInv'
    BY <1>a, <1>b DEF NoneReachable, PinsInv, IsPinned
  <1>8. ConnectingInv'
    BY <1>a, <1>b DEF NoneReachable, ConnectingInv
  <1> QED
    BY <1>1, <1>2, <1>3, <1>4, <1>5, <1>6, <1>7, <1>8

(* A goroutine that goes on building, or goes on taking down, what it      *)
(* holds: hands stay full or empty.                                        *)
LEMMA GoesOn ==
  ASSUME IInv, NEW t \in Threads,
         \/ t = "toggle" /\ pc[t] \in Building /\ pc'[t] \in Building
         \/ pc[t] \in Stopping /\ pc'[t] \in Stopping,
         \A u \in Threads \ {t} : pc'[u] = pc[u],
         \A h \in Hands \ {t} : conn'[h] = conn[h],
         conn'[t].n = conn[t].n,
         UNCHANGED <<starts, connecting>>
  PROVE  EmptyInv' /\ AloneInv' /\ ConnectingInv' /\ conn[t].n # 0
  <1>a. \A p \in Building : p \in Connecting /\ p \notin {"start", "fetch"}
    BY DEF Building, Connecting
  <1>b. \A p \in Stopping : p \notin Connecting /\ p \notin {"start", "fetch"}
    BY DEF Building, Connecting, Stopping
  <1>c. conn[t].n # 0
    BY DEF IInv, EmptyInv
  <1>1. EmptyInv'
    <2>1. \A h \in Hands : conn'[h].n = 0 => conn'[h] = None
      BY <1>c DEF IInv, EmptyInv
    <2>2. ASSUME NEW u \in Threads
          PROVE  /\ conn'[u].n # 0 <=> pc'[u] \in Building \cup Stopping
                 /\ pc'[u] \in Connecting \cup {"start"} => u = "toggle"
      <3>1. CASE u = t
        BY <3>1, <1>b, <1>c
      <3>2. CASE u # t
        BY <3>2, Names DEF IInv, EmptyInv
      <3> QED
        BY <3>1, <3>2
    <2> QED
      BY <2>1, <2>2 DEF EmptyInv
  <1>2. AloneInv'
    <2>1. \A h \in Hands : conn'[h].n = conn[h].n
      OBVIOUS
    <2>2. t # "app" /\ "app" \in Hands
      BY Names
    <2>3. pc'["toggle"] \in Connecting \cup {"start"}
            => pc["toggle"] \in Connecting \cup {"start"}
      BY <1>a, <1>b, Names
    <2>4. pc'["toggle"] \in {"start", "fetch"} => pc["toggle"] = pc'["toggle"]
      BY <1>a, <1>b, Names
    <2> QED
      BY <2>1, <2>2, <2>3, <2>4 DEF IInv, AloneInv
  <1>3. ConnectingInv'
    BY <1>a, <1>b, Names DEF IInv, ConnectingInv
  <1> QED
    BY <1>1, <1>2, <1>3, <1>c

(* The same routes are installed, in the same hands.                       *)
LEMMA RoutesLeft ==
  ASSUME IInv, orphans' = orphans,
         \A h \in Hands : /\ conn'[h].routes = conn[h].routes
                          /\ conn'[h].n = conn[h].n,
         \A s \in Route : table'[s] = Absent <=> table[s] = Absent
  PROVE  Accounted' /\ Apart'
  BY DEF IInv, Accounted, Apart, Present

(* AddHostRoutes, one route: it is in the hands that added it.             *)
LEMMA AddRouteStep ==
  ASSUME IInv, NEW r \in Route, AddRoute(r)
  PROVE  IInv'
  <1> DEFINE c == conn["toggle"]
  <1> USE Names
  <1>a. /\ UNCHANGED <<pc, client, tunnels, orphans, unpinned, starts, connecting>>
        /\ pc["toggle"] = "add" /\ pc["toggle"] \in Building
    BY BuildPlaces DEF AddRoute
  <1>b. TypeOK /\ table \in Table /\ c \in Connection
        /\ c.routes \in SUBSET Route /\ c.routes \cup {r} \in SUBSET Route
    BY Fields DEF IInv, TypeOK
  <1>1. CASE UNCHANGED <<table, conn>>
    <2>1. /\ TypeOK' /\ Accounted' /\ Apart' /\ PinsInv'
      BY <1>a, <1>1 DEF AddRoute, IInv, TypeOK, Accounted, Apart, PinsInv,
         IsPinned, Present
    <2>2. EmptyInv' /\ AloneInv' /\ UpInv' /\ ConnectingInv'
      BY <1>a, <1>1 DEF IInv, EmptyInv, AloneInv, UpInv, HasTunnel,
         HasClient, ConnectingInv
    <2> QED
      BY <2>1, <2>2 DEF IInv
  <1>2. CASE table[r] = Absent /\ table' = Added(table, r) /\ Adds(r)
    <2>1. /\ WithRoutes(c, c.routes \cup {r}) \in Connection
          /\ WithRoutes(c, c.routes \cup {r}).n = c.n
          /\ WithRoutes(c, c.routes \cup {r}).routes = c.routes \cup {r}
      BY <1>b, RoutesReplaced
    <2>2. Holds("toggle", WithRoutes(c, c.routes \cup {r}))
      BY <1>2 DEF Adds
    <2>3. /\ conn' \in [Hands -> Connection]
          /\ conn'["toggle"].n = c.n
          /\ conn'["toggle"].routes = c.routes \cup {r}
          /\ \A h \in Hands \ {"toggle"} : conn'[h] = conn[h]
      BY <1>b, <2>1, <2>2, HoldsThere
    <2>4. /\ table' \in Table /\ table'[r] # Absent
          /\ \A s \in Route \ {r} : table'[s] = table[s]
      BY <1>b, <1>2, AddedDeleted
    <2>5. r \notin orphans /\ \A h \in Hands : r \notin conn[h].routes
      BY <1>2 DEF IInv, Accounted, Present
    <2>6. EmptyInv' /\ AloneInv' /\ ConnectingInv' /\ c.n # 0
      BY <1>a, <2>3, GoesOn
    <2>7. TypeOK'
      BY <1>a, <2>3, <2>4 DEF AddRoute, IInv, TypeOK
    <2>8. Accounted'
      <3> SUFFICES ASSUME NEW s \in Route
                   PROVE  table'[s] # Absent <=>
                            \/ s \in orphans
                            \/ \E h \in Hands : s \in conn'[h].routes
        BY <1>a DEF Accounted, Present
      <3>1. CASE s = r
        BY <3>1, <2>3, <2>4
      <3>2. CASE s # r
        <4>1. \A h \in Hands : s \in conn'[h].routes <=> s \in conn[h].routes
          BY <3>2, <2>3
        <4>2. table'[s] = table[s]
          BY <3>2, <2>4
        <4> QED
          BY <4>1, <4>2 DEF IInv, Accounted, Present
      <3> QED
        BY <3>1, <3>2
    <2>9. Apart'
      BY <1>a, <2>3, <2>5 DEF IInv, Apart
    <2>10. UpInv'
      <3>1. \A h \in Hands : conn'[h].n = conn[h].n
        BY <2>3
      <3>2. \A h \in Hands : /\ HasTunnel(h)' <=> HasTunnel(h)
                             /\ HasClient(h)' <=> HasClient(h)
        BY <1>a, <3>1 DEF HasTunnel, HasClient
      <3> QED
        BY <1>a, <3>1, <3>2, UpLeft DEF IInv
    <2>11. PinsInv'
      <3>1. ASSUME NEW h \in Hands, IsPinned(h)'
            PROVE  /\ IsPinned(h) /\ conn'[h] = conn[h]
                   /\ \A s \in conn'[h].routes : table'[s] = table[s]
        <4>1. h # "toggle"
          BY <1>a, <3>1 DEF IsPinned
        <4>2. conn'[h] = conn[h] /\ conn[h].routes \in SUBSET Route
          BY <4>1, <2>3, <1>b, Fields
        <4>3. IsPinned(h)
          BY <1>a, <3>1, <4>2 DEF IsPinned
        <4> QED
          BY <4>2, <4>3, <2>4, <2>5
      <3> QED
        BY <3>1, <1>a, PinsLeft DEF IInv
    <2> QED
      BY <2>6, <2>7, <2>8, <2>9, <2>10, <2>11 DEF IInv
  <1> QED
    BY <1>1, <1>2 DEF AddRoute

(* A table whose metrics change on routes of one connection that is not    *)
(* pinned, before or after.                                                *)
LEMMA MetricsChanged ==
  ASSUME IInv, NEW t \in Threads, ~IsPinned(t)',
         UNCHANGED <<orphans, unpinned>>,
         \A h \in Hands \ {t} : /\ conn'[h] = conn[h]
                                /\ IsPinned(h)' => IsPinned(h),
         conn'[t].routes = conn[t].routes, conn'[t].n = conn[t].n,
         \A s \in Route : table'[s] = Absent <=> table[s] = Absent,
         \A s \in Route \ conn[t].routes : table'[s] = table[s]
  PROVE  Accounted' /\ Apart' /\ PinsInv'
  <1>1. Accounted' /\ Apart'
    BY RoutesLeft
  <1>2. ASSUME NEW h \in Hands, IsPinned(h)'
        PROVE  /\ IsPinned(h) /\ conn'[h] = conn[h]
               /\ \A s \in conn'[h].routes : table'[s] = table[s]
    <2>1. h # t
      BY <1>2
    <2>2. conn[h].routes \in SUBSET Route
      BY Fields DEF IInv
    <2>3. conn[h].routes \cap conn[t].routes = {}
      BY <2>1, Names DEF IInv, Apart
    <2> QED
      BY <1>2, <2>1, <2>2, <2>3
  <1>3. PinsInv'
    BY <1>2, PinsLeft DEF IInv
  <1> QED
    BY <1>1, <1>3

(* Probe changes metrics of the routes being built only.                   *)
LEMMA ProbeAdapterStep ==
  ASSUME IInv, NEW a \in Adapters, ProbeAdapter(a)
  PROVE  IInv'
  <1> DEFINE c == conn["toggle"]
  <1> USE Names
  <1>a. /\ UNCHANGED <<pc, client, tunnels, orphans, unpinned, starts, connecting>>
        /\ pc["toggle"] = "probe" /\ pc["toggle"] \in Building
    BY BuildPlaces DEF ProbeAdapter
  <1>b. /\ TypeOK /\ table \in Table /\ c \in Connection
        /\ c.routes \in SUBSET Route /\ conn \in [Hands -> Connection]
    BY Fields DEF IInv, TypeOK
  <1>c. /\ conn' \in [Hands -> Connection]
        /\ conn'["toggle"].n = c.n
        /\ conn'["toggle"].routes = c.routes
        /\ \A h \in Hands \ {"toggle"} : conn'[h] = conn[h]
    <2>1. PICK x \in Connection : /\ x.n = c.n /\ x.routes = c.routes
                                  /\ Holds("toggle", x)
      <3>1. CASE UNCHANGED conn
        <4>1. Holds("toggle", c)
          BY <1>b, <3>1 DEF Holds
        <4> QED
          BY <1>b, <4>1
      <3>2. ASSUME NEW host \in Candidates(c.paths),
                   Holds("toggle", WithPath(c, <<host, a>>))
            PROVE  \E x \in Connection : /\ x.n = c.n /\ x.routes = c.routes
                                         /\ Holds("toggle", x)
        <4>1. <<host, a>> \in Route
          BY DEF Candidates, Route
        <4>2. /\ WithPath(c, <<host, a>>) \in Connection
              /\ WithPath(c, <<host, a>>).n = c.n
              /\ WithPath(c, <<host, a>>).routes = c.routes
          BY <1>b, <4>1, PathAdded
        <4> QED
          BY <3>2, <4>2
      <3> QED
        BY <3>1, <3>2 DEF ProbeAdapter
    <2> QED
      BY <1>b, <2>1, HoldsThere
  <1>d. /\ table' \in Table
        /\ \A s \in Route : table'[s] = Absent <=> table[s] = Absent
        /\ \A s \in Route \ c.routes : table'[s] = table[s]
    <2> PICK F \in SUBSET Route : table' = Preferred(table, c.routes, a, F)
      BY <1>b DEF ProbeAdapter
    <2> DEFINE new == Preferred(table, c.routes, a, F)
    <2>1. /\ new \in Table
          /\ \A s \in Route : new[s] = Absent <=> table[s] = Absent
          /\ \A s \in Route \ c.routes : new[s] = table[s]
      BY <1>b DEF Table, Preferred, Changed, Absent, Near, Far
    <2> QED
      BY <2>1
  <1>1. EmptyInv' /\ AloneInv' /\ ConnectingInv'
    BY <1>a, <1>c, GoesOn
  <1>2. TypeOK'
    BY <1>a, <1>c, <1>d DEF ProbeAdapter, IInv, TypeOK
  <1>3. Accounted' /\ Apart' /\ PinsInv'
    <2>1. ~IsPinned("toggle")'
      BY <1>a DEF IsPinned
    <2>2. \A h \in Hands \ {"toggle"} : IsPinned(h)' => IsPinned(h)
      BY <1>a, <1>c DEF IsPinned
    <2> QED
      BY <1>a, <1>c, <1>d, <2>1, <2>2, MetricsChanged
  <1>4. UpInv'
    <2>1. \A h \in Hands : conn'[h].n = conn[h].n
      BY <1>c
    <2>2. \A h \in Hands : /\ HasTunnel(h)' <=> HasTunnel(h)
                           /\ HasClient(h)' <=> HasClient(h)
      BY <1>a, <2>1 DEF HasTunnel, HasClient
    <2> QED
      BY <1>a, <2>1, <2>2, UpLeft DEF IInv
  <1> QED
    BY <1>1, <1>2, <1>3, <1>4 DEF IInv

(* PinHostRoutes sets the metrics of the routes being built.               *)
LEMMA PinStep ==
  ASSUME IInv, Pin
  PROVE  IInv'
  <1> DEFINE c == conn["toggle"]
  <1> USE Names
  <1>a. /\ UNCHANGED <<conn, client, tunnels, orphans, starts, connecting>>
        /\ pc["toggle"] = "probe" /\ pc["toggle"] \in Building
    BY BuildPlaces DEF Pin
  <1>b. /\ TypeOK /\ table \in Table /\ c.routes \in SUBSET Route
        /\ c.paths \in Seq(Route)
    BY Fields DEF IInv, TypeOK
  <1>f. PICK F \in SUBSET Route :
          /\ table' = Pinned(table, c.routes, c.paths, F)
          /\ unpinned' = unpinned \cup {r \in F : Mispinned(table, c.paths, r)}
    BY <1>b DEF Pin
  <1>c. /\ pc' \in [Threads -> Places]
        /\ pc'["toggle"] = "spawn" /\ pc'["toggle"] \in Building
        /\ \A u \in Threads \ {"toggle"} : pc'[u] = pc[u]
    BY <1>b, GoesThere, BuildPlaces DEF Pin
  <1>d. /\ table' \in Table
        /\ \A s \in Route : table'[s] = Absent <=> table[s] = Absent
        /\ \A s \in Route \ c.routes : table'[s] = table[s]
        /\ \A s \in c.routes : Host(s) \in UsedHosts(c.paths) /\ table[s] # Absent
             => table'[s] = PinMetric(c.paths, s) \/ s \in unpinned'
    <2> DEFINE new == Pinned(table, c.routes, c.paths, F)
    <2>1. /\ new \in Table
          /\ \A s \in Route : new[s] = Absent <=> table[s] = Absent
          /\ \A s \in Route \ c.routes : new[s] = table[s]
          /\ \A s \in c.routes :
               Host(s) \in UsedHosts(c.paths) /\ table[s] # Absent
                 => \/ new[s] = PinMetric(c.paths, s)
                    \/ s \in F /\ Mispinned(table, c.paths, s)
      BY <1>b DEF Table, Pinned, Changed, PinMetric, Mispinned, Absent, Near, Far
    <2> QED
      BY <1>f, <2>1
  <1>1. EmptyInv' /\ AloneInv' /\ ConnectingInv'
    BY <1>a, <1>c, GoesOn
  <1>2. TypeOK'
    <2>1. unpinned' \subseteq Route
      BY <1>b, <1>f DEF TypeOK
    <2> QED
      BY <1>a, <1>c, <1>d, <2>1 DEF Pin, IInv, TypeOK
  <1>3. Accounted' /\ Apart'
    BY <1>a, <1>d, RoutesLeft
  <1>4. UpInv'
    <2>1. \A h \in Hands : /\ HasTunnel(h)' <=> HasTunnel(h)
                           /\ HasClient(h)' <=> HasClient(h)
      BY <1>a, <1>c DEF HasTunnel, HasClient
    <2> QED
      BY <1>a, <2>1, UpLeft DEF IInv
  <1>5. PinsInv'
    <2> SUFFICES ASSUME NEW h \in Hands, IsPinned(h)',
                        NEW s \in conn[h].routes \ unpinned',
                        Host(s) \in UsedHosts(conn[h].paths)
                 PROVE  table'[s] = PinMetric(conn[h].paths, s)
      BY <1>a DEF PinsInv
    <2>1. s \in Route
      BY <1>b, Fields
    <2>2. CASE h = "toggle"
      <3>1. table[s] # Absent
        BY <2>1 DEF IInv, Accounted, Present
      <3> QED
        BY <3>1, <2>2, <1>d
    <2>3. CASE h # "toggle"
      <3>1. IsPinned(h)
        BY <2>3, <1>a, <1>c DEF IsPinned
      <3>2. s \notin c.routes
        BY <2>3 DEF IInv, Apart
      <3> QED
        BY <2>1, <3>1, <3>2, <1>d, <1>f DEF IInv, PinsInv
    <2> QED
      BY <2>2, <2>3
  <1> QED
    BY <1>1, <1>2, <1>3, <1>4, <1>5 DEF IInv

(* The bonding client and the tunnel of the connection being built.  Its   *)
(* number is the only one of its kind in the hands.                        *)
LEMMA SpawnClientStep ==
  ASSUME IInv, SpawnClient
  PROVE  IInv'
  <1> DEFINE c == conn["toggle"]
  <1> USE Names
  <1>a. /\ UNCHANGED <<conn, table, tunnels, orphans, unpinned, starts, connecting>>
        /\ pc["toggle"] = "spawn" /\ pc["toggle"] \in Building
        /\ client' = c.n \/ client' = client
    BY BuildPlaces DEF SpawnClient
  <1>b. TypeOK /\ c.n \in 0..MaxStarts
    BY Fields DEF IInv
  <1>c. /\ pc' \in [Threads -> Places]
        /\ pc'["toggle"] = "tunnel" /\ pc'["toggle"] \in Building
        /\ \A u \in Threads \ {"toggle"} : pc'[u] = pc[u]
    BY <1>b, GoesThere, BuildPlaces DEF SpawnClient
  <1>1. EmptyInv' /\ AloneInv' /\ ConnectingInv' /\ c.n # 0
    BY <1>a, <1>c, GoesOn
  <1>2. TypeOK'
    BY <1>a, <1>b, <1>c DEF SpawnClient, IInv, TypeOK
  <1>3. Accounted' /\ Apart' /\ PinsInv'
    <2>1. \A h \in Hands : IsPinned(h)' => IsPinned(h)
      BY <1>a, <1>c DEF IsPinned
    <2> QED
      BY <1>a, <2>1 DEF IInv, Accounted, Apart, Present, PinsInv
  <1>4. UpInv'
    <2>1. \A h \in Hands : /\ HasTunnel(h)' <=> HasTunnel(h)
                           /\ HasClient(h) => HasClient(h)'
      BY <1>a, <1>c DEF HasTunnel, HasClient
    <2>2. HasClient("toggle")'
      BY <1>a, <1>c, <1>1 DEF HasClient
    <2> QED
      BY <1>a, <2>1, <2>2 DEF IInv, UpInv
  <1> QED
    BY <1>1, <1>2, <1>3, <1>4 DEF IInv

(* The tunnel comes up, or the client and the metrics are put back.        *)
LEMMA StartTunnelStep ==
  ASSUME IInv, StartTunnel
  PROVE  IInv'
  <1> DEFINE c == conn["toggle"]
  <1> USE Names
  <1>a. /\ UNCHANGED <<conn, orphans, unpinned, starts, connecting>>
        /\ pc["toggle"] = "tunnel" /\ pc["toggle"] \in Building
    BY BuildPlaces DEF StartTunnel
  <1>b. /\ TypeOK /\ c.n \in 0..MaxStarts /\ table \in Table
        /\ c.routes \in SUBSET Route
    BY Fields DEF IInv, TypeOK
  <1>1. CASE /\ tunnels' = tunnels \cup {c.n}
             /\ Goes("toggle", "commit")
             /\ UNCHANGED <<client, table>>
    <2>1. /\ pc' \in [Threads -> Places]
          /\ pc'["toggle"] = "commit" /\ pc'["toggle"] \in Building
          /\ \A u \in Threads \ {"toggle"} : pc'[u] = pc[u]
      BY <1>1, <1>b, GoesThere, BuildPlaces
    <2>2. EmptyInv' /\ AloneInv' /\ ConnectingInv' /\ c.n # 0
      BY <1>a, <2>1, GoesOn
    <2>3. TypeOK'
      <3>1. c.n \in 1..MaxStarts
        BY <1>b, <2>2
      <3> QED
        BY <1>1, <1>a, <2>1, <3>1 DEF StartTunnel, IInv, TypeOK
    <2>4. Accounted' /\ Apart' /\ PinsInv'
      <3>1. \A h \in Hands : IsPinned(h)' => IsPinned(h)
        BY <1>a, <2>1 DEF IsPinned
      <3> QED
        BY <1>1, <1>a, <3>1 DEF IInv, Accounted, Apart, Present, PinsInv
    <2>5. UpInv'
      <3>1. \A h \in Hands : /\ HasTunnel(h) => HasTunnel(h)'
                             /\ HasTunnel(h)' => HasTunnel(h) \/ h = "toggle"
                             /\ HasClient(h) <=> HasClient(h)'
        BY <1>a, <2>1 DEF HasTunnel, HasClient
      <3>2. HasTunnel("toggle")'
        BY <1>a, <2>1, <2>2 DEF HasTunnel
      <3> QED
        BY <1>1, <1>a, <3>1, <3>2 DEF IInv, UpInv
    <2> QED
      BY <2>2, <2>3, <2>4, <2>5 DEF IInv
  <1>2. CASE /\ client' = PortWithout(c.n)
             /\ \E F \in SUBSET Route : table' = Restored(table, c.routes, F)
             /\ Goes("toggle", "undo")
             /\ UNCHANGED tunnels
    <2>1. /\ pc' \in [Threads -> Places]
          /\ pc'["toggle"] = "undo" /\ pc'["toggle"] \in Building
          /\ \A u \in Threads \ {"toggle"} : pc'[u] = pc[u]
      BY <1>2, <1>b, GoesThere, BuildPlaces
    <2>2. EmptyInv' /\ AloneInv' /\ ConnectingInv'
      BY <1>a, <2>1, GoesOn
    <2>3. /\ table' \in Table
          /\ \A s \in Route : table'[s] = Absent <=> table[s] = Absent
          /\ \A s \in Route \ c.routes : table'[s] = table[s]
      <3> PICK F \in SUBSET Route : table' = Restored(table, c.routes, F)
        BY <1>2
      <3> DEFINE new == Restored(table, c.routes, F)
      <3>1. /\ new \in Table
            /\ \A s \in Route : new[s] = Absent <=> table[s] = Absent
            /\ \A s \in Route \ c.routes : new[s] = table[s]
        BY <1>b, RestoredChanges
      <3> QED
        BY <3>1
    <2>4. client' = 0 \/ (client' = client /\ client # c.n)
      BY <1>2 DEF PortWithout
    <2>5. TypeOK'
      BY <1>2, <1>a, <2>1, <2>3, <2>4, WinAppAssumption
         DEF StartTunnel, IInv, TypeOK
    <2>6. Accounted' /\ Apart' /\ PinsInv'
      <3>1. ~IsPinned("toggle")'
        BY <2>1 DEF IsPinned
      <3>2. \A h \in Hands \ {"toggle"} : IsPinned(h)' => IsPinned(h)
        BY <1>a, <2>1 DEF IsPinned
      <3> QED
        BY <1>a, <2>3, <3>1, <3>2, MetricsChanged
    <2>7. UpInv'
      <3>1. \A h \in Hands :
              /\ HasTunnel(h) <=> HasTunnel(h)'
              /\ HasClient(h) => HasClient(h)' \/ conn[h].n = c.n
        BY <1>a, <2>1 DEF HasTunnel, HasClient
      <3> QED
        BY <1>2, <1>a, <2>4, <3>1 DEF IInv, UpInv
    <2> QED
      BY <2>2, <2>5, <2>6, <2>7 DEF IInv
  <1> QED
    BY <1>1, <1>2, <1>b DEF StartTunnel

(* RemoveHostRoutes, one route, after a failure or in a stop.              *)
LEMMA RouteRemoved ==
  ASSUME IInv, NEW t \in Threads, NEW r \in Route, r \in conn[t].routes,
         \/ t = "toggle" /\ pc[t] = "undo"
         \/ pc[t] = "remove",
         Removes(t, r),
         UNCHANGED <<token, connecting, pc, todo, unprobed, client, tunnels,
                     starts, exits>>
  PROVE  IInv'
  <1> DEFINE c == conn[t]
  <1> USE Names
  <1>a. \/ t = "toggle" /\ pc[t] \in Building
        \/ pc[t] \in Stopping
    BY BuildPlaces, StopPlaces
  <1>b. /\ TypeOK /\ table \in Table /\ c \in Connection
        /\ c.routes \ {r} \in SUBSET Route
    BY Fields DEF IInv, TypeOK
  <1>c. /\ conn' \in [Hands -> Connection]
        /\ conn'[t].n = c.n
        /\ conn'[t].routes = c.routes \ {r}
        /\ \A h \in Hands \ {t} : conn'[h] = conn[h]
    <2>1. /\ WithRoutes(c, c.routes \ {r}) \in Connection
          /\ WithRoutes(c, c.routes \ {r}).n = c.n
          /\ WithRoutes(c, c.routes \ {r}).routes = c.routes \ {r}
      BY <1>b, RoutesReplaced
    <2>2. Holds(t, WithRoutes(c, c.routes \ {r}))
      BY DEF Removes, Drops
    <2> QED
      BY <1>b, <2>1, <2>2, HoldsThere
  <1>d. /\ table' \in Table /\ orphans' \subseteq Route
        /\ table'[r] # Absent <=> r \in orphans'
        /\ \A s \in Route \ {r} : /\ table'[s] = table[s]
                                  /\ s \in orphans' <=> s \in orphans
        /\ unpinned' = unpinned \ {r}
    <2>1. table[r] # Absent /\ orphans \subseteq Route /\ r \notin orphans
      BY Names DEF IInv, Accounted, Apart, Present, TypeOK
    <2>2. \/ table' = Deleted(table, r) /\ orphans' = orphans
          \/ table' = table /\ orphans' = orphans \cup {r}
      BY DEF Removes
    <2>3. unpinned' = unpinned \ {r}
      BY DEF Removes
    <2>4. /\ Deleted(table, r) \in Table /\ Deleted(table, r)[r] = Absent
          /\ \A s \in Route \ {r} : Deleted(table, r)[s] = table[s]
      BY <1>b, AddedDeleted
    <2> QED
      BY <1>b, <2>1, <2>2, <2>3, <2>4
  <1>e. r \notin orphans /\ \A h \in Hands \ {t} : r \notin conn[h].routes
    BY DEF IInv, Apart
  <1>1. EmptyInv' /\ AloneInv' /\ ConnectingInv'
    BY <1>a, <1>c, GoesOn
  <1>2. TypeOK'
    BY <1>c, <1>d DEF IInv, TypeOK
  <1>3. Accounted'
    <2> SUFFICES ASSUME NEW s \in Route
                 PROVE  table'[s] # Absent <=>
                          \/ s \in orphans'
                          \/ \E h \in Hands : s \in conn'[h].routes
      BY DEF Accounted, Present
    <2>1. CASE s = r
      BY <2>1, <1>c, <1>d, <1>e
    <2>2. CASE s # r
      <3>1. \A h \in Hands : s \in conn'[h].routes <=> s \in conn[h].routes
        BY <2>2, <1>c
      <3>2. table'[s] = table[s]
        BY <2>2, <1>d
      <3> QED
        BY <2>2, <3>1, <3>2, <1>d DEF IInv, Accounted, Present
    <2> QED
      BY <2>1, <2>2
  <1>4. Apart'
    <2>1. \A h \in Hands : /\ conn'[h].n = conn[h].n
                           /\ conn'[h].routes \subseteq conn[h].routes \ {r}
                           /\ conn[h].routes \in SUBSET Route
      BY <1>b, <1>c, <1>e, Fields
    <2>2. \A h \in Hands : conn'[h].routes \cap orphans' = {}
      BY <2>1, <1>d DEF IInv, Apart
    <2> QED
      BY <2>1, <2>2 DEF IInv, Apart
  <1>5. UpInv'
    <2>1. \A h \in Hands : conn'[h].n = conn[h].n
      BY <1>c
    <2>2. \A h \in Hands : /\ HasTunnel(h)' <=> HasTunnel(h)
                           /\ HasClient(h)' <=> HasClient(h)
      BY <2>1 DEF HasTunnel, HasClient
    <2> QED
      BY <2>1, <2>2, UpLeft DEF IInv
  <1>6. PinsInv'
    <2>1. ASSUME NEW h \in Hands, IsPinned(h)'
          PROVE  /\ IsPinned(h) /\ conn'[h] = conn[h]
                 /\ \A s \in conn'[h].routes :
                      table'[s] = table[s] /\ (s \in unpinned => s \in unpinned')
      <3>1. h # t
        BY <2>1 DEF IsPinned
      <3>2. conn'[h] = conn[h] /\ conn[h].routes \in SUBSET Route
        BY <3>1, <1>b, <1>c, Fields
      <3>3. IsPinned(h)
        BY <2>1, <3>2 DEF IsPinned
      <3> QED
        BY <3>1, <3>2, <3>3, <1>d, <1>e
    <2> QED
      BY <2>1, PinsLeft DEF IInv
  <1> QED
    BY <1>1, <1>2, <1>3, <1>4, <1>5, <1>6 DEF IInv

(* A route removed after a failure.                                        *)
LEMMA UndoRouteStep ==
  ASSUME IInv, NEW r \in Route, UndoRoute(r)
  PROVE  IInv'
  BY Names, RouteRemoved DEF UndoRoute, Removes

(* A route removed in a stop.                                              *)
LEMMA RemoveRouteStep ==
  ASSUME IInv, NEW t \in Threads, NEW r \in Route, RemoveRoute(t, r)
  PROVE  IInv'
  BY RouteRemoved DEF RemoveRoute, Removes

(* Hands whose connection is gone, with all its routes: those of an        *)
(* attempt given up, and those of a stop that is done.                     *)
LEMMA Emptied ==
  ASSUME IInv, NEW t \in Threads,
         conn[t].routes = {}, ~HasClient(t),
         Holds(t, None),
         Goes(t, "idle") \/ Goes(t, "report"),
         pc[t] # "idle",
         t = "toggle" => ~connecting',
         t # "toggle" => connecting' = connecting,
         UNCHANGED <<table, client, tunnels, orphans, unpinned, starts>>
  PROVE  /\ EmptyInv' /\ Accounted' /\ Apart' /\ AloneInv' /\ UpInv'
         /\ PinsInv' /\ ConnectingInv'
         /\ pc' \in [Threads -> Places] /\ conn' \in [Hands -> Connection]
  <1> USE Names
  <1>a. TypeOK
    BY DEF IInv
  <1>b. /\ conn' \in [Hands -> Connection] /\ conn'[t] = None
        /\ \A h \in Hands \ {t} : conn'[h] = conn[h]
    BY <1>a, NoConnection, HoldsThere
  <1>c. /\ pc' \in [Threads -> Places]
        /\ pc'[t] \in {"idle", "report"}
        /\ \A u \in Threads \ {t} : pc'[u] = pc[u]
    BY <1>a, GoesThere, RestPlaces
  <1>d. /\ pc'[t] \notin Connecting /\ pc'[t] \notin Building
        /\ pc'[t] \notin Stopping /\ pc'[t] \notin {"start", "fetch"}
    BY <1>c, RestPlaces
  <1>e. None.n = 0 /\ None.routes = {}
    BY NoConnection
  <1>1. EmptyInv'
    BY <1>b, <1>c, <1>d, <1>e DEF IInv, EmptyInv
  <1>2. Accounted' /\ Apart'
    <2>1. \A h \in Hands : /\ conn'[h].routes = conn[h].routes
                           /\ conn'[h].n = conn[h].n \/ conn'[h].n = 0
      BY <1>b, <1>e
    <2> QED
      BY <2>1 DEF IInv, Accounted, Apart, Present
  <1>3. AloneInv'
    <2>1. \A h \in Hands : conn'[h].n = conn[h].n \/ conn'[h] = None
      BY <1>b
    <2>2. \A h \in Hands : h # t => conn'[h].n = conn[h].n
      BY <1>b
    <2>3. \A h \in Hands : conn[h].n \in Nat
      BY <1>a, Fields
    <2>4. starts \in Nat
      BY <1>a, Fields
    <2>5. pc'["toggle"] \in Connecting \cup {"start"} => pc'["toggle"] = pc["toggle"]
      BY <1>c, <1>d
    <2>6. pc'["toggle"] \in {"start", "fetch"} =>
            pc'["toggle"] = pc["toggle"] /\ t # "toggle" /\ conn["toggle"].n = 0
      BY <1>c, <1>d, RestPlaces, FetchPlace DEF IInv, EmptyInv
    <2>7. pc'["toggle"] \in Connecting \cup {"start"} => conn'["app"].n = 0
      BY <2>5, <2>2 DEF IInv, AloneInv
    <2>8. \A h \in Hands : conn'[h].n <= starts
      BY <2>1, <2>3, <2>4, <1>e DEF IInv, AloneInv
    <2>9. pc'["toggle"] \in {"start", "fetch"} =>
            \A h \in Hands : conn'[h].n < starts
      <3> SUFFICES ASSUME pc'["toggle"] \in {"start", "fetch"}, NEW h \in Hands
                   PROVE  conn'[h].n < starts
        OBVIOUS
      <3>1. \A g \in Hands : conn[g].n < starts
        BY <2>6 DEF IInv, AloneInv
      <3>2. 0 < starts
        BY <3>1, <2>6
      <3> QED
        BY <3>1, <3>2, <2>1, <1>e
    <2> QED
      BY <2>7, <2>8, <2>9 DEF AloneInv
  <1>4. UpInv'
    <2>1. \A h \in Hands : HasTunnel(h) => HasClient(h)
      BY DEF HasTunnel, HasClient
    <2>2. ~HasTunnel(t) /\ ~HasTunnel(t)' /\ ~HasClient(t)'
      BY <2>1, <1>b, <1>e DEF HasTunnel, HasClient
    <2>3. \A h \in Hands \ {t} : /\ HasTunnel(h)' <=> HasTunnel(h)
                                 /\ HasClient(h)' <=> HasClient(h)
      BY <1>b, <1>c DEF HasTunnel, HasClient
    <2> QED
      BY <1>b, <2>2, <2>3 DEF IInv, UpInv
  <1>5. PinsInv'
    <2>1. ~IsPinned(t)'
      BY <1>b, <1>e DEF IsPinned
    <2>2. \A h \in Hands \ {t} : IsPinned(h)' => IsPinned(h)
      BY <1>b, <1>c DEF IsPinned
    <2> QED
      BY <1>b, <2>1, <2>2 DEF IInv, PinsInv
  <1>6. ConnectingInv'
    BY <1>c, <1>d DEF IInv, ConnectingInv
  <1> QED
    BY <1>b, <1>c, <1>1, <1>2, <1>3, <1>4, <1>5, <1>6

(* The attempt is over when its last route is gone.                        *)
LEMMA UndoneStep ==
  ASSUME IInv, Undone
  PROVE  IInv'
  <1> USE Names
  <1>a. /\ conn["toggle"].routes = {} /\ pc["toggle"] = "undo"
        /\ Holds("toggle", None) /\ Goes("toggle", "idle")
        /\ connecting' = FALSE
        /\ UNCHANGED <<table, client, tunnels, orphans, unpinned, starts>>
    BY DEF Undone, GivesUp
  <1>b. ~HasClient("toggle")
    BY <1>a DEF HasClient
  <1>1. /\ EmptyInv' /\ Accounted' /\ Apart' /\ AloneInv' /\ UpInv'
        /\ PinsInv' /\ ConnectingInv'
        /\ pc' \in [Threads -> Places] /\ conn' \in [Hands -> Connection]
    BY <1>a, <1>b, Emptied
  <1>2. TypeOK'
    BY <1>1, <1>a DEF Undone, IInv, TypeOK
  <1> QED
    BY <1>1, <1>2 DEF IInv

(* The stop is over when its last route is gone.                           *)
LEMMA RemovedStep ==
  ASSUME IInv, NEW t \in Threads, Removed(t)
  PROVE  IInv'
  <1> USE Names
  <1>a. /\ conn[t].routes = {} /\ pc[t] = "remove"
        /\ Holds(t, None) /\ Goes(t, "report")
        /\ UNCHANGED <<table, client, tunnels, orphans, unpinned, starts, connecting>>
    BY DEF Removed
  <1>b. ~HasClient(t)
    BY <1>a DEF HasClient
  <1>c. t = "toggle" => ~connecting
    BY <1>a, StopPlaces DEF IInv, ConnectingInv
  <1>1. /\ EmptyInv' /\ Accounted' /\ Apart' /\ AloneInv' /\ UpInv'
        /\ PinsInv' /\ ConnectingInv'
        /\ pc' \in [Threads -> Places] /\ conn' \in [Hands -> Connection]
    BY <1>a, <1>b, <1>c, Emptied
  <1>2. TypeOK'
    BY <1>1, <1>a DEF Removed, IInv, TypeOK
  <1> QED
    BY <1>1, <1>2 DEF IInv

(* The commit gives what was built to the app, which held nothing.         *)
LEMMA CommitStep ==
  ASSUME IInv, Commit
  PROVE  IInv'
  <1> USE Names
  <1>a. /\ UNCHANGED <<table, client, tunnels, orphans, unpinned, starts>>
        /\ pc["toggle"] = "commit" /\ pc["toggle"] \in Building
        /\ pc["toggle"] \in Connecting
        /\ ~connecting'
    BY BuildPlaces DEF Commit
  <1>b. TypeOK
    BY DEF IInv
  <1>c. /\ conn' \in [Hands -> Connection]
        /\ conn'["app"] = conn["toggle"] /\ conn'["toggle"] = None
        /\ \A h \in Hands \ {"toggle", "app"} : conn'[h] = conn[h]
    BY <1>b, HandedOver DEF Commit
  <1>d. /\ pc' \in [Threads -> Places]
        /\ pc'["toggle"] = "idle" /\ pc'["toggle"] \notin Connecting
        /\ pc'["toggle"] \notin Building /\ pc'["toggle"] \notin Stopping
        /\ \A u \in Threads \ {"toggle"} : pc'[u] = pc[u]
    BY <1>b, GoesThere, RestPlaces DEF Commit
  <1>e. None.n = 0 /\ None.routes = {}
    BY NoConnection
  <1>f. conn["app"] = None
    BY <1>a DEF IInv, EmptyInv, AloneInv
  <1>g. \A h \in Hands : conn[h].n \in Nat /\ starts \in Nat
    BY <1>b, Fields
  <1>1. TypeOK'
    BY <1>a, <1>c, <1>d DEF Commit, IInv, TypeOK
  <1>2. EmptyInv'
    BY <1>c, <1>d, <1>e DEF IInv, EmptyInv
  <1>3. Accounted'
    <2>1. ASSUME NEW s \in Route
          PROVE  (\E h \in Hands : s \in conn'[h].routes)
                   <=> \E h \in Hands : s \in conn[h].routes
      BY <1>c, <1>e, <1>f
    <2> QED
      BY <2>1, <1>a DEF IInv, Accounted, Present
  <1>4. Apart'
    BY <1>a, <1>c, <1>e DEF IInv, Apart
  <1>5. AloneInv'
    <2>1. \A h \in Hands : conn'[h].n <= starts
      BY <1>c, <1>e, <1>g DEF IInv, AloneInv
    <2> QED
      BY <2>1, <1>a, <1>d, RestPlaces DEF AloneInv
  <1>6. UpInv'
    <2>1. /\ conn["toggle"].n # 0 => HasTunnel("app")' /\ HasClient("app")'
          /\ HasTunnel("app")' => HasTunnel("toggle")
          /\ ~HasTunnel("app") /\ ~HasClient("app")
          /\ ~HasTunnel("toggle")'
      BY <1>a, <1>c, <1>e, <1>f DEF HasTunnel, HasClient
    <2>2. \A h \in Hands \ {"toggle", "app"} :
            /\ HasTunnel(h)' <=> HasTunnel(h)
            /\ HasClient(h)' <=> HasClient(h)
      BY <1>c, <1>d DEF HasTunnel, HasClient
    <2>3. /\ HasTunnel("toggle") => HasTunnel("app")'
          /\ HasClient("toggle") => HasClient("app")'
      BY <2>1 DEF HasTunnel, HasClient
    <2>4. \A h \in Hands : HasTunnel(h)' => conn'[h].n \in tunnels'
      BY <1>a, <1>c, <2>1, <2>2 DEF IInv, UpInv
    <2>5. \A n \in tunnels' : \E h \in Hands : HasTunnel(h)' /\ conn'[h].n = n
      BY <1>a, <1>c, <2>1, <2>2, <2>3 DEF IInv, UpInv
    <2>6. client' # 0 =>
            \E h \in Hands : HasClient(h)' /\ conn'[h].n = client'
      BY <1>a, <1>c, <2>1, <2>2, <2>3 DEF IInv, UpInv
    <2> QED
      BY <2>4, <2>5, <2>6 DEF UpInv
  <1>7. PinsInv'
    <2>1. IsPinned("app")' => IsPinned("toggle")
      BY <1>a, <1>c DEF IsPinned
    <2>2. ~IsPinned("toggle")'
      BY <1>c, <1>e DEF IsPinned
    <2>3. \A h \in Hands \ {"toggle", "app"} : IsPinned(h)' => IsPinned(h)
      BY <1>c, <1>d DEF IsPinned
    <2> QED
      BY <1>a, <1>c, <2>1, <2>2, <2>3 DEF IInv, PinsInv
  <1>8. ConnectingInv'
    BY <1>a, <1>d DEF ConnectingInv
  <1> QED
    BY <1>1, <1>2, <1>3, <1>4, <1>5, <1>6, <1>7, <1>8 DEF IInv

(* A stop takes what the app holds, which may be nothing.                  *)
LEMMA GrabStep ==
  ASSUME IInv, NEW t \in Threads, Grab(t)
  PROVE  IInv'
  <1> USE Names
  <1>a. /\ UNCHANGED <<table, client, tunnels, orphans, unpinned, starts, connecting>>
        /\ pc[t] = "stop" /\ pc[t] \notin Building /\ pc[t] \notin Stopping
        /\ pc[t] \notin Connecting
    BY RestPlaces DEF Grab
  <1>b. TypeOK
    BY DEF IInv
  <1>c. /\ conn' \in [Hands -> Connection]
        /\ conn'[t] = conn["app"] /\ conn'["app"] = None
        /\ \A h \in Hands \ {t, "app"} : conn'[h] = conn[h]
    BY <1>b, HandedOver DEF Grab
  <1>d. /\ pc' \in [Threads -> Places]
        /\ pc'[t] = IF active THEN "stop tunnel" ELSE "report"
        /\ \A u \in Threads \ {t} : pc'[u] = pc[u]
    BY <1>b, GoesThere, RestPlaces, StopPlaces DEF Grab
  <1>e. None.n = 0 /\ None.routes = {}
    BY NoConnection
  <1>f. conn[t] = None /\ conn[t].n = 0
    BY <1>a DEF IInv, EmptyInv
  <1>g. \A h \in Hands : conn[h].n \in Nat /\ starts \in Nat
    BY <1>b, Fields
  <1>h. /\ pc'[t] \notin Building /\ pc'[t] \notin Connecting
        /\ pc'[t] # "start" /\ pc'[t] # "fetch"
        /\ pc'[t] \in Stopping <=> conn["app"].n # 0
        /\ conn["app"].n # 0 => pc'[t] = "stop tunnel"
        /\ ~IsPinned(t)'
    BY <1>d, RestPlaces, StopPlaces DEF active, IsPinned
  <1>1. TypeOK'
    BY <1>a, <1>c, <1>d DEF Grab, IInv, TypeOK
  <1>2. EmptyInv'
    BY <1>c, <1>d, <1>e, <1>h DEF IInv, EmptyInv
  <1>3. Accounted'
    <2>1. ASSUME NEW s \in Route
          PROVE  (\E h \in Hands : s \in conn'[h].routes)
                   <=> \E h \in Hands : s \in conn[h].routes
      BY <1>c, <1>e, <1>f
    <2> QED
      BY <2>1, <1>a DEF IInv, Accounted, Present
  <1>4. Apart'
    BY <1>a, <1>c, <1>e DEF IInv, Apart
  <1>5. AloneInv'
    <2>1. \A h \in Hands : conn'[h].n = 0 \/ \E g \in Hands : conn'[h].n = conn[g].n
      BY <1>c, <1>e
    <2>2. \A h \in Hands : conn'[h].n <= starts
      BY <2>1, <1>a, <1>g DEF IInv, AloneInv
    <2>3. pc'["toggle"] \in {"start", "fetch"} => pc["toggle"] = pc'["toggle"]
      BY <1>d, <1>h
    <2>4. pc'["toggle"] \in {"start", "fetch"} =>
            \A h \in Hands : conn'[h].n < starts
      <3> SUFFICES ASSUME pc'["toggle"] \in {"start", "fetch"}, NEW h \in Hands
                   PROVE  conn'[h].n < starts
        OBVIOUS
      <3>1. \A g \in Hands : conn[g].n < starts
        BY <2>3 DEF IInv, AloneInv
      <3> QED
        BY <3>1, <2>1, <1>g
    <2> QED
      BY <2>2, <2>4, <1>a, <1>c, <1>e DEF AloneInv
  <1>6. UpInv'
    <2>1. /\ HasTunnel("app") => HasTunnel(t)'
          /\ HasClient("app") => HasClient(t)'
          /\ HasTunnel(t)' => HasTunnel("app")
          /\ ~HasTunnel(t) /\ ~HasClient(t)
          /\ ~HasTunnel("app")'
      BY <1>c, <1>e, <1>f, <1>h DEF HasTunnel, HasClient
    <2>2. \A h \in Hands \ {t, "app"} :
            /\ HasTunnel(h)' <=> HasTunnel(h)
            /\ HasClient(h)' <=> HasClient(h)
      BY <1>c, <1>d DEF HasTunnel, HasClient
    <2>4. \A h \in Hands : HasTunnel(h)' => conn'[h].n \in tunnels'
      BY <1>a, <1>c, <2>1, <2>2 DEF IInv, UpInv
    <2>5. \A n \in tunnels' : \E h \in Hands : HasTunnel(h)' /\ conn'[h].n = n
      BY <1>a, <1>c, <2>1, <2>2 DEF IInv, UpInv
    <2>6. client' # 0 =>
            \E h \in Hands : HasClient(h)' /\ conn'[h].n = client'
      BY <1>a, <1>c, <2>1, <2>2 DEF IInv, UpInv
    <2> QED
      BY <2>4, <2>5, <2>6 DEF UpInv
  <1>7. PinsInv'
    <2>1. ~IsPinned("app")'
      BY <1>c, <1>e DEF IsPinned
    <2>2. \A h \in Hands \ {t, "app"} : IsPinned(h)' => IsPinned(h)
      BY <1>c, <1>d DEF IsPinned
    <2> QED
      BY <1>a, <1>c, <1>h, <2>1, <2>2 DEF IInv, PinsInv
  <1>8. ConnectingInv'
    BY <1>a, <1>d, <1>h DEF IInv, ConnectingInv
  <1> QED
    BY <1>1, <1>2, <1>3, <1>4, <1>5, <1>6, <1>7, <1>8 DEF IInv

(* The other steps of a stop.  Tunnel and client go with the number of the *)
(* connection in hand, which no other hands have.                          *)
LEMMA StopTunnelStep ==
  ASSUME IInv, NEW t \in Threads, StopTunnel(t)
  PROVE  IInv'
  <1> USE Names
  <1>a. /\ UNCHANGED <<conn, table, client, orphans, unpinned, starts, connecting>>
        /\ pc[t] = "stop tunnel" /\ pc[t] \in Stopping
        /\ tunnels' = tunnels \ {conn[t].n}
    BY StopPlaces DEF StopTunnel
  <1>b. TypeOK
    BY DEF IInv
  <1>c. /\ pc' \in [Threads -> Places]
        /\ pc'[t] = "stop client" /\ pc'[t] \in Stopping
        /\ \A u \in Threads \ {t} : pc'[u] = pc[u]
    BY <1>b, GoesThere, StopPlaces DEF StopTunnel
  <1>1. EmptyInv' /\ AloneInv' /\ ConnectingInv'
    BY <1>a, <1>c, GoesOn
  <1>2. TypeOK'
    BY <1>a, <1>c DEF StopTunnel, IInv, TypeOK
  <1>3. Accounted' /\ Apart' /\ PinsInv'
    <2>1. \A h \in Hands : IsPinned(h)' => IsPinned(h)
      BY <1>a, <1>c DEF IsPinned
    <2> QED
      BY <1>a, <2>1 DEF IInv, Accounted, Apart, Present, PinsInv
  <1>4. UpInv'
    <2>1. \A h \in Hands : HasClient(h)' <=> HasClient(h)
      BY <1>a, <1>c DEF HasClient
    <2>2. ~HasTunnel(t)'
      BY <1>c DEF HasTunnel
    <2>3. \A h \in Hands \ {t} : HasTunnel(h)' <=> HasTunnel(h)
      BY <1>a, <1>c DEF HasTunnel
    <2>4. \A h \in Hands \ {t} : HasTunnel(h) => conn[h].n # conn[t].n
      BY DEF IInv, Apart, HasTunnel
    <2> QED
      BY <1>a, <2>1, <2>2, <2>3, <2>4 DEF IInv, UpInv
  <1> QED
    BY <1>1, <1>2, <1>3, <1>4 DEF IInv

(* The client's port is given back.                                        *)
LEMMA StopClientStep ==
  ASSUME IInv, NEW t \in Threads, StopClient(t)
  PROVE  IInv'
  <1> USE Names
  <1>a. /\ UNCHANGED <<conn, table, tunnels, orphans, unpinned, starts, connecting>>
        /\ pc[t] = "stop client" /\ pc[t] \in Stopping
        /\ client' = 0 \/ (client' = client /\ client # conn[t].n)
    BY StopPlaces DEF StopClient, PortWithout
  <1>b. TypeOK
    BY DEF IInv
  <1>c. /\ pc' \in [Threads -> Places]
        /\ pc'[t] = "restore" /\ pc'[t] \in Stopping
        /\ \A u \in Threads \ {t} : pc'[u] = pc[u]
    BY <1>b, GoesThere, StopPlaces DEF StopClient
  <1>1. EmptyInv' /\ AloneInv' /\ ConnectingInv'
    BY <1>a, <1>c, GoesOn
  <1>2. TypeOK'
    <2>1. client' \in 0..MaxStarts
      <3>1. client \in 0..MaxStarts
        BY <1>b DEF TypeOK
      <3>2. client' = 0 \/ client' = client
        BY <1>a
      <3> QED
        BY <3>1, <3>2, WinAppAssumption
    <2> QED
      BY <1>a, <1>c, <2>1 DEF StopClient, IInv, TypeOK
  <1>3. Accounted' /\ Apart' /\ PinsInv'
    <2>1. \A h \in Hands : IsPinned(h)' => IsPinned(h)
      BY <1>a, <1>c DEF IsPinned
    <2> QED
      BY <1>a, <2>1 DEF IInv, Accounted, Apart, Present, PinsInv
  <1>4. UpInv'
    <2>1. \A h \in Hands : HasTunnel(h)' <=> HasTunnel(h)
      BY <1>a, <1>c DEF HasTunnel
    <2>2. \A h \in Hands \ {t} : HasClient(h)' <=> HasClient(h)
      BY <1>a, <1>c DEF HasClient
    <2> QED
      BY <1>a, <2>1, <2>2 DEF IInv, UpInv
  <1> QED
    BY <1>1, <1>2, <1>3, <1>4 DEF IInv

(* The metrics of the routes in hand are put back.                         *)
LEMMA RestoreMetricsStep ==
  ASSUME IInv, NEW t \in Threads, RestoreMetrics(t)
  PROVE  IInv'
  <1> DEFINE c == conn[t]
  <1> USE Names
  <1>a. /\ UNCHANGED <<conn, client, tunnels, orphans, unpinned, starts, connecting>>
        /\ pc[t] = "restore" /\ pc[t] \in Stopping
    BY StopPlaces DEF RestoreMetrics
  <1>b. TypeOK /\ table \in Table /\ c.routes \in SUBSET Route
    BY Fields DEF IInv, TypeOK
  <1>e. PICK F \in SUBSET Route : table' = Restored(table, c.routes, F)
    BY <1>b DEF RestoreMetrics
  <1> DEFINE new == Restored(table, c.routes, F)
  <1>c. /\ pc' \in [Threads -> Places]
        /\ pc'[t] = "remove" /\ pc'[t] \in Stopping
        /\ \A u \in Threads \ {t} : pc'[u] = pc[u]
    BY <1>b, GoesThere, StopPlaces DEF RestoreMetrics
  <1>d. /\ new \in Table
        /\ \A s \in Route : new[s] = Absent <=> table[s] = Absent
        /\ \A s \in Route \ c.routes : new[s] = table[s]
    BY <1>b, RestoredChanges
  <1>1. EmptyInv' /\ AloneInv' /\ ConnectingInv'
    BY <1>a, <1>c, GoesOn
  <1>2. TypeOK'
    BY <1>a, <1>c, <1>d, <1>e DEF RestoreMetrics, IInv, TypeOK
  <1>3. Accounted' /\ Apart' /\ PinsInv'
    <2>1. ~IsPinned(t)'
      BY <1>c DEF IsPinned
    <2>2. \A h \in Hands \ {t} : IsPinned(h)' => IsPinned(h)
      BY <1>a, <1>c DEF IsPinned
    <2>3. /\ \A s \in Route : table'[s] = Absent <=> table[s] = Absent
          /\ \A s \in Route \ c.routes : table'[s] = table[s]
      BY <1>d, <1>e
    <2> QED
      BY <1>a, <2>1, <2>2, <2>3, MetricsChanged
  <1>4. UpInv'
    <2>1. \A h \in Hands : /\ HasTunnel(h)' <=> HasTunnel(h)
                           /\ HasClient(h)' <=> HasClient(h)
      BY <1>a, <1>c DEF HasTunnel, HasClient
    <2> QED
      BY <1>a, <2>1, UpLeft DEF IInv
  <1> QED
    BY <1>1, <1>2, <1>3, <1>4 DEF IInv

(* The caller returns.                                                     *)
LEMMA ReportStep ==
  ASSUME IInv, NEW t \in Threads, Report(t)
  PROVE  IInv'
  <1> USE Names
  <1>a. /\ UNCHANGED <<conn, table, client, tunnels, orphans, unpinned, starts,
                       connecting>>
        /\ pc[t] = "report" /\ pc[t] \notin Building /\ pc[t] \notin Stopping
        /\ pc[t] \notin Connecting
    BY RestPlaces DEF Report
  <1>b. TypeOK
    BY DEF IInv
  <1>c. /\ pc' \in [Threads -> Places]
        /\ pc'[t] \in {"idle", "forget"} /\ pc'[t] \notin Building
        /\ pc'[t] \notin Stopping /\ pc'[t] \notin Connecting
        /\ \A u \in Threads \ {t} : pc'[u] = pc[u]
    BY <1>b, GoesThere, RestPlaces DEF Report
  <1>1. TypeOK'
    BY <1>a, <1>c DEF Report, IInv, TypeOK
  <1>2. EmptyInv'
    BY <1>a, <1>c DEF IInv, EmptyInv
  <1>3. Accounted' /\ Apart'
    BY <1>a DEF IInv, Accounted, Apart, Present
  <1>4. AloneInv'
    BY <1>a, <1>c DEF IInv, AloneInv
  <1>5. UpInv'
    <2>1. \A h \in Hands : /\ HasTunnel(h)' <=> HasTunnel(h)
                           /\ HasClient(h)' <=> HasClient(h)
      BY <1>a, <1>c DEF HasTunnel, HasClient
    <2> QED
      BY <1>a, <2>1, UpLeft DEF IInv
  <1>6. PinsInv'
    <2>1. \A h \in Hands : IsPinned(h)' => IsPinned(h)
      BY <1>a, <1>c DEF IsPinned
    <2> QED
      BY <1>a, <2>1 DEF IInv, PinsInv
  <1>7. ConnectingInv'
    BY <1>a, <1>c DEF IInv, ConnectingInv
  <1> QED
    BY <1>1, <1>2, <1>3, <1>4, <1>5, <1>6, <1>7 DEF IInv

(* Logout forgets the token.                                               *)
LEMMA ForgetTokenStep ==
  ASSUME IInv, ForgetToken
  PROVE  IInv'
  <1> DEFINE t == "logout"
  <1> USE Names
  <1>a. /\ UNCHANGED <<conn, table, client, tunnels, orphans, unpinned, starts,
                       connecting>>
        /\ t \in Threads /\ pc[t] = "forget" /\ pc[t] \notin Building /\ pc[t] \notin Stopping
        /\ pc[t] \notin Connecting
    BY RestPlaces DEF ForgetToken, Threads
  <1>b. TypeOK
    BY DEF IInv
  <1>c. /\ pc' \in [Threads -> Places]
        /\ pc'[t] = "idle" /\ pc'[t] \notin Building
        /\ pc'[t] \notin Stopping /\ pc'[t] \notin Connecting
        /\ \A u \in Threads \ {t} : pc'[u] = pc[u]
    BY <1>a, <1>b, GoesThere, RestPlaces DEF ForgetToken
  <1>1. TypeOK'
    BY <1>a, <1>c DEF ForgetToken, IInv, TypeOK
  <1>2. EmptyInv'
    BY <1>a, <1>c DEF IInv, EmptyInv
  <1>3. Accounted' /\ Apart'
    BY <1>a DEF IInv, Accounted, Apart, Present
  <1>4. AloneInv'
    BY <1>a, <1>c DEF IInv, AloneInv
  <1>5. UpInv'
    <2>1. \A h \in Hands : /\ HasTunnel(h)' <=> HasTunnel(h)
                           /\ HasClient(h)' <=> HasClient(h)
      BY <1>a, <1>c DEF HasTunnel, HasClient
    <2> QED
      BY <1>a, <2>1, UpLeft DEF IInv
  <1>6. PinsInv'
    <2>1. \A h \in Hands : IsPinned(h)' => IsPinned(h)
      BY <1>a, <1>c DEF IsPinned
    <2> QED
      BY <1>a, <2>1 DEF IInv, PinsInv
  <1>7. ConnectingInv'
    BY <1>a, <1>c DEF IInv, ConnectingInv
  <1> QED
    BY <1>1, <1>2, <1>3, <1>4, <1>5, <1>6, <1>7 DEF IInv

(* Every step.                                                             *)
LEMMA NextInvariant == IInv /\ [Next]_vars => IInv'
  <1> SUFFICES ASSUME IInv, [Next]_vars PROVE IInv'
    OBVIOUS
  <1>1. CASE Login \/ Toggle \/ Logout \/ Shutdown \/ Exit \/ ForgetToken
    BY <1>1, LoginStep, ToggleStep, LogoutStep, ShutdownStep, ExitStep,
       ForgetTokenStep
  <1>2. CASE StartStep
    <2>1. CASE Snapshot \/ Fetch \/ RoutesAdded \/ NoneReachable \/ Pin
      BY <2>1, SnapshotStep, FetchStep, RoutesAddedStep, NoneReachableStep,
         PinStep
    <2>2. CASE SpawnClient \/ StartTunnel \/ Undone \/ Commit
      BY <2>2, SpawnClientStep, StartTunnelStep, UndoneStep, CommitStep
    <2>3. ASSUME NEW r \in Route, AddRoute(r) \/ UndoRoute(r) PROVE IInv'
      BY <2>3, AddRouteStep, UndoRouteStep
    <2>4. ASSUME NEW a \in Adapters, ProbeAdapter(a) PROVE IInv'
      BY <2>4, ProbeAdapterStep
    <2> QED
      BY <1>2, <2>1, <2>2, <2>3, <2>4 DEF StartStep
  <1>3. ASSUME NEW t \in Threads, StopStep(t) PROVE IInv'
    <2>1. CASE Grab(t) \/ StopTunnel(t) \/ StopClient(t)
      BY <2>1, GrabStep, StopTunnelStep, StopClientStep
    <2>2. CASE RestoreMetrics(t) \/ Removed(t) \/ Report(t)
      BY <2>2, RestoreMetricsStep, RemovedStep, ReportStep
    <2>3. ASSUME NEW r \in Route, RemoveRoute(t, r) PROVE IInv'
      BY <2>3, RemoveRouteStep
    <2> QED
      BY <1>3, <2>1, <2>2, <2>3 DEF StopStep
  <1>4. CASE UNCHANGED vars
    <2>1. UNCHANGED <<pc, conn, table, client, tunnels, orphans, unpinned, starts,
                      connecting>>
      BY <1>4 DEF vars
    <2>2. TypeOK' /\ EmptyInv' /\ Accounted' /\ Apart'
      BY <1>4, <2>1
         DEF vars, IInv, TypeOK, EmptyInv, Accounted, Present, Apart
    <2>3. AloneInv' /\ UpInv' /\ PinsInv' /\ ConnectingInv'
      BY <2>1 DEF IInv, AloneInv, UpInv, HasTunnel, HasClient, PinsInv,
         IsPinned, ConnectingInv
    <2> QED
      BY <2>2, <2>3 DEF IInv
  <1> QED
    BY <1>1, <1>2, <1>3, <1>4 DEF Next

(* The invariant: who holds which routes, tunnels and clients, in every    *)
(* interleaving of the calls (Toggle, Logout, shutdown) and of exits.      *)
THEOREM InductiveInvariant == Spec => []IInv
  <1>1. Init => IInv
    BY InitInvariant
  <1>2. IInv /\ [Next]_vars => IInv'
    BY NextInvariant
  <1> QED
    BY <1>1, <1>2, PTL DEF Spec

(* When all calls have returned, nothing is left of a connection that is   *)
(* not in use (client/app.go, stopGameMode and the early returns).         *)
THEOREM NoRemnantsHolds == Spec => []NoRemnants
  <1>1. IInv => NoRemnants
    <2> SUFFICES ASSUME IInv, AtRest PROVE NoRemnants
      BY DEF NoRemnants
    <2>1. \A t \in Threads : conn[t].n = 0 /\ conn[t].routes = {}
      BY Names, RestPlaces, NoConnection DEF AtRest, IInv, EmptyInv
    <2>2. Present(table) = orphans \cup conn["app"].routes
      <3>1. orphans \subseteq Route
        BY DEF IInv, TypeOK
      <3>2. conn["app"].routes \subseteq Route
        BY Fields, Names DEF IInv
      <3>3. \A r \in Route : r \in Present(table) <=>
              r \in orphans \cup conn["app"].routes
        BY <2>1, Names DEF IInv, Accounted
      <3> QED
        BY <3>1, <3>2, <3>3 DEF Present
    <2>3. \A h \in Hands : /\ HasTunnel(h) <=> h = "app" /\ active
                           /\ HasClient(h) <=> h = "app" /\ active
      BY <2>1, Names DEF HasTunnel, HasClient, active
    <2>4. tunnels = IF active THEN {conn["app"].n} ELSE {}
      BY <2>3, Names DEF IInv, UpInv
    <2>5. client \in {0, conn["app"].n}
      BY <2>3 DEF IInv, UpInv
    <2> QED
      BY <2>2, <2>4, <2>5 DEF NoRemnants
  <1> QED
    BY <1>1, InductiveInvariant, PTL

(* The routes of the connection in use keep the metrics PinHostRoutes gave *)
(* them (client/iface/route_windows.go), whatever else is stopped.         *)
THEOREM PinsKeptHolds == Spec => []PinsKept
  <1>1. IInv => PinsKept
    BY Names DEF IInv, PinsInv, IsPinned, PinsKept, active
  <1> QED
    BY <1>1, InductiveInvariant, PTL

-----------------------------------------------------------------------------
(***************************************************************************)
(* The controller leads the life that AppLife tells.                       *)
(***************************************************************************)

(* Something is being taken down, or was, and its caller has not returned. *)
IsLeaving == \E t \in Threads : pc[t] \in Leaving

(* Truth values, before a step and after it.                               *)
LEMMA Flags ==
  ASSUME TypeOK, TypeOK'
  PROVE  /\ token \in BOOLEAN /\ token' \in BOOLEAN
         /\ connecting \in BOOLEAN /\ connecting' \in BOOLEAN
         /\ active \in BOOLEAN /\ active' \in BOOLEAN
         /\ IsLeaving \in BOOLEAN /\ IsLeaving' \in BOOLEAN
  BY DEF TypeOK, active, IsLeaving

(* Nothing is being left or taken over while one goroutine goes on where   *)
(* it neither begins nor ends to stop.                                     *)
LEMMA SameLeaving ==
  ASSUME TypeOK, NEW t \in Threads, NEW p \in Places, Goes(t, p),
         pc[t] \in Leaving <=> p \in Leaving
  PROVE  IsLeaving' <=> IsLeaving
  <1>1. /\ pc'[t] = p /\ \A u \in Threads \ {t} : pc'[u] = pc[u]
    BY GoesThere
  <1> QED BY <1>1 DEF IsLeaving

(* The commands themselves change nothing of it but for a sign-in; an exit *)
(* ends everything.                                                        *)
LEMMA CommandsLife ==
  ASSUME TypeOK, TypeOK',
         Login \/ Toggle \/ Logout \/ Shutdown \/ Exit \/ ForgetToken
  PROVE  Life!Next \/ UNCHANGED Life!vars
  <1> USE Names
  <1>1. CASE Login
    <2>1. token' = TRUE /\ UNCHANGED <<connecting, active, IsLeaving>>
      BY <1>1 DEF Login, active, IsLeaving
    <2> QED BY <2>1 DEF Life!Next, Life!SignIn, IsLeaving
  <1>2. CASE Toggle \/ Logout \/ Shutdown
    <2>1. /\ IsLeaving' <=> IsLeaving
          /\ UNCHANGED <<token, connecting, conn>>
      BY <1>2, SameLeaving, RestPlaces, LeavingPlaces DEF Toggle, Logout, Shutdown, Threads
    <2>2. active' = active
      BY <2>1 DEF active
    <2> QED BY <2>1, <2>2, Flags DEF Life!vars, IsLeaving
  <1>3. CASE Exit
    <2>1. /\ pc' = [t \in Threads |-> "idle"] /\ conn' = [h \in Hands |-> None]
          /\ connecting' = FALSE /\ token' = token
      BY <1>3 DEF Exit
    <2>2. ~IsLeaving' /\ ~active'
      BY <2>1, LeavingPlaces, NoConnection DEF IsLeaving, active
    <2> QED BY <2>1, <2>2, Flags DEF Life!Next, Life!ProcessEnds, IsLeaving
  <1>4. CASE ForgetToken
    <2>1. pc["logout"] \in Leaving /\ "logout" \in Threads
      BY <1>4 DEF ForgetToken, Leaving, Threads
    <2>2. token' = FALSE /\ UNCHANGED <<connecting, conn>>
      BY <1>4 DEF ForgetToken
    <2>3. active' = active
      BY <2>2 DEF active
    <2> QED
      BY <2>1, <2>2, <2>3, Flags DEF Life!Next, Life!StopEnds, IsLeaving
  <1> QED BY <1>1, <1>2, <1>3, <1>4

(* What startGameMode does is one attempt: it begins with the snapshot and *)
(* ends with the commit or on one of the ways on which it gives up.        *)
LEMMA StartLife ==
  ASSUME IInv, IInv', StartStep
  PROVE  Life!Next \/ UNCHANGED Life!vars
  <1> USE Names
  <1>a. TypeOK /\ TypeOK' /\ conn \in [Hands -> Connection]
    BY DEF IInv, TypeOK
  <1>1. CASE Snapshot
    <2>1. IsLeaving' <=> IsLeaving
      BY <1>1, <1>a, SameLeaving, RestPlaces, LeavingPlaces, FetchPlace DEF Snapshot
    <2>2. ~active /\ active' = active
      BY <1>1 DEF Snapshot, active, IInv, AloneInv
    <2>3. ~connecting
      BY <1>1, RestPlaces DEF Snapshot, IInv, ConnectingInv
    <2>4. /\ token' = token
          /\ \/ token /\ connecting' = TRUE
             \/ connecting' = connecting
      BY <1>1 DEF Snapshot
    <2> QED
      BY <2>1, <2>2, <2>3, <2>4, <1>a, Flags
      DEF Life!Next, Life!StartBegins, Life!vars, IsLeaving
  <1>2. CASE (Fetch /\ ~connecting') \/ Undone \/ Commit
    <2>1. pc["toggle"] \in Connecting /\ Goes("toggle", "idle")
      BY <1>2, <1>a, FetchPlace, BuildPlaces, GoesThere
      DEF Fetch, Undone, Commit, GivesUp, IInv, ConnectingInv
    <2>2. connecting /\ ~active
      BY <2>1 DEF IInv, ConnectingInv, AloneInv, active
    <2>3. ~connecting' /\ token' = token
      BY <1>2 DEF Fetch, Undone, Commit, GivesUp
    <2>4. IsLeaving' <=> IsLeaving
      <3>1. pc["toggle"] \notin Leaving
        BY <2>1 DEF Leaving, Connecting, Building, Stopping
      <3> QED BY <1>a, <2>1, <3>1, SameLeaving, RestPlaces, LeavingPlaces
    <2> QED
      BY <2>2, <2>3, <2>4, <1>a, Flags DEF Life!Next, Life!StartEnds, IsLeaving
  <1>3. CASE \/ Fetch /\ connecting'
             \/ RoutesAdded \/ NoneReachable \/ Pin \/ SpawnClient \/ StartTunnel
    <2>1. PICK p \in Building : Goes("toggle", p)
      BY <1>3, BuildPlaces
      DEF Fetch, GivesUp, RoutesAdded, NoneReachable, Pin, SpawnClient, StartTunnel
    <2>2. pc["toggle"] \in Connecting
      BY <1>3, FetchPlace, BuildPlaces
      DEF Fetch, RoutesAdded, NoneReachable, Pin, SpawnClient, StartTunnel
    <2>3. IsLeaving' <=> IsLeaving
      <3>1. /\ p \in Places /\ p \notin Leaving
            /\ pc["toggle"] \notin Leaving
        BY <2>2 DEF Places, Leaving, Connecting, Building, Stopping
      <3> QED BY <1>a, <2>1, <3>1, SameLeaving
    <2>4. conn'["app"] = conn["app"]
      BY <1>3, <1>a
      DEF Fetch, GivesUp, Holds, RoutesAdded, NoneReachable, Pin, SpawnClient,
          StartTunnel
    <2>5. token' = token /\ connecting' = connecting
      BY <1>3
      DEF Fetch, GivesUp, RoutesAdded, NoneReachable, Pin, SpawnClient, StartTunnel
    <2> QED BY <2>3, <2>4, <2>5, <1>a, Flags DEF Life!vars, active, IsLeaving
  <1>4. ASSUME NEW r \in Route, AddRoute(r) \/ UndoRoute(r)
        PROVE  UNCHANGED Life!vars
    <2>1. UNCHANGED <<token, connecting, pc>> /\ conn'["app"] = conn["app"]
      BY <1>4, <1>a DEF AddRoute, UndoRoute, Removes, Adds, Drops, Holds
    <2> QED BY <2>1 DEF Life!vars, active
  <1>5. ASSUME NEW a \in Adapters, ProbeAdapter(a)
        PROVE  UNCHANGED Life!vars
    <2>1. UNCHANGED <<token, connecting, pc>> /\ conn'["app"] = conn["app"]
      BY <1>5, <1>a DEF ProbeAdapter, Holds
    <2> QED BY <2>1 DEF Life!vars, active
  <1> QED
    BY <1>1, <1>2, <1>3, <1>4, <1>5, <1>a, Flags DEF StartStep

(* What stopGameMode does begins when it grabs the app's connection and    *)
(* ends when its caller returns.                                           *)
LEMMA StopLife ==
  ASSUME IInv, IInv', NEW t \in Threads, StopStep(t)
  PROVE  Life!Next \/ UNCHANGED Life!vars
  <1> USE Names
  <1>a. TypeOK /\ TypeOK' /\ conn \in [Hands -> Connection] /\ t # "app"
    BY DEF IInv, TypeOK
  <1>1. CASE Grab(t)
    <2>1. pc'[t] \in Leaving
      BY <1>1, <1>a, GoesThere, RestPlaces, LeavingPlaces, StopPlaces DEF Grab
    <2>2. conn'["app"] = None
      BY <1>1, <1>a, HandedOver DEF Grab
    <2>3. IsLeaving' /\ ~active'
      BY <2>1, <2>2, NoConnection DEF IsLeaving, active
    <2>4. token' = token /\ connecting' = connecting
      BY <1>1 DEF Grab
    <2> QED
      BY <2>3, <2>4, <1>a, Flags DEF Life!Next, Life!StopBegins, IsLeaving
  <1>2. CASE StopTunnel(t) \/ StopClient(t) \/ RestoreMetrics(t) \/ Removed(t)
    <2>1. PICK p \in Leaving : Goes(t, p)
      BY <1>2 DEF StopTunnel, StopClient, RestoreMetrics, Removed, Leaving, Stopping
    <2>2. pc[t] \in Leaving /\ p \in Places
      BY <1>2, <2>1
      DEF StopTunnel, StopClient, RestoreMetrics, Removed, Places, Leaving, Stopping
    <2>3. IsLeaving' <=> IsLeaving
      BY <1>a, <2>1, <2>2, SameLeaving
    <2>4. /\ token' = token /\ connecting' = connecting
          /\ conn'["app"] = conn["app"]
      BY <1>2, <1>a DEF StopTunnel, StopClient, RestoreMetrics, Removed, Holds
    <2> QED BY <2>3, <2>4, <1>a, Flags DEF Life!vars, active, IsLeaving
  <1>3. CASE Report(t)
    <2>1. IsLeaving
      BY <1>3 DEF Report, IsLeaving, Leaving
    <2>2. UNCHANGED <<token, connecting, conn>>
      BY <1>3, <1>a DEF Report, TypeOK
    <2>3. active' = active
      BY <2>2 DEF active
    <2> QED
      BY <2>1, <2>2, <2>3, <1>a, Flags DEF Life!Next, Life!StopEnds, IsLeaving
  <1>4. ASSUME NEW r \in Route, RemoveRoute(t, r)
        PROVE  UNCHANGED Life!vars
    <2>1. UNCHANGED <<token, connecting, pc>> /\ conn'["app"] = conn["app"]
      BY <1>4, <1>a DEF RemoveRoute, Removes, Drops, Holds
    <2> QED BY <2>1 DEF Life!vars, active
  <1> QED
    BY <1>1, <1>2, <1>3, <1>4 DEF StopStep

(* With all its goroutines, routes and failures the controller is the life *)
(* of one connection (client/app.go): attempts never overlap, one begins   *)
(* only for somebody signed in while nothing is up, a connection comes     *)
(* from an attempt only, and goes by a stop or with the process.           *)
THEOREM ImplementsAppLife == Spec => IsAppLife
  <1>1. Init => Life!Init
    BY LeavingPlaces, NoConnection, Names DEF Init, Life!Init, active, IsLeaving
  <1>2. IInv /\ IInv' /\ [Next]_vars => [Life!Next]_(Life!vars)
    <2> SUFFICES ASSUME IInv, IInv', [Next]_vars
                 PROVE  Life!Next \/ UNCHANGED Life!vars
      OBVIOUS
    <2>1. CASE Login \/ Toggle \/ Logout \/ Shutdown \/ Exit \/ ForgetToken
      BY <2>1, CommandsLife DEF IInv
    <2>2. CASE StartStep
      BY <2>2, StartLife
    <2>3. CASE \E t \in Threads : StopStep(t)
      BY <2>3, StopLife
    <2>4. CASE UNCHANGED vars
      BY <2>4 DEF vars, Life!vars, active
    <2> QED BY <2>1, <2>2, <2>3, <2>4 DEF Next
  <1>3. IsAppLife <=> Life!Init /\ [][Life!Next]_(Life!vars)
    BY DEF IsAppLife, Life!Spec
  <1> QED BY <1>1, <1>2, <1>3, InductiveInvariant, PTL DEF Spec
=============================================================================
