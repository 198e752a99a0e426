----------------------------- MODULE HostRoutes -----------------------------
(***************************************************************************)
(* The host routes of the Windows client (client/iface/route_windows.go):  *)
(* one /32 route per bonding server host and adapter, so that each path    *)
(* leaves through an adapter of its own.  A table gives each route its     *)
(* metric; of the routes to one host, Windows takes the lowest.            *)
(*                                                                         *)
(* Windows itself is external: it adds a route that is not there, and      *)
(* changes and deletes one that is, or refuses the command.                *)
(***************************************************************************)
EXTENDS Integers

CONSTANTS
  Hosts,        (* the IPs of the selected region's bonding servers        *)
  Adapters      (* the adapters with a default gateway                     *)

Route == Hosts \X Adapters

Host(r) == r[1]
Adapter(r) == r[2]

(* Metrics: no route, the preferred one, the others.                       *)
Absent == 0
Near == 1
Far == 500

Table == [Route -> {Absent, Near, Far}]
Present(table) == {r \in Route : table[r] # Absent}

(* route add, route delete.                                                *)
Added(table, r) == [table EXCEPT ![r] = Near]
Deleted(table, r) == [table EXCEPT ![r] = Absent]

(* route change, to the metrics given, of the routes that are there and at *)
(* which the command is not refused.                                       *)
Changed(table, metrics, refused) ==
  [r \in Route |->
     IF r \in DOMAIN metrics \ refused /\ table[r] # Absent
     THEN metrics[r] ELSE table[r]]

(* PreferHostRoute, whose result Probe does not use: it is never undone.   *)
Preferred(table, routes, adapter, refused) ==
  Changed(table, [r \in routes |-> IF Adapter(r) = adapter THEN Near ELSE Far],
          refused)

(* PinHostRoutes: each host that a path uses, to the adapter of the first  *)
(* path that does.  The paths are given in the order they were found.      *)
FirstOn(paths, host) ==
  CHOOSE k \in DOMAIN paths :
    /\ Host(paths[k]) = host
    /\ \A j \in DOMAIN paths : Host(paths[j]) = host => k <= j

UsedHosts(paths) == {Host(paths[k]) : k \in DOMAIN paths}

PinMetric(paths, r) ==
  IF Adapter(r) = Adapter(paths[FirstOn(paths, Host(r))]) THEN Near ELSE Far

(* Does a route to a used host have another metric than its pin?           *)
Mispinned(table, paths, r) ==
  Host(r) \in UsedHosts(paths) /\ table[r] # PinMetric(paths, r)

Pinned(table, routes, paths, refused) ==
  Changed(table, [r \in {s \in routes : Host(s) \in UsedHosts(paths)} |->
                   PinMetric(paths, r)],
          refused)

(* What PinHostRoutes returns: every route back to the same metric.        *)
Restored(table, routes, refused) ==
  Changed(table, [r \in routes |-> Near], refused)

(* orderedServerAddrs: the hosts an adapter is probed against, those no    *)
(* earlier adapter reached as long as there are any.                       *)
Candidates(paths) ==
  IF UsedHosts(paths) # Hosts THEN Hosts \ UsedHosts(paths) ELSE Hosts
=============================================================================
