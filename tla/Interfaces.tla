----------------------------- MODULE Interfaces -----------------------------
(***************************************************************************)
(* The network interfaces on the dashboard's Connections tab               *)
(* (dashboard/frontend/src/pages/Connections.jsx) and on the switch        *)
(* (dashboard/backend/routers/connections.py).                             *)
(*                                                                         *)
(* The tab scans every five seconds and shows each scan as it arrives.  A  *)
(* scan reads the links first and pings them afterwards, so its answer may *)
(* be older than a toggle's that it overtakes.                             *)
(***************************************************************************)
EXTENDS Naturals

CONSTANTS
  Ifaces,
  MaxChanges,    (* bound of the model: times a link changes               *)
  NoCards, NoIface

Links == [Ifaces -> {"up", "down"}]

ASSUME InterfacesAssumption ==
  MaxChanges \in Nat /\ NoCards \notin Links /\ NoIface \notin Ifaces

VARIABLES
  tabOpen,
  links,        (* external: the state of each link                        *)
  changes,      (* times one has changed                                   *)
  cards,        (* data.interfaces, NoCards before the first scan          *)
  scans,        (* what the scans under way have read                      *)
  toggles,      (* toggles under way: interface, up or down, served or not *)
  toggling      (* the interface whose button is disabled                  *)

ifaceVars == <<tabOpen, links, changes, cards, scans, toggles, toggling>>

InterfacesInit ==
  /\ tabOpen = FALSE
  /\ links \in Links /\ changes = 0
  /\ cards = NoCards /\ scans = {} /\ toggles = {} /\ toggling = NoIface

-----------------------------------------------------------------------------
OpenTab ==
  /\ ~tabOpen /\ tabOpen' = TRUE
  /\ UNCHANGED <<links, changes, cards, scans, toggles, toggling>>

(* What is under way goes on, and its answer finds nobody.                 *)
CloseTab ==
  /\ tabOpen /\ tabOpen' = FALSE
  /\ cards' = NoCards /\ scans' = {} /\ toggling' = NoIface
  /\ toggles' = {t \in toggles : ~t.served}
  /\ UNCHANGED <<links, changes>>

(* scan(): the links are read ...                                          *)
Scan ==
  /\ tabOpen
  /\ scans' = scans \cup {links}
  /\ UNCHANGED <<tabOpen, links, changes, cards, toggles, toggling>>

(* Wrong: only the first scan is shown.                                    *)
ShowFirst(s) ==
  /\ scans' = scans \ {s}
  /\ cards' = IF cards = NoCards THEN s ELSE cards
  /\ UNCHANGED <<tabOpen, links, changes, toggles, toggling>>

(* ... and what was read is shown.                                         *)
ScanShown(s) ==
  /\ scans' = scans \ {s}
  /\ cards' = s
  /\ UNCHANGED <<tabOpen, links, changes, toggles, toggling>>

ScanFailed(s) ==
  /\ scans' = scans \ {s}
  /\ UNCHANGED <<tabOpen, links, changes, cards, toggles, toggling>>

(* The cards take the place of "Scanning" with the first scan.             *)
CardsShown == cards # NoCards

(* handleToggle: the switch of a card, to the other state than the card's. *)
Toggle(i) ==
  /\ CardsShown /\ toggling # i
  /\ toggling' = i
  /\ toggles' = toggles \cup
       {[iface |-> i, served |-> FALSE,
         to |-> IF cards[i] = "up" THEN "down" ELSE "up"]}
  /\ UNCHANGED <<tabOpen, links, changes, cards, scans>>

(* ip link set, after which a link without a carrier is not up; nobody     *)
(* waits for it if the tab was closed.                                     *)
SetLink(t) ==
  /\ ~t.served /\ changes < MaxChanges
  /\ changes' = changes + 1
  /\ \E now \in {"down", t.to} : links' = [links EXCEPT ![t.iface] = now]
  /\ toggles' = (toggles \ {t}) \cup
                  (IF tabOpen THEN {[t EXCEPT !.served = TRUE]} ELSE {})
  /\ UNCHANGED <<tabOpen, cards, scans, toggling>>

(* The answer, which is what was asked for, corrects the card, and every   *)
(* button is enabled.                                                      *)
ToggleShown(t) ==
  /\ t.served
  /\ toggles' = toggles \ {t}
  /\ cards' = IF cards = NoCards THEN cards
              ELSE [cards EXCEPT ![t.iface] = t.to]
  /\ toggling' = NoIface
  /\ UNCHANGED <<tabOpen, links, changes, scans>>

(* An error is passed over.                                                *)
ToggleFailed(t) ==
  /\ toggles' = toggles \ {t}
  /\ toggling' = NoIface
  /\ UNCHANGED <<tabOpen, links, changes, cards, scans>>

(* A cable is plugged in or pulled out.                                    *)
LinkChanges(i) ==
  /\ changes < MaxChanges
  /\ changes' = changes + 1
  /\ links' = [links EXCEPT ![i] = IF @ = "up" THEN "down" ELSE "up"]
  /\ UNCHANGED <<tabOpen, cards, scans, toggles, toggling>>

-----------------------------------------------------------------------------
InterfacesNext ==
  \/ OpenTab \/ CloseTab \/ Scan
  \/ \E s \in scans : ScanShown(s) \/ ScanFailed(s)
  \/ \E i \in Ifaces : Toggle(i) \/ LinkChanges(i)
  \/ \E t \in toggles : SetLink(t) \/ ToggleShown(t) \/ ToggleFailed(t)

(* The timer fires, a request comes to an end, and not every scan fails.   *)
ScanEnds(l) == l \in scans /\ (ScanShown(l) \/ ScanFailed(l))
FreshScanShown == links \in scans /\ ScanShown(links)

InterfacesSpec ==
  /\ InterfacesInit /\ [][InterfacesNext]_ifaceVars
  /\ WF_ifaceVars(Scan)
  /\ \A l \in Links : WF_ifaceVars(ScanEnds(l))
  /\ SF_ifaceVars(FreshScanShown)

-----------------------------------------------------------------------------
(***************************************************************************)
(* Properties.                                                             *)
(***************************************************************************)
InterfacesTypeOK ==
  /\ tabOpen \in BOOLEAN
  /\ links \in Links /\ changes \in 0 .. MaxChanges
  /\ cards \in Links \cup {NoCards} /\ (~tabOpen => cards = NoCards)
  /\ scans \subseteq Links /\ (scans # {} => tabOpen)
  /\ toggles \subseteq [iface : Ifaces, served : BOOLEAN, to : {"up", "down"}]
  /\ toggling \in Ifaces \cup {NoIface}

(* A wrong card is put right: by the next scan, whatever answer was late.  *)
CardsCatchUp ==
  (tabOpen /\ cards # links) ~> (cards = links \/ ~tabOpen)
=============================================================================
