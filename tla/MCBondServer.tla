--------------------------- MODULE MCBondServer ---------------------------
(***************************************************************************)
(* BondServer on a small instance: one client with two paths and two       *)
(* sessions (a rekey), a second client with one of each, and two           *)
(* listeners, so that the first client's copies race and both clients      *)
(* share a listener.                                                       *)
(***************************************************************************)
EXTENDS BondServer, TLC

CONSTANTS gamer, other, dish, phone, wifi, s1, s2, t1, l1, l2

MCHolder == [a \in Addrs |-> IF a = wifi THEN other ELSE gamer]
MCPeer == [s \in Sessions |-> IF s = t1 THEN other ELSE gamer]
MCPort == [a \in Addrs |-> IF a = phone THEN l2 ELSE l1]
MCAsks == {<<dish, "primary">>, <<dish, "all">>, <<phone, "all">>}

(* The gamer's two sessions can be exchanged.                              *)
MCSymmetry == Permutations({s1, s2})
=============================================================================
