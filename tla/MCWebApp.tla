------------------------------ MODULE MCWebApp ------------------------------
(* Model-checking instance of WebApp: two accounts with a token each, two  *)
(* links, two games to vote for, one subscription.                         *)
EXTENDS WebApp, TLC

CONSTANTS ann, bob, t1, t2, eth, usb, game1, game2, sub1, click1,
          report1, report2, report3, worker1, worker2

MCAccounts == {ann, bob}
MCTokens == {t1, t2}
MCOwner == (t1 :> ann) @@ (t2 :> bob)
MCIfaces == {eth, usb}
MCVotable == {game1, game2}
MCSubs == {sub1}
MCClicks == {click1}
MCWorkers == {worker1, worker2}
MCReports == {report1, report2, report3}
MCWorkerOf ==
  (report1 :> worker1) @@ (report2 :> worker1) @@ (report3 :> worker2)
MCSlots == 1 .. 2
=============================================================================
