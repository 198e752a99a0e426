------------------------------ MODULE MCWinApp ------------------------------
(* Model-checking instance of WinApp: two servers, two adapters.           *)
EXTENDS WinApp

CONSTANTS h1, h2, a1, a2
MCHosts == {h1, h2}
MCAdapters == {a1, a2}
MCFlaky == {<<h1, a1>>}
NoFlaky == {}
=============================================================================
