------------------------------ MODULE MCWinUI ------------------------------
(* Model-checking instance of WinUI: two regions, one spare attempt.       *)
EXTENDS WinUI

CONSTANTS germany, finland
MCRegions == {germany, finland}
=============================================================================
