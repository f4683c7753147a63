---------------------------- MODULE MC_RibbonRed ----------------------------
(* Model-checking instance of RibbonRed: windows of 4, 3, 2 and 1 blocks   *)
(* for the 1440, 720, 360 and 180 of the code.                             *)
EXTENDS RibbonRed

MCWindows == <<4, 3, 2, 1>>

=============================================================================
