---------------------------- MODULE MCAutomation ----------------------------
(* Small instances of Automation for TLC: two automations of one source,   *)
(* and one of another.                                                     *)
EXTENDS Automation, TLC

CONSTANTS x1, x2, y1

Keys == (x1 :> "x") @@ (x2 :> "x") @@ (y1 :> "y")
=============================================================================
