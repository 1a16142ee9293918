----------------------------- MODULE MCOrderSync -----------------------------
(* Small instances of OrderSync for TLC.                                   *)
EXTENDS OrderSync, TLC

CONSTANTS a, b

\* Two orders of two pages.
TwoPages == (a :> 1) @@ (b :> 2)

Symmetric == Permutations(Runs) \cup Permutations(Hooks)
=============================================================================
