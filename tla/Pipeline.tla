------------------------------ MODULE Pipeline ------------------------------
(***************************************************************************)
(* What an onboarding promises: its phases are done one after the other,   *)
(* none is done twice or skipped, and it ends completed, or fails and is   *)
(* retried where it stopped.                                               *)
(***************************************************************************)
EXTENDS Naturals

CONSTANT Length
VARIABLES done, outcome

Init == done = 0 /\ outcome = "open"

\* The next phase is done; the onboarding may complete with its last one.
Sync ==
  /\ outcome = "open" /\ done < Length
  /\ done' = done + 1
  /\ outcome' = outcome \/ (done' = Length /\ outcome' = "completed")

Complete ==
  /\ outcome = "open" /\ done = Length
  /\ outcome' = "completed"
  /\ UNCHANGED done

Fail == outcome = "open" /\ done < Length /\ outcome' = "failed" /\ UNCHANGED done

Retry == outcome = "failed" /\ outcome' = "open" /\ UNCHANGED done

Next == Sync \/ Complete \/ Fail \/ Retry

Spec == Init /\ [][Next]_<<done, outcome>>
=============================================================================
