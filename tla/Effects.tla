------------------------------ MODULE Effects ------------------------------
(***************************************************************************)
(* What the execution of commands at a remote system promises: a command   *)
(* is sent once, after it was approved; its call may be repeated until it  *)
(* is recorded, and never after; records may be lost or set back, but name *)
(* only what has taken effect.                                             *)
(***************************************************************************)
EXTENDS Naturals

CONSTANT Commands
VARIABLES approved, sent, effective, recorded

Init ==
  /\ approved = {} /\ effective = {} /\ recorded = {}
  /\ sent = [c \in Commands |-> 0]

Approve(c) ==
  /\ approved' = approved \cup {c}
  /\ UNCHANGED <<sent, effective, recorded>>

\* A call takes effect, or fails before or after it did.
Called(c) == effective' \in {effective, effective \cup {c}}

Send(c) ==
  /\ c \in approved /\ sent[c] = 0
  /\ sent' = [sent EXCEPT ![c] = 1]
  /\ Called(c)
  /\ UNCHANGED <<approved, recorded>>

SendAgain(c) ==
  /\ sent[c] = 1 /\ c \notin recorded
  /\ Called(c)
  /\ UNCHANGED <<approved, sent, recorded>>

Record ==
  /\ recorded' \subseteq effective
  /\ UNCHANGED <<approved, sent, effective>>

Next == (\E c \in Commands : Approve(c) \/ Send(c) \/ SendAgain(c)) \/ Record

Spec == Init /\ [][Next]_<<approved, sent, effective, recorded>>
=============================================================================
