------------------------------ MODULE Prepaid ------------------------------
(***************************************************************************)
(* What a prepaid service promises: every credit spent was paid by one     *)
(* customer, once, out of a budget that had it; a customer that has paid   *)
(* may use the service so many times; and what is kept as its result is    *)
(* the result of a use, and the end of it.                                 *)
(***************************************************************************)
EXTENDS Naturals

CONSTANTS
  Customers,
  Users,      \* the customers that use the service when they have paid
  Price,
  Budgets,
  MostUses    \* what a price buys

VARIABLES granted, spent, paid, uses, kept

Init ==
  /\ granted \in Nat
  /\ spent = [b \in Budgets |-> 0]
  /\ paid = [c \in Customers |-> 0]
  /\ uses = [c \in Users |-> 0]
  /\ kept = {}

Grant ==
  /\ granted' > granted
  /\ UNCHANGED <<spent, paid, uses, kept>>

Pay(c) ==
  /\ paid[c] = 0
  /\ paid' = [paid EXCEPT ![c] = Price[c]]
  /\ \E b \in Budgets :
       /\ spent[b] + Price[c] <= granted
       /\ spent' = [spent EXCEPT ![b] = @ + Price[c]]
  /\ UNCHANGED <<granted, uses, kept>>

Use(c) ==
  /\ paid[c] = Price[c] /\ uses[c] < MostUses /\ c \notin kept
  /\ uses' = [uses EXCEPT ![c] = @ + 1]
  /\ UNCHANGED <<granted, spent, paid, kept>>

Keep(c) ==
  /\ uses[c] > 0 /\ c \notin kept
  /\ kept' = kept \cup {c}
  /\ UNCHANGED <<granted, spent, paid, uses>>

Next ==
  \/ Grant
  \/ \E c \in Customers : Pay(c)
  \/ \E c \in Users : Use(c) \/ Keep(c)

Spec == Init /\ [][Next]_<<granted, spent, paid, uses, kept>>
=============================================================================
