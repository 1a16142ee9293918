---------------------------- MODULE FencedLease ----------------------------
(***************************************************************************)
(* What the job queue promises about ownership, without its statuses,      *)
(* clocks and transactions: a lease with fencing tokens.                   *)
(*                                                                         *)
(* An item has at most one holder and an epoch.  A client that acquires a  *)
(* free item takes away a ticket with a fresh epoch; the item may be taken *)
(* from its holder at any time, and the client learns of it only later.    *)
(***************************************************************************)
EXTENDS Naturals

CONSTANTS Items, Clients, Nobody, Nothing

VARIABLES holder, epoch,   \* of each item
          item, ticket     \* what each client believes it holds, and since when

vars == <<holder, epoch, item, ticket>>

Init ==
  /\ holder = [i \in Items |-> Nobody]
  /\ epoch = [i \in Items |-> 0]
  /\ item = [c \in Clients |-> Nothing]
  /\ ticket = [c \in Clients |-> 0]

\* A client that believes it holds nothing takes a free item.
Acquire(c) ==
  /\ item[c] = Nothing
  /\ \E i \in Items :
       /\ holder[i] = Nobody
       /\ holder' = [holder EXCEPT ![i] = c]
       /\ epoch' = [epoch EXCEPT ![i] = @ + 1]
       /\ item' = [item EXCEPT ![c] = i]
       /\ ticket' = [ticket EXCEPT ![c] = epoch[i] + 1]

\* Some items lose their holders; their epochs may move on.
Revoke(I) ==
  /\ holder' = [i \in Items |-> IF i \in I THEN Nobody ELSE holder[i]]
  /\ \E J \in SUBSET I :
       epoch' = [i \in Items |-> IF i \in J THEN epoch[i] + 1 ELSE epoch[i]]

\* A client gives its belief up, whether or not it still was the holder.
Forget(c) ==
  /\ item' = [item EXCEPT ![c] = Nothing]
  /\ ticket' = [ticket EXCEPT ![c] = 0]

Next ==
  \/ \E c \in Clients : Acquire(c)
  \/ \E I \in SUBSET Items : Revoke(I) /\ UNCHANGED <<item, ticket>>
  \/ \E c \in Clients : Forget(c) /\ UNCHANGED <<holder, epoch>>
  \/ \E c \in Clients, I \in SUBSET Items : Revoke(I) /\ Forget(c)

Spec == Init /\ [][Next]_vars

TypeOK ==
  /\ holder \in [Items -> Clients \cup {Nobody}]
  /\ epoch \in [Items -> Nat]
  /\ item \in [Clients -> Items \cup {Nothing}]
  /\ ticket \in [Clients -> Nat]

Believes(c) == item[c] # Nothing

\* Tickets are never from the future and never shared, and the holder of an
\* item is the only client that may carry its current epoch.
Fenced ==
  /\ \A c \in Clients : Believes(c) => ticket[c] <= epoch[item[c]]
  /\ \A c, d \in Clients :
       Believes(c) /\ item[d] = item[c] /\ ticket[d] = ticket[c] => d = c
  /\ \A c, d \in Clients :
       Believes(c) /\ ticket[c] = epoch[item[c]] /\ holder[item[c]] = d => d = c
=============================================================================
