------------------------------ MODULE Replica ------------------------------
(***************************************************************************)
(* What a table that copies another system promises: a key is stored at a  *)
(* version that its source has had, its version never decreases and it is  *)
(* never dropped; a key that is withheld comes back only at a newer        *)
(* version.  The source may run ahead of the table for any time.           *)
(***************************************************************************)
EXTENDS Naturals

CONSTANT Keys
VARIABLES
  source,    \* the latest version of each key, 0 before it exists
  version,   \* the version the table has, 0 for none
  withheld   \* the stored keys that readers do not see

Init ==
  /\ source \in [Keys -> Nat]
  /\ version = [k \in Keys |-> 0]
  /\ withheld = {}

Publish ==
  /\ source' \in [Keys -> Nat]
  /\ \A k \in Keys : source'[k] >= source[k]
  /\ UNCHANGED <<version, withheld>>

Refreshed(k) == version'[k] > version[k] /\ version'[k] <= source[k]

Kept(k) ==
  /\ version'[k] = version[k]
  /\ k \in withheld => k \in withheld'
  /\ k \in withheld' => version[k] > 0

Update ==
  /\ version' \in [Keys -> Nat]
  /\ \A k \in Keys : Refreshed(k) \/ Kept(k)
  /\ UNCHANGED source

Next == Publish \/ Update

Spec == Init /\ [][Next]_<<source, version, withheld>>
=============================================================================
