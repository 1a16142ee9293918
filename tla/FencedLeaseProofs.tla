------------------------- MODULE FencedLeaseProofs -------------------------
(* The lease keeps its promise, for any items and clients.                 *)
EXTENDS FencedLease, TLAPS

Inv == TypeOK /\ Fenced

LEMMA InitInv == ASSUME Nothing \notin Items, Init PROVE Inv
  BY DEF Init, Inv, TypeOK, Fenced, Believes

\* An acquired ticket is above every ticket of the same item.
LEMMA AcquireInv ==
  ASSUME Nobody \notin Clients, Nothing \notin Items, Inv,
         NEW c \in Clients, Acquire(c)
  PROVE  Inv'
<1>1. PICK i \in Items :
        /\ holder[i] = Nobody
        /\ holder' = [holder EXCEPT ![i] = c]
        /\ epoch' = [epoch EXCEPT ![i] = @ + 1]
        /\ item' = [item EXCEPT ![c] = i]
        /\ ticket' = [ticket EXCEPT ![c] = epoch[i] + 1]
  BY DEF Acquire
<1>2. TypeOK'
  BY <1>1 DEF Inv, TypeOK
<1>3. \A d \in Clients : d # c => item'[d] = item[d] /\ ticket'[d] = ticket[d]
  BY <1>1 DEF Inv, TypeOK
<1>4. item'[c] = i /\ ticket'[c] = epoch[i] + 1 /\ epoch'[i] = epoch[i] + 1
  BY <1>1 DEF Inv, TypeOK
<1>5. \A k \in Items : k # i => epoch'[k] = epoch[k] /\ holder'[k] = holder[k]
  BY <1>1 DEF Inv, TypeOK
<1>6. holder'[i] = c
  BY <1>1 DEF Inv, TypeOK
<1>7. \A d \in Clients : d # c /\ item[d] = i => ticket[d] <= epoch[i]
  BY DEF Inv, Fenced, Believes
<1>8. Fenced'
  <2> USE DEF Inv, TypeOK
  <2>1. \A d \in Clients : Believes(d)' => ticket'[d] <= epoch'[item'[d]]
    BY <1>3, <1>4, <1>5, <1>7 DEF Fenced, Believes
  <2>2. \A d, e \in Clients :
          Believes(d)' /\ item'[e] = item'[d] /\ ticket'[e] = ticket'[d] => e = d
    BY <1>3, <1>4, <1>7 DEF Fenced, Believes
  <2>3. \A d, e \in Clients :
          Believes(d)' /\ ticket'[d] = epoch'[item'[d]] /\ holder'[item'[d]] = e
            => e = d
    BY <1>3, <1>4, <1>5, <1>6, <1>7 DEF Fenced, Believes
  <2>4. QED BY <2>1, <2>2, <2>3 DEF Fenced, Believes
<1>9. QED BY <1>2, <1>8 DEF Inv

\* Epochs only grow, and a revoked item has no holder.
LEMMA RevokeInv ==
  ASSUME Nobody \notin Clients, Nothing \notin Items, Inv,
         NEW I \in SUBSET Items, Revoke(I), UNCHANGED <<item, ticket>>
  PROVE  Inv'
<1>1. PICK J \in SUBSET I :
        epoch' = [i \in Items |-> IF i \in J THEN epoch[i] + 1 ELSE epoch[i]]
  BY DEF Revoke
<1>2. holder' = [i \in Items |-> IF i \in I THEN Nobody ELSE holder[i]]
  BY DEF Revoke
<1>3. TypeOK'
  BY <1>1, <1>2 DEF Inv, TypeOK
<1>4. \A i \in Items : epoch'[i] >= epoch[i]
  BY <1>1 DEF Inv, TypeOK
<1>5. \A i \in Items : holder'[i] # Nobody
                         => holder'[i] = holder[i] /\ epoch'[i] = epoch[i]
  BY <1>1, <1>2
<1>6. Fenced'
  BY <1>3, <1>4, <1>5 DEF Inv, TypeOK, Fenced, Believes
<1>7. QED BY <1>3, <1>6 DEF Inv

LEMMA ForgetInv ==
  ASSUME Nobody \notin Clients, Nothing \notin Items, Inv,
         NEW c \in Clients, Forget(c), UNCHANGED <<holder, epoch>>
  PROVE  Inv'
  BY DEF Inv, TypeOK, Fenced, Believes, Forget

\* Revoking and forgetting are independent: do one after the other.
LEMMA RevokeForgetInv ==
  ASSUME Nobody \notin Clients, Nothing \notin Items, Inv,
         NEW c \in Clients, NEW I \in SUBSET Items, Revoke(I), Forget(c)
  PROVE  Inv'
<1>1. PICK J \in SUBSET I :
        epoch' = [i \in Items |-> IF i \in J THEN epoch[i] + 1 ELSE epoch[i]]
  BY DEF Revoke
<1>2. holder' = [i \in Items |-> IF i \in I THEN Nobody ELSE holder[i]]
  BY DEF Revoke
<1>3. TypeOK'
  BY <1>1, <1>2 DEF Inv, TypeOK, Forget
<1>4. \A i \in Items : epoch'[i] >= epoch[i]
  BY <1>1 DEF Inv, TypeOK
<1>5. \A i \in Items : holder'[i] # Nobody
                         => holder'[i] = holder[i] /\ epoch'[i] = epoch[i]
  BY <1>1, <1>2
<1>6. \A d \in Clients :
        Believes(d)' => Believes(d) /\ item'[d] = item[d] /\ ticket'[d] = ticket[d]
  BY DEF Forget, Believes, Inv, TypeOK
<1>7. Fenced'
  BY <1>3, <1>4, <1>5, <1>6 DEF Inv, TypeOK, Fenced, Believes
<1>8. QED BY <1>3, <1>7 DEF Inv

\* No two clients carry the same ticket of an item, and only its holder may
\* carry the current one.
THEOREM LeaseSafe ==
  ASSUME Nobody \notin Clients, Nothing \notin Items
  PROVE  Spec => []Fenced
<1>1. Init => Inv
  BY InitInv
<1>2. Inv /\ [Next]_vars => Inv'
  <2> SUFFICES ASSUME Inv, [Next]_vars PROVE Inv'
    OBVIOUS
  <2>1. CASE \E c \in Clients : Acquire(c)
    BY <2>1, AcquireInv
  <2>2. CASE \E I \in SUBSET Items : Revoke(I) /\ UNCHANGED <<item, ticket>>
    BY <2>2, RevokeInv
  <2>3. CASE \E c \in Clients : Forget(c) /\ UNCHANGED <<holder, epoch>>
    BY <2>3, ForgetInv
  <2>4. CASE \E c \in Clients, I \in SUBSET Items : Revoke(I) /\ Forget(c)
    BY <2>4, RevokeForgetInv
  <2>5. CASE UNCHANGED vars
    BY <2>5 DEF vars, Inv, TypeOK, Fenced, Believes
  <2>6. QED BY <2>1, <2>2, <2>3, <2>4, <2>5 DEF Next
<1>3. Inv => Fenced
  BY DEF Inv
<1>4. QED BY <1>1, <1>2, <1>3, PTL DEF Spec
=============================================================================
