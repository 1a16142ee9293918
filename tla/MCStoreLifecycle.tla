-------------------------- MODULE MCStoreLifecycle --------------------------
(* Small instances of StoreLifecycle for TLC.                              *)
EXTENDS StoreLifecycle, TLC

Slots == Permutations(Deliveries)
=============================================================================
