----------------------------- MODULE MCCatalog -----------------------------
(* Small instances of Catalog for TLC.                                     *)
EXTENDS Catalog, TLC

Symmetric == Permutations(Variants)
=============================================================================
