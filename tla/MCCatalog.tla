----------------------------- MODULE MCCatalog -----------------------------
(***************************************************************************)
(* Catalog for TLC: sessions are interchangeable.                          *)
(***************************************************************************)
EXTENDS Catalog, TLC

Symmetry == Permutations(Sessions)
=============================================================================
