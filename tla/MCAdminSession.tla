-------------------------- MODULE MCAdminSession ---------------------------
(***************************************************************************)
(* AdminSession for TLC: requests and tokens are interchangeable.          *)
(***************************************************************************)
EXTENDS AdminSession, TLC

Symmetry == Permutations(Requests) \cup Permutations(Sessions)
=============================================================================
