------------------------------ MODULE MCEngine -------------------------------
(***************************************************************************)
(* Engine for TLC: sessions are interchangeable.                           *)
(***************************************************************************)
EXTENDS Engine, TLC

SessionSymmetry == Permutations(Session)
=============================================================================
