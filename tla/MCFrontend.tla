----------------------------- MODULE MCFrontend -----------------------------
(***************************************************************************)
(* Small numbers of frontends and calls for TLC.                           *)
(***************************************************************************)
EXTENDS Frontend, TLC

Symmetry == Permutations(Frontends) \cup Permutations(Requests)
=============================================================================
