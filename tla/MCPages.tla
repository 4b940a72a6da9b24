------------------------------ MODULE MCPages ------------------------------
(***************************************************************************)
(* Small listings for TLC.                                                 *)
(***************************************************************************)
EXTENDS Pages
=============================================================================
