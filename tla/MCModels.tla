------------------------------ MODULE MCModels ------------------------------
(***************************************************************************)
(* Instance of Models for TLC.                                             *)
(***************************************************************************)
EXTENDS Models

(* A counter may be sent with a negative value. *)
CountsDef == {-1, 0}
=============================================================================
