-------------------------- MODULE MCKopachController --------------------------
(***************************************************************************)
(* Mining addresses and versions for model checking KopachController.      *)
(***************************************************************************)
EXTENDS KopachController

CONSTANTS a1, v1, v2
=============================================================================
