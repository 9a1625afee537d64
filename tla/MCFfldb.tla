------------------------------ MODULE MCFfldb ------------------------------
(***************************************************************************)
(* Blocks for model checking Ffldb: one fits into a file, but not two.     *)
(***************************************************************************)
EXTENDS Ffldb

MCSize == [b \in Blocks |-> 2]
=============================================================================
