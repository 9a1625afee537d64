---------------------------- MODULE MCKopachMiner ----------------------------
(***************************************************************************)
(* Jobs for model checking KopachMiner.                                    *)
(***************************************************************************)
EXTENDS KopachMiner

CONSTANTS c1, c2

Job(c, p, m) == [sender |-> c, prev |-> p, merkle |-> m]

(***************************************************************************)
(* Two jobs of one controller and one, incomplete, of another.             *)
(***************************************************************************)
ThreeJobs == {Job(c1, 1, 1), Job(c1, 2, 2), Job(c2, 1, 3)}
JobOfC2 == {Job(c2, 1, 3)}
=============================================================================
