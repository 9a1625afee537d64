---------------------------- MODULE MCSyncManager ----------------------------
(***************************************************************************)
(* Block trees for model checking SyncManager.                             *)
(***************************************************************************)
EXTENDS SyncManager, TLC

CONSTANTS p1, p2, t1

(***************************************************************************)
(* A chain of blocks 1, 2, ..., n on the genesis block 0.                  *)
(***************************************************************************)
ChainPath(n) == [b \in 0..n |-> [i \in 1..(b + 1) |-> i - 1]]

(***************************************************************************)
(* A chain of four blocks, which p1 has and p2 has all but the last of.    *)
(***************************************************************************)
Chain4 == 0..4
Path4 == ChainPath(4)
OneBehind == p1 :> 4 @@ p2 :> 3

(***************************************************************************)
(* A chain of three blocks, of which p1 has the first, and a block 11 of   *)
(* p2's that forks off at height 1.                                        *)
(***************************************************************************)
Fork3 == (0..3) \cup {11}
ForkPath3 == ChainPath(3) @@ 11 :> <<0, 11>>
OneAt1 == p1 :> 1 @@ p2 :> 11

(***************************************************************************)
(* The chain of four blocks meets the hypothesis of SyncOwedIsListed and   *)
(* SyncHeadersFetched: nothing on it leaves a checkpoint out.              *)
(***************************************************************************)
ASSUME PassedOnChain4 == Blocks = Chain4 => CheckpointsPassed
=============================================================================
