------------------------------ MODULE BestChain ------------------------------
(***************************************************************************)
(* What the chain promises its users, independent of how it decides: a     *)
(* best block that moves along the block tree one block at a time, never   *)
(* onto a block that breaks a rule, with the unspent outputs of exactly    *)
(* the chain that ends in it.                                              *)
(***************************************************************************)
EXTENDS BlockTree

VARIABLES
    best,   \* the block at the end of the main chain
    utxo    \* the unspent transaction outputs

Init ==
    /\ best = Genesis
    /\ utxo = UtxoOf(Genesis)

(***************************************************************************)
(* A child of the best block becomes the best block.                       *)
(***************************************************************************)
Connect(b) ==
    /\ b # Genesis
    /\ Parent(b) = best
    /\ MayConnect(b, utxo)
    /\ best' = b
    /\ utxo' = UtxoOf(b)

(***************************************************************************)
(* The best block is taken back.                                           *)
(***************************************************************************)
Disconnect ==
    /\ best # Genesis
    /\ best' = Parent(best)
    /\ utxo' = UtxoOf(Parent(best))

Next == Disconnect \/ \E b \in Blocks : Connect(b)

Spec == Init /\ [][Next]_<<best, utxo>>
=============================================================================
