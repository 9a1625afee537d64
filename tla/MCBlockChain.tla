----------------------------- MODULE MCBlockChain -----------------------------
(***************************************************************************)
(* Block trees for model checking BlockChain.                              *)
(***************************************************************************)
EXTENDS BlockChain, TLC

CONSTANTS g, a1, a2, a3, b1, b2, c1, x1, x2, x3, y3, y4

(***************************************************************************)
(* Path from a function that gives every block but g its parent.           *)
(***************************************************************************)
PathsOf(par) ==
    LET f[b \in DOMAIN par \cup {g}] == IF b = g THEN <<g>> ELSE Append(f[par[b]], b)
    IN  f

(***************************************************************************)
(* Two valid branches of three and two blocks.  b2 outweighs a2, and a3    *)
(* outweighs b2, so the chain is reorganized and reorganized back; a2 and  *)
(* b2 spend what the block before them creates, and a1 and b1 contain the  *)
(* same transaction, which creates the output shared.                      *)
(***************************************************************************)
ForkBlocks == {g, a1, a2, a3, b1, b2}
ForkPath == PathsOf(a1 :> g @@ a2 :> a1 @@ a3 :> a2 @@ b1 :> g @@ b2 :> b1)
ForkWork == g :> 1 @@ a1 :> 1 @@ a2 :> 1 @@ a3 :> 5 @@ b1 :> 1 @@ b2 :> 3
ForkOuts == {"shared", "oa1", "oa2", "oa3", "ob1", "ob2"}
ForkSpends == g :> {} @@ a1 :> {} @@ a2 :> {"shared"} @@ a3 :> {"oa1", "oa2"}
                @@ b1 :> {} @@ b2 :> {"ob1"}
ForkCreates == g :> {} @@ a1 :> {"shared", "oa1"} @@ a2 :> {"oa2"} @@ a3 :> {"oa3"}
                @@ b1 :> {"shared", "ob1"} @@ b2 :> {"ob2"}
ForkVersion == [b \in ForkBlocks |-> 2]

(***************************************************************************)
(* A valid block a1, and a branch whose second block x2 breaks a rule: x3  *)
(* and the pair y3-y4 build on it, and both x3 and y4 outweigh a1.  c1 may *)
(* be fast-added, and spends an output that does not exist where it        *)
(* stands.  The hard fork comes with x2.                                   *)
(***************************************************************************)
BadBlocks == {g, a1, c1, x1, x2, x3, y3, y4}
BadPath == PathsOf(a1 :> g @@ c1 :> g @@ x1 :> g @@ x2 :> x1 @@ x3 :> x2 @@ y3 :> x2
                     @@ y4 :> y3)
BadWork == [b \in BadBlocks |-> CASE b = x3 -> 3 [] b = y4 -> 5 [] OTHER -> 1]
BadOuts == {"oa1"}
BadSpends == [b \in BadBlocks |-> IF b = c1 THEN {"oa1"} ELSE {}]
BadCreates == [b \in BadBlocks |-> IF b = a1 THEN {"oa1"} ELSE {}]
BadVersion == [b \in BadBlocks |-> CASE b \in {x1, y3} -> 514 [] b = x2 -> 5 [] OTHER -> 2]
=============================================================================
