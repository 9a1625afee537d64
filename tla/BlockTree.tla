------------------------------ MODULE BlockTree ------------------------------
(***************************************************************************)
(* The universe of blocks that can ever be delivered to a node, and the    *)
(* facts about each of them that pkg/chain decides on.  A block is an      *)
(* opaque value; its header's PrevBlock links form a tree rooted in the    *)
(* genesis block, given here by Path: Path[b] lists the blocks from the    *)
(* genesis block to b, so Path[b][h + 1] is b's ancestor at height h.      *)
(***************************************************************************)
EXTENDS Integers, Sequences, FiniteSets

CONSTANTS
    Blocks,       \* every block that may be delivered, valid or not
    Genesis,      \* the genesis block
    Path,         \* Path[b]: the blocks from Genesis to b, b included
    Work,         \* Work[b]: CalcWork(bits, height, version) of b's header
    Outs,         \* the transaction outputs that occur in the blocks
    Spends,       \* Spends[b]: outputs of earlier blocks that b spends
    Creates,      \* Creates[b]: outputs that b leaves unspent
    ScriptOK,     \* blocks whose scripts, values and sigops are right
    FastBlocks    \* blocks the caller may pass with BFFastAdd

(***************************************************************************)
(* Header.PrevBlock.                                                       *)
(***************************************************************************)
Parent(b) == Path[b][Len(Path[b]) - 1]

(***************************************************************************)
(* The chain view whose tip is t (chainView.nodes after SetTip(t)).        *)
(***************************************************************************)
OnChain(t) == {Path[t][i] : i \in 1..Len(Path[t])}

(***************************************************************************)
(* chainView.FindFork: the number of blocks n's chain shares with t's.     *)
(***************************************************************************)
FindFork(t, n) ==
    CHOOSE k \in 1..Len(Path[n]) :
        /\ Path[n][k] \in OnChain(t)
        /\ \A j \in (k + 1)..Len(Path[n]) : Path[n][j] \notin OnChain(t)

(***************************************************************************)
(* The outputs the blocks of a set create, and those they spend.           *)
(***************************************************************************)
AllCreates(S) == {o \in Outs : \E b \in S : o \in Creates[b]}
AllSpends(S) == {o \in Outs : \E b \in S : o \in Spends[b]}

(***************************************************************************)
(* The unspent outputs from the viewpoint of the end of the chain of b.    *)
(***************************************************************************)
UtxoOf(b) == AllCreates(OnChain(b)) \ AllSpends(OnChain(b))

(***************************************************************************)
(* What checkConnectBlock decides for a block given the unspent outputs of *)
(* the view it is handed: every input is there, and the block's own rules  *)
(* hold.                                                                   *)
(***************************************************************************)
checkConnectBlock(b, view) == Spends[b] \subseteq view /\ b \in ScriptOK

(***************************************************************************)
(* b, or a block it builds on, was passed with BFFastAdd.  processOrphans  *)
(* hands the flag of a block on to the orphans that wait for it.           *)
(***************************************************************************)
Trusted(b) == OnChain(b) \cap FastBlocks # {}

(***************************************************************************)
(* b may be connected to a chain with the given unspent outputs.           *)
(***************************************************************************)
MayConnect(b, view) == Spends[b] \subseteq view /\ (b \in ScriptOK \/ Trusted(b))

(***************************************************************************)
(* The reference meaning of "b is valid": every block of its chain but the *)
(* genesis block may be connected where it stands, or, in the strict sense *)
(* that trusts no checkpoint, passes every check there.                    *)
(***************************************************************************)
ChainOK(b) == \A c \in OnChain(b) \ {Genesis} : MayConnect(c, UtxoOf(Parent(c)))
StrictOK(b) == \A c \in OnChain(b) \ {Genesis} : checkConnectBlock(c, UtxoOf(Parent(c)))

-----------------------------------------------------------------------------

(***************************************************************************)
(* Path is a tree of hash links: it starts at the genesis block, ends in   *)
(* the block itself, and what precedes an ancestor is that ancestor's own  *)
(* path.                                                                   *)
(***************************************************************************)
ASSUME PathAssumption ==
    /\ Genesis \in Blocks
    /\ Path \in [Blocks -> Seq(Blocks)]
    /\ Path[Genesis] = <<Genesis>>
    /\ \A b \in Blocks \ {Genesis} : Len(Path[b]) > 1
    /\ \A b \in Blocks :
          /\ Path[b][1] = Genesis
          /\ Path[b][Len(Path[b])] = b
          /\ \A i \in 1..Len(Path[b]) : Path[Path[b][i]] = SubSeq(Path[b], 1, i)

ASSUME WorkAssumption == Work \in [Blocks -> Nat \ {0}]

(***************************************************************************)
(* Outputs are named by transaction hash and index, so no two blocks of    *)
(* one chain create the same one (checkBIP0030 and BIP0034) and a block's  *)
(* net effect never spends what it creates itself.  The genesis coinbase   *)
(* is not in the utxo set (createChainState).                              *)
(***************************************************************************)
ASSUME OutputAssumption ==
    /\ Spends \in [Blocks -> SUBSET Outs]
    /\ Creates \in [Blocks -> SUBSET Outs]
    /\ Spends[Genesis] = {} /\ Creates[Genesis] = {}
    /\ \A b \in Blocks : Spends[b] \cap Creates[b] = {}
    /\ \A b \in Blocks : \A c \in OnChain(b) \ {b} : Creates[b] \cap Creates[c] = {}
    /\ \A b \in Blocks : \A c \in OnChain(b) \ {b} : Creates[b] \cap Spends[c] = {}

ASSUME RuleAssumption == ScriptOK \subseteq Blocks /\ FastBlocks \subseteq Blocks
=============================================================================
