--------------------------- MODULE BlockTree_proofs ---------------------------
(***************************************************************************)
(* Facts about the block tree, for every tree that meets the assumptions   *)
(* of BlockTree: paths, chains, the unspent outputs of a chain, and the    *)
(* fork point of two chains.                                               *)
(***************************************************************************)
EXTENDS BlockTree, SequenceTheorems, WellFoundedInduction, TLAPS

(***************************************************************************)
(* Every prefix of a path is a path (Header.PrevBlock links).              *)
(***************************************************************************)
LEMMA PathFacts ==
    ASSUME NEW b \in Blocks
    PROVE  /\ Len(Path[b]) \in Nat \ {0}
           /\ Path[b][1] = Genesis
           /\ Path[b][Len(Path[b])] = b
           /\ Len(Path[b]) = 1 <=> b = Genesis
           /\ \A i \in 1..Len(Path[b]) :
                 /\ Path[b][i] \in Blocks
                 /\ Len(Path[Path[b][i]]) = i
                 /\ \A j \in 1..i : Path[Path[b][i]][j] = Path[b][j]
<1>1. Path[b] \in Seq(Blocks)
  BY PathAssumption
<1>2. Len(Path[b]) \in Nat
  BY <1>1, LenProperties
<1>3. (b = Genesis => Len(Path[b]) = 1) /\ (b # Genesis => Len(Path[b]) > 1)
  <2>1. Path[Genesis] = <<Genesis>> /\ Len(<<Genesis>>) = 1
    BY PathAssumption
  <2> QED
    BY <2>1, PathAssumption
<1>4. Len(Path[b]) \in Nat \ {0} /\ (Len(Path[b]) = 1 <=> b = Genesis)
  <2> DEFINE l == Len(Path[b])
  <2>1. l \in Nat /\ (b = Genesis => l = 1) /\ (b # Genesis => l > 1)
    BY <1>2, <1>3
  <2> HIDE DEF l
  <2>2. l \in Nat \ {0} /\ (l = 1 <=> b = Genesis)
    BY <2>1
  <2> QED
    BY <2>2 DEF l
<1>5. ASSUME NEW i \in 1..Len(Path[b])
      PROVE  /\ Path[b][i] \in Blocks
             /\ Len(Path[Path[b][i]]) = i
             /\ \A j \in 1..i : Path[Path[b][i]][j] = Path[b][j]
  <2>1. \A j \in 1..i : Path[b][j] \in Blocks
    <3>1. \A j \in 1..i : j \in 1..Len(Path[b])
      BY <1>2
    <3> QED
      BY <1>1, <3>1, ElementOfSeq
  <2>2. Path[Path[b][i]] = SubSeq(Path[b], 1, i)
    BY PathAssumption
  <2>3. i \in Int /\ 1 <= i
    BY <1>2
  <2> DEFINE s == SubSeq(Path[b], 1, i)
  <2>4. /\ Len(s) = IF 1 <= i THEN i - 1 + 1 ELSE 0
        /\ \A j \in 1..(i - 1 + 1) : s[j] = Path[b][1 + j - 1]
    BY <2>1, <2>3, SubSeqProperties
  <2>5. Len(s) = i /\ \A j \in 1..i : s[j] = Path[b][j]
    <3> HIDE DEF s
    <3> QED
      BY <2>3, <2>4
  <2> QED
    BY <2>1, <2>2, <2>3, <2>5
<1> QED
  BY <1>4, <1>5, PathAssumption

(***************************************************************************)
(* The parent of a block is the block before it on its path.               *)
(***************************************************************************)
LEMMA ParentFacts ==
    ASSUME NEW b \in Blocks, b # Genesis
    PROVE  /\ Parent(b) \in Blocks
           /\ Len(Path[b]) - 1 \in 1..Len(Path[b])
           /\ Len(Path[Parent(b)]) = Len(Path[b]) - 1
           /\ \A j \in 1..(Len(Path[b]) - 1) : Path[Parent(b)][j] = Path[b][j]
<1>1. Len(Path[b]) \in Nat /\ Len(Path[b]) > 1
  BY PathFacts, PathAssumption
<1>2. Len(Path[b]) - 1 \in 1..Len(Path[b])
  BY <1>1
<1> QED
  BY <1>2, PathFacts DEF Parent

(***************************************************************************)
(* The chain of an ancestor is the part of the chain up to it.             *)
(***************************************************************************)
LEMMA ChainPrefix ==
    ASSUME NEW b \in Blocks, NEW i \in 1..Len(Path[b])
    PROVE  OnChain(Path[b][i]) = {Path[b][j] : j \in 1..i}
<1>1. Len(Path[Path[b][i]]) = i /\ \A j \in 1..i : Path[Path[b][i]][j] = Path[b][j]
  BY PathFacts
<1> QED
  BY <1>1 DEF OnChain

(***************************************************************************)
(* A chain holds its last block, the genesis block, and the chain of each  *)
(* of its blocks.                                                          *)
(***************************************************************************)
LEMMA OnChainFacts ==
    ASSUME NEW b \in Blocks
    PROVE  /\ OnChain(b) \subseteq Blocks
           /\ b \in OnChain(b)
           /\ Genesis \in OnChain(b)
           /\ \A c \in OnChain(b) : OnChain(c) \subseteq OnChain(b)
           /\ OnChain(Genesis) = {Genesis}
<1>1. Len(Path[b]) \in 1..Len(Path[b]) /\ 1 \in 1..Len(Path[b])
  BY PathFacts
<1>2. ASSUME NEW c \in OnChain(b)
      PROVE  OnChain(c) \subseteq OnChain(b)
  <2>1. PICK i \in 1..Len(Path[b]) : c = Path[b][i]
    BY DEF OnChain
  <2>2. OnChain(c) = {Path[b][j] : j \in 1..i}
    BY <2>1, ChainPrefix
  <2>3. \A j \in 1..i : j \in 1..Len(Path[b])
    BY PathFacts
  <2> QED
    BY <2>2, <2>3 DEF OnChain
<1>3. OnChain(Genesis) = {Genesis}
  <2>1. Genesis \in Blocks
    BY PathAssumption
  <2>2. Len(Path[Genesis]) = 1 /\ Path[Genesis][1] = Genesis
    BY <2>1, PathFacts
  <2> QED
    BY <2>2 DEF OnChain
<1> QED
  BY <1>1, <1>2, <1>3, PathFacts DEF OnChain

(***************************************************************************)
(* The chain of a block is the chain of its parent with the block added.   *)
(***************************************************************************)
LEMMA OnChainParent ==
    ASSUME NEW b \in Blocks, b # Genesis
    PROVE  /\ OnChain(b) = OnChain(Parent(b)) \cup {b}
           /\ b \notin OnChain(Parent(b))
<1> DEFINE l == Len(Path[b])
<1>1. l \in Nat /\ l > 1 /\ Path[b][l] = b
  BY PathFacts, PathAssumption
<1>2. OnChain(Parent(b)) = {Path[b][j] : j \in 1..(l - 1)}
  BY ParentFacts DEF OnChain
<1>3. OnChain(b) = {Path[b][j] : j \in 1..l}
  BY DEF OnChain
<1>4. 1..l = (1..(l - 1)) \cup {l}
  BY <1>1
<1>5. ASSUME NEW j \in 1..(l - 1), Path[b][j] = b
      PROVE  FALSE
  <2>1. j \in 1..l /\ j # l
    BY <1>1
  <2>2. Len(Path[Path[b][j]]) = j
    BY <2>1, PathFacts
  <2> QED
    BY <2>1, <2>2, <1>5
<1> HIDE DEF l
<1> QED
  BY <1>1, <1>2, <1>3, <1>4, <1>5

-----------------------------------------------------------------------------
(***************************************************************************)
(* Connecting a block to the chain of its parent spends and creates what   *)
(* the block says (connectTransactions).                                   *)
(***************************************************************************)
LEMMA UtxoConnect ==
    ASSUME NEW b \in Blocks, b # Genesis
    PROVE  UtxoOf(b) = (UtxoOf(Parent(b)) \ Spends[b]) \cup Creates[b]
<1> DEFINE P == OnChain(Parent(b))
<1>1. OnChain(b) = P \cup {b} /\ b \notin P
  BY OnChainParent
<1>2. \A c \in P : Creates[b] \cap Spends[c] = {}
  BY <1>1, OutputAssumption
<1>3. Creates[b] \subseteq Outs /\ Creates[b] \cap Spends[b] = {}
  BY OutputAssumption
<1> HIDE DEF P
<1>4. /\ AllCreates(P \cup {b}) = AllCreates(P) \cup Creates[b]
      /\ AllSpends(P \cup {b}) \cap Creates[b] = {}
      /\ AllCreates(P) \ AllSpends(P \cup {b}) = (AllCreates(P) \ AllSpends(P)) \ Spends[b]
  BY <1>2, <1>3 DEF AllCreates, AllSpends
<1> QED
  BY <1>1, <1>4 DEF UtxoOf, P

(***************************************************************************)
(* A chain is valid exactly when its parent chain is and the last block    *)
(* may be connected to it.                                                 *)
(***************************************************************************)
LEMMA ChainOKParent ==
    ASSUME NEW b \in Blocks, b # Genesis
    PROVE  ChainOK(b) <=> ChainOK(Parent(b)) /\ MayConnect(b, UtxoOf(Parent(b)))
BY OnChainParent DEF ChainOK

(***************************************************************************)
(* The chain that consists of the genesis block obeys every rule.          *)
(***************************************************************************)
LEMMA ChainOKGenesis == ChainOK(Genesis)
BY OnChainFacts, PathAssumption DEF ChainOK

(***************************************************************************)
(* What a valid chain starts with is a valid chain.                        *)
(***************************************************************************)
LEMMA ChainOKAncestor ==
    ASSUME NEW b \in Blocks, NEW c \in OnChain(b)
    PROVE  (ChainOK(b) => ChainOK(c)) /\ (StrictOK(b) => StrictOK(c))
BY OnChainFacts DEF ChainOK, StrictOK

(***************************************************************************)
(* A block that passes checkConnectBlock may be connected.                 *)
(***************************************************************************)
LEMMA CheckedMayConnect ==
    ASSUME NEW b, NEW view, checkConnectBlock(b, view)
    PROVE  MayConnect(b, view)
BY DEF checkConnectBlock, MayConnect

(***************************************************************************)
(* Taking the last block of a valid chain back restores what it spent and  *)
(* removes what it created (disconnectTransactions).                       *)
(***************************************************************************)
LEMMA UtxoDisconnect ==
    ASSUME NEW b \in Blocks, b # Genesis, ChainOK(b)
    PROVE  UtxoOf(Parent(b)) = (UtxoOf(b) \ Creates[b]) \cup Spends[b]
<1> DEFINE U == UtxoOf(Parent(b))
<1>1. UtxoOf(b) = (U \ Spends[b]) \cup Creates[b]
  BY UtxoConnect
<1>2. Spends[b] \subseteq U
  BY ChainOKParent DEF MayConnect
<1>3. U \cap Creates[b] = {}
  <2>1. \A c \in OnChain(Parent(b)) : Creates[b] \cap Creates[c] = {}
    BY OnChainParent, OutputAssumption
  <2> QED
    BY <2>1 DEF UtxoOf, AllCreates
<1> HIDE DEF U
<1>4. U = (UtxoOf(b) \ Creates[b]) \cup Spends[b]
  BY <1>1, <1>2, <1>3
<1> QED
  BY <1>4 DEF U

(***************************************************************************)
(* The utxo set of a new node is empty.                                    *)
(***************************************************************************)
LEMMA UtxoGenesis == UtxoOf(Genesis) = {}
<1>1. OnChain(Genesis) = {Genesis}
  BY OnChainFacts, PathAssumption
<1> QED
  BY <1>1, OutputAssumption DEF UtxoOf, AllCreates

-----------------------------------------------------------------------------
(***************************************************************************)
(* FindFork finds the last block the two chains share.                     *)
(***************************************************************************)
LEMMA FindForkFacts ==
    ASSUME NEW t \in Blocks, NEW n \in Blocks
    PROVE  /\ FindFork(t, n) \in 1..Len(Path[n])
           /\ FindFork(t, n) \in 1..Len(Path[t])
           /\ Path[t][FindFork(t, n)] = Path[n][FindFork(t, n)]
           /\ \A j \in (FindFork(t, n) + 1)..Len(Path[n]) : Path[n][j] \notin OnChain(t)
<1> DEFINE l == Len(Path[n])
           T == {m \in 0..(l - 1) : Path[n][l - m] \in OnChain(t)}
           F(k) == /\ Path[n][k] \in OnChain(t)
                   /\ \A j \in (k + 1)..l : Path[n][j] \notin OnChain(t)
<1>1. l \in Nat \ {0} /\ Path[n][1] \in OnChain(t)
  BY PathFacts, OnChainFacts
<1>2. T \subseteq Nat /\ T # {}
  <2>1. l - 1 \in 0..(l - 1) /\ l - (l - 1) = 1
    BY <1>1
  <2>2. l - 1 \in T
    BY <1>1, <2>1
  <2>3. 0..(l - 1) \subseteq Nat
    BY <1>1
  <2>4. T \subseteq 0..(l - 1)
    OBVIOUS
  <2> QED
    BY <2>2, <2>3, <2>4
<1>3. PICK m \in T : \A y \in T : <<y, m>> \notin OpToRel(<, Nat)
  <2> HIDE DEF T
  <2> QED
    BY <1>2, WFMin, NatLessThanWellFounded
<1>4. m \in 0..(l - 1) /\ Path[n][l - m] \in OnChain(t)
  BY <1>3
<1>5. \A y \in T : ~(y < m)
  <2> HIDE DEF T
  <2> QED
    BY <1>2, <1>3 DEF OpToRel
<1>6. l - m \in 1..l /\ F(l - m)
  <2>1. l - m \in 1..l
    BY <1>1, <1>4
  <2>2. ASSUME NEW j \in ((l - m) + 1)..l, Path[n][j] \in OnChain(t)
        PROVE  FALSE
    <3>1. l - j \in 0..(l - 1) /\ l - j < m /\ l - (l - j) = j
      BY <1>1, <1>4
    <3>2. l - j \in T
      BY <3>1, <2>2
    <3> QED
      BY <3>1, <3>2, <1>5
  <2> QED
    BY <2>1, <2>2, <1>4
<1> DEFINE k == FindFork(t, n)
<1>7. k \in 1..l /\ F(k)
  <2>1. k = CHOOSE x \in 1..l : F(x)
    BY DEF FindFork
  <2> HIDE DEF l, F, k
  <2> QED
    BY <2>1, <1>6
<1>8. PICK i \in 1..Len(Path[t]) : Path[n][k] = Path[t][i]
  BY <1>7 DEF OnChain
<1>9. i = k
  BY <1>7, <1>8, PathFacts
<1> QED
  BY <1>7, <1>8, <1>9

-----------------------------------------------------------------------------
(***************************************************************************)
(* The blocks of n's chain above position k, up to position m.             *)
(***************************************************************************)
Segment(n, k, m) == {Path[n][j] : j \in (k + 1)..m}

(***************************************************************************)
(* The blocks above position k make up the difference between the chains   *)
(* at m and at k.                                                          *)
(***************************************************************************)
LEMMA SegmentFacts ==
    ASSUME NEW n \in Blocks, NEW m \in 1..Len(Path[n]), NEW k \in 1..m
    PROVE  /\ OnChain(Path[n][m]) = OnChain(Path[n][k]) \cup Segment(n, k, m)
           /\ \A d \in Segment(n, k, m) :
                 /\ d \in Blocks \ {Genesis}
                 /\ OnChain(Path[n][k]) \subseteq OnChain(Parent(d))
                 /\ OnChain(Parent(d)) \subseteq OnChain(Path[n][m])
                 /\ d \notin OnChain(Path[n][k])
<1>1. Len(Path[n]) \in Nat /\ k \in 1..Len(Path[n])
  BY PathFacts
<1>2. 1..m = (1..k) \cup ((k + 1)..m)
  BY <1>1
<1>3. /\ OnChain(Path[n][m]) = {Path[n][j] : j \in 1..m}
      /\ OnChain(Path[n][k]) = {Path[n][j] : j \in 1..k}
  BY <1>1, ChainPrefix
<1>4. ASSUME NEW j \in (k + 1)..m
      PROVE  LET d == Path[n][j] IN
             /\ d \in Blocks \ {Genesis}
             /\ OnChain(Path[n][k]) \subseteq OnChain(Parent(d))
             /\ OnChain(Parent(d)) \subseteq OnChain(Path[n][m])
             /\ d \notin OnChain(Path[n][k])
  <2> DEFINE d == Path[n][j]
  <2>1. /\ j \in 1..Len(Path[n]) /\ j > 1
        /\ j - 1 \in 1..Len(Path[n]) /\ j - 1 \in 1..j
        /\ 1..k \subseteq 1..(j - 1) /\ 1..(j - 1) \subseteq 1..m
        /\ \A i \in 1..k : i # j
    BY <1>1
  <2>2. d \in Blocks /\ Len(Path[d]) = j /\ \A i \in 1..j : Path[d][i] = Path[n][i]
    BY <2>1, PathFacts
  <2>3. d # Genesis
    <3>1. Len(Path[d]) # 1
      BY <2>1, <2>2
    <3> QED
      BY <3>1, <2>2, PathFacts
  <2>4. Parent(d) = Path[n][j - 1]
    BY <2>1, <2>2 DEF Parent
  <2>5. OnChain(Parent(d)) = {Path[n][i] : i \in 1..(j - 1)}
    BY <2>1, <2>4, ChainPrefix
  <2>6. \A i \in 1..k : Path[n][i] # d
    <3>1. \A i \in 1..k : i \in 1..Len(Path[n])
      BY <1>1
    <3>2. \A i \in 1..k : Len(Path[Path[n][i]]) = i
      BY <3>1, PathFacts
    <3> QED
      BY <3>2, <2>1, <2>2
  <2> QED
    BY <2>1, <2>2, <2>3, <2>5, <2>6, <1>3
<1> QED
  BY <1>2, <1>3, <1>4 DEF Segment

(***************************************************************************)
(* Undoing the blocks above an ancestor of a valid chain, all at once,     *)
(* leaves the unspent outputs of that ancestor (the scratch view of        *)
(* reorganizeChain after the detach loop).                                 *)
(***************************************************************************)
LEMMA UndoBranch ==
    ASSUME NEW t \in Blocks, NEW k \in 1..Len(Path[t]), ChainOK(t)
    PROVE  LET D == Segment(t, k, Len(Path[t])) IN
           (UtxoOf(t) \cup AllSpends(D)) \ AllCreates(D) = UtxoOf(Path[t][k])
<1> DEFINE D == Segment(t, k, Len(Path[t]))
           F == OnChain(Path[t][k])
<1>1. Len(Path[t]) \in 1..Len(Path[t]) /\ Path[t][Len(Path[t])] = t /\ k \in 1..Len(Path[t])
  BY PathFacts
<1>2. /\ OnChain(t) = F \cup D
      /\ \A d \in D : /\ d \in Blocks \ {Genesis}
                      /\ F \subseteq OnChain(Parent(d))
                      /\ OnChain(Parent(d)) \subseteq F \cup D
                      /\ d \notin F
  BY <1>1, SegmentFacts
<1>3. \A d \in D : Spends[d] \subseteq UtxoOf(Parent(d))
  BY <1>2 DEF ChainOK, MayConnect
<1>4. \A d \in D : \A c \in F : Creates[d] \cap Creates[c] = {}
  <2>1. \A d \in D : F \subseteq OnChain(d) \ {d}
    BY <1>2, OnChainParent
  <2> QED
    BY <2>1, <1>2, OutputAssumption
<1> HIDE DEF D, F
<1>5. ASSUME NEW o \in AllSpends(D), o \notin AllCreates(D)
      PROVE  o \in AllCreates(F) /\ o \notin AllSpends(F)
  <2>1. PICK d \in D : o \in Spends[d]
    BY <1>5 DEF AllSpends
  <2>2. o \in AllCreates(OnChain(Parent(d))) /\ o \notin AllSpends(OnChain(Parent(d)))
    BY <2>1, <1>3 DEF UtxoOf
  <2> QED
    BY <2>2, <1>2, <1>5 DEF AllCreates, AllSpends
<1>6. AllCreates(F) \cap AllCreates(D) = {}
  BY <1>4 DEF AllCreates
<1>7. /\ AllCreates(F \cup D) = AllCreates(F) \cup AllCreates(D)
      /\ AllSpends(F \cup D) = AllSpends(F) \cup AllSpends(D)
  BY DEF AllCreates, AllSpends
<1>8. UtxoOf(t) = AllCreates(F \cup D) \ AllSpends(F \cup D)
  BY <1>2 DEF UtxoOf
<1>9. UtxoOf(Path[t][k]) = AllCreates(F) \ AllSpends(F)
  BY DEF UtxoOf, F
<1>10. (UtxoOf(t) \cup AllSpends(D)) \ AllCreates(D) = UtxoOf(Path[t][k])
  BY <1>5, <1>6, <1>7, <1>8, <1>9
<1> QED
  BY <1>10 DEF D

(***************************************************************************)
(* Applying the blocks above an ancestor gives the unspent outputs of the  *)
(* chain up to the last of them (its scratch view in the attach loop).     *)
(***************************************************************************)
LEMMA ApplyBranch ==
    ASSUME NEW n \in Blocks, NEW m \in 1..Len(Path[n]), NEW k \in 1..m
    PROVE  LET A == Segment(n, k, m) IN
           (UtxoOf(Path[n][k]) \cup AllCreates(A)) \ AllSpends(A) = UtxoOf(Path[n][m])
<1> DEFINE A == Segment(n, k, m)
           F == OnChain(Path[n][k])
<1>1. /\ OnChain(Path[n][m]) = F \cup A
      /\ \A d \in A : /\ d \in Blocks \ {Genesis}
                      /\ F \subseteq OnChain(Parent(d))
                      /\ d \notin F
  BY SegmentFacts
<1>2. \A d \in A : \A c \in F : Creates[d] \cap Spends[c] = {}
  <2>1. \A d \in A : F \subseteq OnChain(d) \ {d}
    BY <1>1, OnChainParent
  <2> QED
    BY <2>1, <1>1, OutputAssumption
<1> HIDE DEF A, F
<1>3. AllCreates(A) \cap AllSpends(F) = {}
  BY <1>2 DEF AllCreates, AllSpends
<1>4. /\ AllCreates(F \cup A) = AllCreates(F) \cup AllCreates(A)
      /\ AllSpends(F \cup A) = AllSpends(F) \cup AllSpends(A)
  BY DEF AllCreates, AllSpends
<1>5. /\ UtxoOf(Path[n][m]) = AllCreates(F \cup A) \ AllSpends(F \cup A)
      /\ UtxoOf(Path[n][k]) = AllCreates(F) \ AllSpends(F)
  BY <1>1 DEF UtxoOf, F
<1>6. (UtxoOf(Path[n][k]) \cup AllCreates(A)) \ AllSpends(A) = UtxoOf(Path[n][m])
  BY <1>3, <1>4, <1>5
<1> QED
  BY <1>6 DEF A
=============================================================================
