----------------------------- MODULE Ffldb_proofs -----------------------------
(***************************************************************************)
(* Proofs about Ffldb: every row can be read and the database can be       *)
(* opened after any crash, of the machine too if it writes files to disk   *)
(* when they are closed; and Ffldb implements DurableStore.                *)
(***************************************************************************)
EXTENDS Ffldb, WellFoundedInduction, TLAPS

(***************************************************************************)
(* Positions in the files are ordered; a record ends at one; and files     *)
(* reach a position if a scan of them would find it or a later one.        *)
(***************************************************************************)
AtMost(p, q) == p[1] < q[1] \/ (p[1] = q[1] /\ p[2] <= q[2])

End(b, loc) == <<loc[1], loc[2] + Size[b]>>

Lower(fs, f) == \A g \in FileNums : g < f => Exists(fs[g])

Reach(fs, p) == Lower(fs, p[1]) /\ (fs[p[1]].size >= p[2] \/ p = <<0, 0>>)

(***************************************************************************)
(* Rows of records that are in the files and end at a position, which the  *)
(* files reach; and the same but for the file that cursor c has open.      *)
(***************************************************************************)
Backed(rows, p, fs) ==
    /\ \A b \in Blocks : rows[b] # None => AtMost(End(b, rows[b]), p) /\ Readable(fs, b, rows[b])
    /\ Reach(fs, p)

AlmostReach(p, c, fs) ==
    \/ Reach(fs, p)
    \/ Lower(fs, p[1]) /\ c.open /\ p[1] = c.file

AlmostBacked(rows, p, c, fs) ==
    /\ \A b \in Blocks : rows[b] # None =>
          Readable(fs, b, rows[b]) \/ (c.open /\ rows[b][1] = c.file)
    /\ AlmostReach(p, c, fs)

(***************************************************************************)
(* The transaction at each step of it.                                     *)
(***************************************************************************)
Cur == <<cursor.file, cursor.off>>

NoBlockRows(rows) == \A b \in Blocks \cup {WriteLoc} : rows[b] = None

CacheEmpty == cachedKeys = NoKeys /\ cachedRemove = {}

TxInv ==
    /\ tx.step \in {"none", "open"} => NoBlockRows(tx.keys) /\ ~tx.closing
    /\ tx.step = "write" => tx.keys[WriteLoc] = None /\ ~tx.closing
    /\ tx.step \in {"sync", "flush", "clear"} =>
          IF tx.closing THEN NoBlockRows(tx.keys) ELSE tx.keys[WriteLoc] = Cur
    /\ tx.step \in {"sync", "flush", "clear", "direct"} => tx.blocks = <<>>
    /\ tx.step = "clear" => ldb = View
    /\ tx.step = "direct" => tx.keys[WriteLoc] = Cur /\ ~tx.closing /\ CacheEmpty
    /\ status # "up" => tx.step = "none" /\ CacheEmpty /\ ~cursor.open

Writing == tx.step \in {"write", "rollback"}

CursorInv ==
    /\ AtMost(ldb[WriteLoc], View[WriteLoc])
    /\ status = "up" => AtMost(View[WriteLoc], Cur)
    /\ status = "up" /\ tx.step # "rollback" => Reach(files, Cur)
    /\ Writing => /\ AtMost(View[WriteLoc], tx.from) /\ AtMost(tx.from, Cur)
                  /\ Reach(files, tx.from)

FilesInv ==
    /\ Backed(ldb, ldb[WriteLoc], files)
    /\ Backed(View, View[WriteLoc], files)
    /\ tx.step \notin {"none", "open", "rollback"} => Backed(tx.keys, Cur, files)

SyncedInv ==
    /\ Backed(ldb, ldb[WriteLoc], synced)
    /\ AlmostBacked(View, View[WriteLoc], cursor, synced)
    /\ status = "up" => Lower(synced, cursor.file)
    /\ status = "up" /\ tx.step # "rollback" => AlmostBacked(tx.keys, Cur, cursor, synced)
    /\ Writing => AlmostReach(tx.from, cursor, synced)
    /\ tx.step \in {"flush", "clear", "direct"} =>
          Backed(View, View[WriteLoc], synced) /\ Backed(tx.keys, Cur, synced)

Inv == TypeOK /\ TxInv /\ CursorInv /\ FilesInv /\ (PowerLoss => SyncedInv) /\ AlwaysOpens

-----------------------------------------------------------------------------
(***************************************************************************)
(* The constants.                                                          *)
(***************************************************************************)
LEMMA ConstantFacts ==
    /\ MaxBlockFileSize \in Nat \ {0} /\ MaxFile \in Nat /\ MaxFaults \in Nat
    /\ Size \in [Blocks -> 1..MaxBlockFileSize]
    /\ Blocks \cap Keys = {} /\ WriteLoc \notin Blocks \cup Keys
    /\ None \notin Blocks /\ None \notin Values /\ None \notin Positions
    /\ PowerLoss \in BOOLEAN /\ CloseSyncs \in BOOLEAN
  BY FfldbAssumption DEF Positions, FileNums

LEMMA AtMostTransitive ==
    ASSUME NEW p \in Int \X Int, NEW q \in Int \X Int, NEW r \in Int \X Int,
           AtMost(p, q), AtMost(q, r)
    PROVE  AtMost(p, r)
  BY DEF AtMost

LEMMA NoFileType == NoFile \in Files
  BY ConstantFacts DEF NoFile, Files, Offsets

-----------------------------------------------------------------------------
(***************************************************************************)
(* What is done to a file keeps the records below it.                      *)
(***************************************************************************)
LEMMA WriteAtFacts ==
    ASSUME NEW x \in Files, NEW off \in Nat, NEW b \in Blocks, NEW n \in Nat,
           off + n <= MaxBlockFileSize
    PROVE  /\ WriteAt(x, off, b, n) \in Files
           /\ WriteAt(x, off, b, n).size >= x.size /\ WriteAt(x, off, b, n).size >= off + n
           /\ \A i \in Offsets : i < off => WriteAt(x, off, b, n).data[i] = x.data[i]
           /\ \A i \in 0..(n - 1) : WriteAt(x, off, b, n).data[off + i] = <<b, i>>
<1> DEFINE y == WriteAt(x, off, b, n)
<1>1. y.size = (IF off + n > x.size THEN off + n ELSE x.size) /\ x.size \in -1..MaxBlockFileSize
  BY DEF WriteAt, Files
<1>2. y.data = [i \in Offsets |-> IF i \in off..(off + n - 1) THEN <<b, i - off>> ELSE x.data[i]]
  BY DEF WriteAt
<1>3. y.data \in [Offsets -> (Blocks \X Nat) \cup {None}]
  <2>1. ASSUME NEW i \in Offsets PROVE y.data[i] \in (Blocks \X Nat) \cup {None}
    <3>1. i \in Int /\ x.data[i] \in (Blocks \X Nat) \cup {None}
      BY ConstantFacts DEF Files, Offsets
    <3>2. CASE i \in off..(off + n - 1)
      BY <3>1, <3>2, <1>2
    <3>3. CASE i \notin off..(off + n - 1)
      BY <3>1, <3>3, <1>2
    <3> QED
      BY <3>2, <3>3
  <2> QED
    BY <2>1, <1>2
<1>4. y \in Files
  <2>1. y.size \in -1..MaxBlockFileSize
    BY <1>1, ConstantFacts
  <2>2. y = [size |-> y.size, data |-> y.data]
    BY DEF WriteAt
  <2> QED
    BY <2>1, <2>2, <1>3 DEF Files
<1>5. \A i \in Offsets : i < off => y.data[i] = x.data[i]
  BY <1>2, ConstantFacts DEF Offsets
<1>6. \A i \in 0..(n - 1) : y.data[off + i] = <<b, i>>
  <2> SUFFICES ASSUME NEW i \in 0..(n - 1) PROVE y.data[off + i] = <<b, i>>
    OBVIOUS
  <2>1. off + i \in Offsets /\ off + i \in off..(off + n - 1) /\ (off + i) - off = i
    BY ConstantFacts DEF Offsets
  <2> QED
    BY <2>1, <1>2
<1>7. y.size >= x.size /\ y.size >= off + n
  BY <1>1, ConstantFacts
<1> QED
  BY <1>4, <1>5, <1>6, <1>7

LEMMA TruncateFacts ==
    ASSUME NEW x \in Files, NEW size \in 0..MaxBlockFileSize
    PROVE  /\ Truncate(x, size) \in Files /\ Truncate(x, size).size = size
           /\ \A i \in Offsets : i < size => Truncate(x, size).data[i] = x.data[i]
<1> DEFINE y == Truncate(x, size)
<1>1. y = [size |-> size, data |-> [i \in Offsets |-> IF i < size THEN x.data[i] ELSE None]]
  BY DEF Truncate
<1>2. y.data \in [Offsets -> (Blocks \X Nat) \cup {None}]
  BY <1>1 DEF Files
<1> QED
  BY <1>1, <1>2, ConstantFacts DEF Files

LEMMA OpenedFacts ==
    ASSUME NEW x \in Files
    PROVE  /\ OpenedFile(x) \in Files /\ OpenedFile(x).size >= 0 /\ OpenedFile(x).size >= x.size
           /\ x.size >= 0 => OpenedFile(x) = x
<1>1. x.size \in -1..MaxBlockFileSize /\ MaxBlockFileSize \in Nat
  BY ConstantFacts DEF Files
<1>2. CASE Exists(x)
  BY <1>1, <1>2 DEF OpenedFile, Exists
<1>3. CASE ~Exists(x)
  <2>1. OpenedFile(x) = [NoFile EXCEPT !.size = 0]
    BY <1>3 DEF OpenedFile
  <2>2. [NoFile EXCEPT !.size = 0] \in Files /\ [NoFile EXCEPT !.size = 0].size = 0
    BY NoFileType, ConstantFacts DEF Files
  <2> QED
    BY <2>1, <2>2, <1>1, <1>3 DEF Exists
<1> QED
  BY <1>2, <1>3

(***************************************************************************)
(* Files that are kept below position q keep all rows that end there.      *)
(***************************************************************************)
Kept(fs, fs2, q) ==
    \A g \in FileNums :
        /\ g < q[1] => fs2[g] = fs[g]
        /\ g = q[1] => /\ fs2[g].size >= q[2] \/ fs2[g].size >= fs[g].size
                       /\ \A i \in Offsets : i < q[2] => fs2[g].data[i] = fs[g].data[i]

LEMMA PositionFacts ==
    ASSUME NEW p \in Positions
    PROVE  /\ p[1] \in FileNums /\ p[1] \in Nat /\ p[2] \in 0..MaxBlockFileSize /\ p[2] \in Nat
           /\ p = <<p[1], p[2]>> /\ p \in Int \X Int
  BY ConstantFacts DEF Positions, FileNums

LEMMA RowFacts ==
    ASSUME NEW rows \in Rows
    PROVE  /\ rows[WriteLoc] \in Positions \cup {None}
           /\ \A b \in Blocks : rows[b] \in Positions \cup {None} /\ Size[b] \in 1..MaxBlockFileSize
           /\ \A k \in Keys : rows[k] \in Values \cup {None}
           /\ rows \in [DbKeys -> Positions \cup Values \cup {None}]
  BY ConstantFacts DEF Rows

LEMMA RecordKept ==
    ASSUME NEW fs \in [FileNums -> Files], NEW fs2 \in [FileNums -> Files], NEW q \in Positions,
           Kept(fs, fs2, q), NEW b \in Blocks, NEW loc \in Positions,
           AtMost(End(b, loc), q), Readable(fs, b, loc)
    PROVE  Readable(fs2, b, loc)
<1>1. /\ loc[1] \in FileNums /\ loc[1] \in Nat /\ loc[2] \in Nat /\ Size[b] \in 1..MaxBlockFileSize
      /\ q[1] \in FileNums /\ q[1] \in Nat /\ q[2] \in Nat /\ MaxBlockFileSize \in Nat
  BY PositionFacts, ConstantFacts
<1>2. fs[loc[1]].size \in -1..MaxBlockFileSize /\ fs2[loc[1]].size \in -1..MaxBlockFileSize
  BY <1>1 DEF Files
<1>3. loc[1] < q[1] \/ (loc[1] = q[1] /\ loc[2] + Size[b] <= q[2])
  BY DEF AtMost, End
<1>4. /\ loc[2] + Size[b] <= fs[loc[1]].size
      /\ \A i \in 0..(Size[b] - 1) : fs[loc[1]].data[loc[2] + i] = <<b, i>>
  BY DEF Readable
<1>5. CASE loc[1] < q[1]
  <2>1. fs2[loc[1]] = fs[loc[1]]
    BY <1>1, <1>5 DEF Kept
  <2> QED
    BY <2>1, <1>4 DEF Readable
<1>6. CASE loc[1] = q[1] /\ loc[2] + Size[b] <= q[2]
  <2>1. fs2[loc[1]].size >= q[2] \/ fs2[loc[1]].size >= fs[loc[1]].size
    BY <1>1, <1>6 DEF Kept
  <2>2. loc[2] + Size[b] <= fs2[loc[1]].size
    BY <2>1, <1>1, <1>2, <1>4, <1>6
  <2>3. ASSUME NEW i \in 0..(Size[b] - 1) PROVE fs2[loc[1]].data[loc[2] + i] = <<b, i>>
    <3>1. loc[2] + i \in Offsets /\ loc[2] + i < q[2]
      BY <1>1, <1>6, <1>4, <1>2 DEF Offsets
    <3>2. fs2[loc[1]].data[loc[2] + i] = fs[loc[1]].data[loc[2] + i]
      BY <3>1, <1>1, <1>6 DEF Kept
    <3> QED
      BY <3>2, <1>4
  <2> QED
    BY <2>2, <2>3 DEF Readable
<1> QED
  BY <1>3, <1>5, <1>6

LEMMA ReachKept ==
    ASSUME NEW fs \in [FileNums -> Files], NEW fs2 \in [FileNums -> Files],
           NEW p \in Positions, NEW q \in Positions,
           Kept(fs, fs2, q), AtMost(p, q), Reach(fs, p)
    PROVE  Reach(fs2, p)
<1>1. /\ p[1] \in FileNums /\ p[1] \in Nat /\ p[2] \in Nat
      /\ q[1] \in FileNums /\ q[1] \in Nat /\ q[2] \in Nat
  BY PositionFacts
<1>2. /\ fs[p[1]].size \in Int /\ fs2[p[1]].size \in Int
      /\ p[1] < q[1] \/ (p[1] = q[1] /\ p[2] <= q[2])
  BY <1>1 DEF Files, AtMost
<1>3. Lower(fs2, p[1])
  <2> SUFFICES ASSUME NEW g \in FileNums, g < p[1] PROVE Exists(fs2[g])
    BY DEF Lower
  <2>1. g < q[1] /\ Exists(fs[g])
    BY <1>1, <1>2, ConstantFacts DEF Reach, Lower, FileNums
  <2> QED
    BY <2>1 DEF Kept
<1>4. fs2[p[1]].size >= p[2] \/ p = <<0, 0>>
  <2>1. fs[p[1]].size >= p[2] \/ p = <<0, 0>>
    BY DEF Reach
  <2>2. CASE p[1] < q[1]
    <3>1. fs2[p[1]] = fs[p[1]]
      BY <1>1, <2>2 DEF Kept
    <3> QED
      BY <2>1, <3>1
  <2>3. CASE p[1] = q[1] /\ p[2] <= q[2]
    <3>1. fs2[p[1]].size >= q[2] \/ fs2[p[1]].size >= fs[p[1]].size
      BY <1>1, <2>3 DEF Kept
    <3> QED
      BY <2>1, <3>1, <1>1, <1>2, <2>3
  <2> QED
    BY <1>2, <2>2, <2>3
<1> QED
  BY <1>3, <1>4 DEF Reach

LEMMA EndType ==
    ASSUME NEW b \in Blocks, NEW loc \in Positions
    PROVE  End(b, loc) \in Int \X Int
  BY PositionFacts, ConstantFacts DEF End

LEMMA BackedKept ==
    ASSUME NEW rows \in Rows, NEW fs \in [FileNums -> Files], NEW fs2 \in [FileNums -> Files],
           NEW p \in Positions, NEW q \in Positions,
           Kept(fs, fs2, q), AtMost(p, q), Backed(rows, p, fs)
    PROVE  Backed(rows, p, fs2)
<1>1. Reach(fs2, p)
  BY ReachKept DEF Backed
<1>2. ASSUME NEW b \in Blocks, rows[b] # None
      PROVE  AtMost(End(b, rows[b]), p) /\ Readable(fs2, b, rows[b])
  <2>1. rows[b] \in Positions
    BY <1>2, RowFacts
  <2>2. AtMost(End(b, rows[b]), p) /\ Readable(fs, b, rows[b])
    BY <1>2 DEF Backed
  <2>3. AtMost(End(b, rows[b]), q)
    BY <2>1, <2>2, EndType, PositionFacts, AtMostTransitive
  <2> QED
    BY <2>1, <2>2, <2>3, RecordKept
<1> QED
  BY <1>1, <1>2 DEF Backed

-----------------------------------------------------------------------------
(***************************************************************************)
(* What is on the disk for sure: the open file is synced, a rollback syncs *)
(* one file, and what a power loss leaves is in one of two contents.       *)
(***************************************************************************)
CursorType == [file : FileNums, off : 0..MaxBlockFileSize, open : BOOLEAN]

LEMMA BackedIsAlmost ==
    ASSUME NEW rows, NEW p, NEW c, NEW fs, Backed(rows, p, fs)
    PROVE  AlmostBacked(rows, p, c, fs)
  BY DEF Backed, AlmostBacked, AlmostReach

LEMMA NotOpenIsBacked ==
    ASSUME NEW rows, NEW p, NEW c, NEW fs, NEW fs2, ~c.open,
           AlmostBacked(rows, p, c, fs), Backed(rows, p, fs2)
    PROVE  Backed(rows, p, fs)
  BY DEF Backed, AlmostBacked, AlmostReach

LEMMA BackedWithFile ==
    ASSUME NEW rows \in Rows, NEW p \in Positions, NEW f \in FileNums,
           NEW fs \in [FileNums -> Files], NEW sy \in [FileNums -> Files],
           Backed(rows, p, fs), Backed(rows, p, sy)
    PROVE  Backed(rows, p, [sy EXCEPT ![f] = fs[f]])
<1> DEFINE s2 == [sy EXCEPT ![f] = fs[f]]
<1>1. \A g \in FileNums : s2[g] = fs[g] \/ s2[g] = sy[g]
  OBVIOUS
<1>2. Reach(s2, p)
  BY <1>1, PositionFacts DEF Backed, Reach, Lower
<1>3. ASSUME NEW b \in Blocks, rows[b] # None
      PROVE  AtMost(End(b, rows[b]), p) /\ Readable(s2, b, rows[b])
  <2>1. rows[b][1] \in FileNums
    BY <1>3, RowFacts, PositionFacts
  <2>2. AtMost(End(b, rows[b]), p) /\ Readable(fs, b, rows[b]) /\ Readable(sy, b, rows[b])
    BY <1>3 DEF Backed
  <2>3. s2[rows[b][1]] = fs[rows[b][1]] \/ s2[rows[b][1]] = sy[rows[b][1]]
    BY <1>1, <2>1
  <2> HIDE DEF s2
  <2> QED
    BY <2>2, <2>3 DEF Readable
<1> QED
  BY <1>2, <1>3 DEF Backed

LEMMA SyncedFile ==
    ASSUME NEW rows \in Rows, NEW p \in Positions, NEW c \in CursorType, c.open,
           NEW fs \in [FileNums -> Files], NEW sy \in [FileNums -> Files],
           Backed(rows, p, fs), AlmostBacked(rows, p, c, sy)
    PROVE  Backed(rows, p, [sy EXCEPT ![c.file] = fs[c.file]])
<1> DEFINE s2 == [sy EXCEPT ![c.file] = fs[c.file]]
<1>0. c.file \in FileNums
  BY DEF CursorType
<1>1. s2[c.file] = fs[c.file] /\ \A g \in FileNums : s2[g] = fs[g] \/ (g # c.file /\ s2[g] = sy[g])
  BY <1>0
<1>2. Reach(s2, p)
  <2>1. p[1] \in FileNums /\ Reach(fs, p) /\ Lower(sy, p[1])
    BY PositionFacts DEF Backed, AlmostBacked, AlmostReach, Reach
  <2>2. Lower(s2, p[1])
    BY <1>1, <2>1 DEF Lower, Reach
  <2>3. s2[p[1]].size >= p[2] \/ p = <<0, 0>>
    <3>1. CASE s2[p[1]] = fs[p[1]]
      BY <3>1, <2>1 DEF Reach
    <3>2. CASE p[1] # c.file /\ s2[p[1]] = sy[p[1]]
      BY <3>2 DEF AlmostBacked, AlmostReach, Reach
    <3> QED
      BY <3>1, <3>2, <1>1, <2>1
  <2> QED
    BY <2>2, <2>3 DEF Reach
<1>3. ASSUME NEW b \in Blocks, rows[b] # None
      PROVE  AtMost(End(b, rows[b]), p) /\ Readable(s2, b, rows[b])
  <2>1. rows[b][1] \in FileNums
    BY <1>3, RowFacts, PositionFacts
  <2>2. AtMost(End(b, rows[b]), p) /\ Readable(fs, b, rows[b])
    BY <1>3 DEF Backed
  <2>3. CASE s2[rows[b][1]] = fs[rows[b][1]]
    BY <2>2, <2>3 DEF Readable
  <2>4. CASE rows[b][1] # c.file /\ s2[rows[b][1]] = sy[rows[b][1]]
    BY <2>2, <2>4, <1>3 DEF Readable, AlmostBacked
  <2> QED
    BY <2>1, <2>3, <2>4, <1>1
<1> QED
  BY <1>2, <1>3 DEF Backed

(***************************************************************************)
(* handleRollback.                                                         *)
(***************************************************************************)
RolledBack(sy, sy2, fs2, cur, c2, pos) ==
    /\ c2.file = pos[1] /\ c2.off = pos[2]
    /\ sy2 = sy \/ sy2 = [sy EXCEPT ![pos[1]] = fs2[pos[1]]]
    /\ c2.open \/ cur.file # pos[1] \/ ~cur.open

LEMMA AlmostRolledBack ==
    ASSUME NEW rows \in Rows, NEW p \in Positions, NEW pos \in Positions,
           NEW cur \in CursorType, NEW c2 \in CursorType,
           NEW sy \in [FileNums -> Files], NEW sy2, NEW fs2 \in [FileNums -> Files],
           AtMost(p, pos), pos[1] <= cur.file, RolledBack(sy, sy2, fs2, cur, c2, pos),
           Backed(rows, p, fs2), AlmostBacked(rows, p, cur, sy)
    PROVE  AlmostBacked(rows, p, c2, sy2)
<1>1. /\ p[1] \in FileNums /\ pos[1] \in FileNums /\ cur.file \in FileNums
      /\ p[1] \in Nat /\ pos[1] \in Nat /\ cur.file \in Nat
  BY PositionFacts, ConstantFacts DEF CursorType, FileNums
<1>2. p[1] <= pos[1]
  BY <1>1 DEF AtMost
<1>3. \A g \in FileNums : sy2[g] = sy[g] \/ (g = pos[1] /\ sy2[g] = fs2[g])
  BY <1>1 DEF RolledBack
<1>4. ASSUME NEW b \in Blocks, rows[b] # None
      PROVE  Readable(sy2, b, rows[b]) \/ (c2.open /\ rows[b][1] = c2.file)
  <2>1. rows[b][1] \in FileNums /\ rows[b][1] \in Nat
    BY <1>4, RowFacts, PositionFacts
  <2>2. Readable(fs2, b, rows[b]) /\ rows[b][1] <= p[1]
    BY <1>1, <1>4, <2>1 DEF Backed, AtMost, End
  <2>3. CASE Readable(sy, b, rows[b])
    BY <2>1, <2>2, <2>3, <1>3 DEF Readable
  <2>4. CASE cur.open /\ rows[b][1] = cur.file
    BY <2>1, <2>2, <2>4, <1>1, <1>2 DEF RolledBack
  <2> QED
    BY <1>4, <2>3, <2>4 DEF AlmostBacked
<1>5. AlmostReach(p, c2, sy2)
  <2>1. Lower(sy2, p[1])
    <3>1. Lower(sy, p[1])
      BY DEF AlmostBacked, AlmostReach, Reach
    <3> QED
      BY <3>1, <1>1, <1>2, <1>3 DEF Lower, FileNums
  <2>2. CASE Reach(sy, p)
    BY <2>1, <2>2, <1>1, <1>3 DEF Reach, AlmostReach, Backed
  <2>3. CASE cur.open /\ p[1] = cur.file
    BY <2>1, <2>3, <1>1, <1>2 DEF RolledBack, AlmostReach
  <2> QED
    BY <2>2, <2>3 DEF AlmostBacked, AlmostReach
<1> QED
  BY <1>4, <1>5 DEF AlmostBacked

LEMMA BackedRolledBack ==
    ASSUME NEW rows \in Rows, NEW p \in Positions, NEW pos \in Positions,
           NEW cur, NEW c2, NEW sy \in [FileNums -> Files], NEW sy2,
           NEW fs2 \in [FileNums -> Files], RolledBack(sy, sy2, fs2, cur, c2, pos),
           Backed(rows, p, fs2), Backed(rows, p, sy)
    PROVE  Backed(rows, p, sy2)
  BY BackedWithFile, PositionFacts DEF RolledBack

(***************************************************************************)
(* A power loss.                                                           *)
(***************************************************************************)
LEMMA PowerLossFacts ==
    ASSUME NEW old \in Files, NEW new \in Files, NEW x \in AfterPowerLoss(old, new)
    PROVE  /\ x \in Files
           /\ x.size >= old.size \/ x.size >= new.size
           /\ \A i \in Offsets : i < x.size => x.data[i] = old.data[i] \/ x.data[i] = new.data[i]
<1>1. CASE old = new
  BY <1>1 DEF AfterPowerLoss, Files
<1>2. CASE old # new
  <2>1. /\ x \in [size : {old.size, new.size} \cup Offsets,
                  data : [Offsets -> UNION {{old.data[i], new.data[i]} : i \in Offsets}]]
        /\ Between(old.size, x.size, new.size)
        /\ \A i \in Offsets : x.data[i] \in IF i < x.size THEN {old.data[i], new.data[i]} ELSE {None}
    BY <1>2 DEF AfterPowerLoss
  <2>2. x.size \in -1..MaxBlockFileSize /\ old.size \in Int /\ new.size \in Int
    BY <2>1, ConstantFacts DEF Files, Offsets
  <2>3. ASSUME NEW i \in Offsets PROVE x.data[i] \in (Blocks \X Nat) \cup {None}
    <3>1. old.data[i] \in (Blocks \X Nat) \cup {None} /\ new.data[i] \in (Blocks \X Nat) \cup {None}
      BY DEF Files
    <3> QED
      BY <2>1, <3>1
  <2>4. x = [size |-> x.size, data |-> x.data] /\ x.data = [i \in Offsets |-> x.data[i]]
    BY <2>1
  <2>5. x.data \in [Offsets -> (Blocks \X Nat) \cup {None}]
    BY <2>3, <2>4
  <2>6. x \in Files
    BY <2>2, <2>4, <2>5 DEF Files
  <2>7. x.size >= old.size \/ x.size >= new.size
    BY <2>1, <2>2 DEF Between
  <2> QED
    BY <2>1, <2>6, <2>7
<1> QED
  BY <1>1, <1>2

LEMMA BackedAfterPowerLoss ==
    ASSUME NEW rows \in Rows, NEW p \in Positions,
           NEW fs \in [FileNums -> Files], NEW sy \in [FileNums -> Files],
           Backed(rows, p, fs), Backed(rows, p, sy),
           NEW fs2 \in [FileNums -> Files],
           \A f \in FileNums : fs2[f] \in AfterPowerLoss(sy[f], fs[f])
    PROVE  Backed(rows, p, fs2)
<1>1. ASSUME NEW f \in FileNums
      PROVE  /\ fs2[f].size >= sy[f].size \/ fs2[f].size >= fs[f].size
             /\ \A i \in Offsets : i < fs2[f].size =>
                   fs2[f].data[i] = sy[f].data[i] \/ fs2[f].data[i] = fs[f].data[i]
             /\ fs2[f].size \in -1..MaxBlockFileSize /\ sy[f].size \in Int /\ fs[f].size \in Int
  <2>1. sy[f] \in Files /\ fs[f] \in Files /\ fs2[f] \in Files
    OBVIOUS
  <2>2. fs2[f] \in AfterPowerLoss(sy[f], fs[f])
    OBVIOUS
  <2>3. /\ fs2[f].size >= sy[f].size \/ fs2[f].size >= fs[f].size
        /\ \A i \in Offsets : i < fs2[f].size =>
              fs2[f].data[i] = sy[f].data[i] \/ fs2[f].data[i] = fs[f].data[i]
    BY <2>1, <2>2, PowerLossFacts
  <2>4. fs2[f].size \in -1..MaxBlockFileSize /\ sy[f].size \in Int /\ fs[f].size \in Int
    BY <2>1, ConstantFacts DEF Files
  <2> QED
    BY <2>3, <2>4
<1>2. Reach(fs2, p)
  <2>1. p[1] \in FileNums /\ p[2] \in Nat
    BY PositionFacts
  <2>2. Lower(fs2, p[1])
    BY <1>1 DEF Backed, Reach, Lower, Exists
  <2>3. fs2[p[1]].size >= p[2] \/ p = <<0, 0>>
    BY <1>1, <2>1 DEF Backed, Reach
  <2> QED
    BY <2>2, <2>3 DEF Reach
<1>3. ASSUME NEW b \in Blocks, rows[b] # None
      PROVE  AtMost(End(b, rows[b]), p) /\ Readable(fs2, b, rows[b])
  <2> DEFINE f == rows[b][1]
             o == rows[b][2]
  <2>1. f \in FileNums /\ o \in Nat /\ Size[b] \in 1..MaxBlockFileSize /\ MaxBlockFileSize \in Nat
    BY <1>3, RowFacts, PositionFacts, ConstantFacts
  <2>2. AtMost(End(b, rows[b]), p) /\ Readable(fs, b, rows[b]) /\ Readable(sy, b, rows[b])
    BY <1>3 DEF Backed
  <2>3. o + Size[b] <= fs[f].size /\ o + Size[b] <= sy[f].size
    BY <2>2 DEF Readable
  <2>4. o + Size[b] <= fs2[f].size
    BY <1>1, <2>1, <2>3
  <2>5. ASSUME NEW i \in 0..(Size[b] - 1) PROVE fs2[f].data[o + i] = <<b, i>>
    <3>1. o + i \in Offsets /\ o + i < fs2[f].size
      BY <1>1, <2>1, <2>4 DEF Offsets
    <3>2. sy[f].data[o + i] = <<b, i>> /\ fs[f].data[o + i] = <<b, i>>
      BY <2>2 DEF Readable
    <3> QED
      BY <1>1, <2>1, <3>1, <3>2
  <2> QED
    BY <2>2, <2>4, <2>5 DEF Readable
<1> QED
  BY <1>2, <1>3 DEF Backed

(***************************************************************************)
(* handleRollback keeps what is below the position, and opens, syncs or    *)
(* leaves the file there.                                                  *)
(***************************************************************************)
LEMMA FailsOrWorks ==
    ASSUME faults \in 0..MaxFaults, Fails \/ Works
    PROVE  faults' \in 0..MaxFaults
  BY ConstantFacts DEF Fails, Works

LEMMA RollbackFacts ==
    ASSUME files \in [FileNums -> Files], synced \in [FileNums -> Files], faults \in 0..MaxFaults,
           NEW cur \in CursorType, NEW pos \in Positions, pos[1] <= cur.file, Reach(files, pos),
           handleRollback(cur, pos)
    PROVE  /\ files' \in [FileNums -> Files] /\ synced' \in [FileNums -> Files]
           /\ cursor' \in CursorType /\ faults' \in 0..MaxFaults
           /\ Kept(files, files', pos)
           /\ RolledBack(synced, synced', files', cur, cursor', pos)
<1> DEFINE f == pos[1]
           deleted == DeletedDownTo(f + 1, cur.file)
           opened == [deleted EXCEPT ![f] = OpenedFile(@)]
           truncated == [opened EXCEPT ![f] = Truncate(@, pos[2])]
<1>1. /\ f \in FileNums /\ f \in Nat /\ pos[2] \in 0..MaxBlockFileSize /\ FileNums \subseteq Nat
      /\ cur.file \in Nat /\ MaxBlockFileSize \in Nat
  BY PositionFacts, ConstantFacts DEF FileNums, CursorType
<1>2. ASSUME NEW x \in Int, x > f
      PROVE  /\ DeletedDownTo(x, cur.file) \in [FileNums -> Files]
             /\ \A g \in FileNums : g <= f => DeletedDownTo(x, cur.file)[g] = files[g]
  <2>1. \A g \in FileNums : g <= f => g \notin x..cur.file
    BY <1>1, <1>2
  <2> QED
    BY <2>1, NoFileType DEF DeletedDownTo
<1>3. ASSUME NEW x \in Int, x > f
      PROVE  Kept(files, DeletedDownTo(x, cur.file), pos)
  <2>1. \A g \in FileNums : g <= f => DeletedDownTo(x, cur.file)[g] = files[g]
    BY <1>2, <1>3
  <2>2. \A g \in FileNums : files[g].size \in Int
    BY DEF Files
  <2> QED
    BY <2>1, <2>2, <1>1 DEF Kept
<1>4. deleted \in [FileNums -> Files] /\ \A g \in FileNums : g <= f => deleted[g] = files[g]
  BY <1>2, <1>1
<1>5. /\ opened \in [FileNums -> Files] /\ opened[f] = OpenedFile(files[f])
      /\ \A g \in FileNums : g < f => opened[g] = files[g]
  <2>1. OpenedFile(deleted[f]) \in Files
    BY <1>1, <1>4, OpenedFacts
  <2> QED
    BY <1>1, <1>4, <2>1
<1>6. files[f] \in Files /\ opened[f] \in Files /\ files[f].size \in Int /\ opened[f].size \in Int
  BY <1>1, <1>5 DEF Files
<1>7. opened[f].size >= files[f].size /\ \A i \in Offsets : i < pos[2] => opened[f].data[i] = files[f].data[i]
  <2>1. files[f].size >= pos[2] \/ pos[2] = 0
    BY DEF Reach
  <2>2. files[f].size >= 0 => opened[f] = files[f]
    BY <1>5, <1>6, OpenedFacts
  <2>3. \A i \in Offsets : i >= 0
    BY <1>1 DEF Offsets
  <2>4. opened[f].size >= files[f].size
    BY <1>5, <1>6, OpenedFacts
  <2> HIDE DEF opened
  <2> QED
    BY <2>1, <2>2, <2>3, <2>4, <1>1, <1>6 DEF Offsets
<1>8. Kept(files, opened, pos)
  BY <1>1, <1>5, <1>7 DEF Kept
<1>9. /\ truncated \in [FileNums -> Files] /\ truncated[f] = Truncate(opened[f], pos[2])
      /\ \A g \in FileNums : g < f => truncated[g] = files[g]
  <2>1. Truncate(opened[f], pos[2]) \in Files
    BY <1>1, <1>6, TruncateFacts
  <2> HIDE DEF opened
  <2> QED
    BY <1>1, <1>5, <2>1
<1>10. Kept(files, truncated, pos)
  <2> HIDE DEF truncated, opened
  <2>1. truncated[f].size = pos[2] /\ \A i \in Offsets : i < pos[2] => truncated[f].data[i] = opened[f].data[i]
    <3> DEFINE x == opened[f]
               y == Truncate(x, pos[2])
    <3>1. x \in Files /\ truncated[f] = y
      BY <1>6, <1>9
    <3> HIDE DEF x
    <3>2. y.size = pos[2] /\ \A i \in Offsets : i < pos[2] => y.data[i] = x.data[i]
      BY <1>1, <3>1, TruncateFacts
    <3> HIDE DEF y
    <3> QED
      BY <3>1, <3>2 DEF x
  <2> QED
    BY <2>1, <1>1, <1>7, <1>9 DEF Kept
<1>11. \A o \in BOOLEAN : /\ Reposition(pos, o) \in CursorType
                          /\ Reposition(pos, o).file = f /\ Reposition(pos, o).off = pos[2]
                          /\ Reposition(pos, o).open = o
  BY <1>1 DEF Reposition, CursorType
<1> HIDE DEF deleted, opened, truncated
<1>12. CASE /\ cur.file = f /\ cur.off = pos[2] /\ cursor' = cur
            /\ UNCHANGED diskVars /\ Works
  <2>1. files' = files /\ synced' = synced
    BY <1>12 DEF diskVars
  <2>2. Kept(files, files, pos)
    BY <1>1, <1>6 DEF Kept
  <2> QED
    BY <1>12, <2>1, <2>2, FailsOrWorks DEF RolledBack
<1>13. CASE /\ files' = truncated /\ synced' = [synced EXCEPT ![f] = truncated[f]]
            /\ cursor' = Reposition(pos, TRUE) /\ Works
  <2>1. synced' \in [FileNums -> Files]
    BY <1>13, <1>9, <1>1
  <2> QED
    BY <1>13, <1>9, <1>10, <1>11, <2>1, FailsOrWorks DEF RolledBack
<1>14. CASE /\ Fails /\ ~(cur.file = f /\ cur.open) /\ files' = deleted
            /\ cursor' = Reposition(pos, FALSE) /\ UNCHANGED synced
  <2>1. Kept(files, deleted, pos)
    BY <1>3, <1>1 DEF deleted
  <2> QED
    BY <1>14, <1>4, <2>1, <1>11, FailsOrWorks DEF RolledBack
<1>15. CASE /\ Fails /\ files' \in {opened, truncated}
            /\ cursor' = Reposition(pos, TRUE) /\ UNCHANGED synced
  BY <1>15, <1>5, <1>8, <1>9, <1>10, <1>11, FailsOrWorks DEF RolledBack
<1>16. CASE \E g \in (f + 1)..cur.file :
               /\ CanDelete(g + 1, cur.file)
               /\ IF Exists(files[g]) THEN Fails ELSE Works
               /\ files' = DeletedDownTo(g + 1, cur.file)
               /\ cursor' = Reposition(pos, FALSE)
               /\ UNCHANGED synced
  <2>1. PICK g \in (f + 1)..cur.file :
               /\ IF Exists(files[g]) THEN Fails ELSE Works
               /\ files' = DeletedDownTo(g + 1, cur.file)
               /\ cursor' = Reposition(pos, FALSE)
               /\ UNCHANGED synced
    BY <1>16
  <2>2. g + 1 \in Int /\ g + 1 > f /\ cur.file # f
    BY <1>1
  <2>3. faults' \in 0..MaxFaults
    BY <2>1, FailsOrWorks
  <2> QED
    BY <2>1, <2>2, <2>3, <1>2, <1>3, <1>11 DEF RolledBack
<1> QED
  BY <1>12, <1>13, <1>14, <1>15, <1>16 DEF handleRollback, deleted, opened, truncated

(***************************************************************************)
(* scanBlockFiles finds at least the position that the files reach.        *)
(***************************************************************************)
LEMMA NextFileFacts ==
    /\ NextFile \in 0..(MaxFile + 1)
    /\ NextFile = MaxFile + 1 \/ ~Exists(files[NextFile])
    /\ \A g \in FileNums : g < NextFile => Exists(files[g])
<1> DEFINE missing == {n \in 0..(MaxFile + 1) : n = MaxFile + 1 \/ ~Exists(files[n])}
<1>1. MaxFile \in Nat
  BY ConstantFacts
<1>2. missing \subseteq Nat /\ MaxFile + 1 \in missing
  BY <1>1
<1> HIDE DEF missing
<1> DEFINE LessThan == {ss \in Nat \X Nat : ss[1] < ss[2]}
<1>3. IsWellFoundedOn(LessThan, Nat)
  BY NatLessThanWellFounded, Zenon DEF OpToRel
<1>4. \E n \in missing : \A m \in missing : n <= m
  <2> HIDE DEF LessThan
  <2>1. PICK n \in missing : \A m \in missing : ~(<<m, n>> \in LessThan)
    BY <1>2, <1>3, WFMin, Zenon
  <2>2. ASSUME NEW m \in missing PROVE n <= m
    <3>1. m \in Nat /\ n \in Nat
      BY <1>2
    <3>2. <<m, n>> \in Nat \X Nat /\ <<m, n>>[1] = m /\ <<m, n>>[2] = n
      BY <3>1
    <3>3. m < n => <<m, n>> \in LessThan
      BY <3>2 DEF LessThan
    <3> QED
      BY <2>1, <3>1, <3>3
  <2> QED
    BY <2>2
<1>5. NextFile \in missing /\ \A m \in missing : NextFile <= m
  BY <1>4 DEF NextFile, missing
<1> QED
  BY <1>1, <1>5 DEF missing, FileNums

LEMMA ScanFacts ==
    ASSUME files \in [FileNums -> Files], NEW p \in Positions, Reach(files, p)
    PROVE  /\ scanBlockFiles \in CursorType /\ ~scanBlockFiles.open
           /\ ~Before(scanBlockFiles, p)
<1>1. /\ MaxFile \in Nat /\ MaxBlockFileSize \in Nat
      /\ p[1] \in FileNums /\ p[1] \in Nat /\ p[2] \in Nat /\ p = <<p[1], p[2]>>
  BY PositionFacts, ConstantFacts
<1>2. CASE NextFile = 0
  <2>1. scanBlockFiles = [file |-> 0, off |-> 0, open |-> FALSE]
    BY <1>2 DEF scanBlockFiles
  <2>2. 0 \in FileNums /\ ~Exists(files[0])
    BY <1>1, <1>2, NextFileFacts DEF FileNums
  <2>3. p = <<0, 0>>
    <3>1. ~(0 < p[1])
      BY <2>2 DEF Reach, Lower
    <3>2. p[1] = 0
      BY <1>1, <3>1
    <3>3. files[0].size \in Int
      BY <2>2 DEF Files
    <3>4. ~(files[0].size >= p[2])
      BY <2>2, <3>3, <1>1 DEF Exists
    <3> QED
      BY <3>2, <3>4 DEF Reach
  <2> QED
    BY <2>1, <2>2, <2>3, <1>1 DEF CursorType, Before
<1>3. CASE NextFile # 0
  <2> DEFINE last == NextFile - 1
  <2>1. last \in FileNums /\ last \in Nat /\ Exists(files[last])
    BY <1>1, <1>3, NextFileFacts DEF FileNums
  <2>2. scanBlockFiles = [file |-> last, off |-> files[last].size, open |-> FALSE]
    BY <1>3 DEF scanBlockFiles
  <2>3. files[last].size \in 0..MaxBlockFileSize
    <3>1. files[last] \in Files
      BY <2>1
    <3> QED
      BY <2>1, <3>1, <1>1 DEF Files, Exists
  <2>4. p[1] <= last
    <3>1. SUFFICES ASSUME p[1] > last PROVE FALSE
      BY <1>1, <2>1
    <3>2. NextFile \in FileNums /\ ~Exists(files[NextFile])
      BY <1>1, <3>1, NextFileFacts DEF FileNums
    <3>3. CASE NextFile < p[1]
      BY <3>2, <3>3 DEF Reach, Lower
    <3>4. CASE NextFile = p[1]
      <4>1. files[p[1]].size >= p[2] \/ p = <<0, 0>>
        BY DEF Reach
      <4>2. files[p[1]].size \in Int
        BY <1>1 DEF Files
      <4>3. ~(files[p[1]].size >= 0)
        BY <3>2, <3>4 DEF Exists
      <4> QED
        BY <4>1, <4>2, <4>3, <1>1, <1>3, <3>4
    <3> QED
      BY <3>1, <3>3, <3>4, <1>1, NextFileFacts
  <2>5. p[1] = last => files[last].size >= p[2]
    BY <2>3, <1>1 DEF Reach
  <2> HIDE DEF last
  <2> QED
    BY <2>1, <2>2, <2>3, <2>4, <2>5, <1>1 DEF CursorType, Before
<1> QED
  BY <1>2, <1>3

-----------------------------------------------------------------------------
(***************************************************************************)
(* Overlays.                                                               *)
(***************************************************************************)
LEMMA OverlayFacts ==
    ASSUME NEW rows \in Rows, NEW keys \in Rows, NEW remove \in SUBSET Keys
    PROVE  /\ Overlay(rows, keys, remove) \in Rows
           /\ \A b \in Blocks \cup {WriteLoc} :
                 Overlay(rows, keys, remove)[b] = IF keys[b] # None THEN keys[b] ELSE rows[b]
<1> DEFINE o == Overlay(rows, keys, remove)
<1>1. o = [k \in DbKeys |-> IF k \in remove THEN None
                            ELSE IF keys[k] # None THEN keys[k] ELSE rows[k]]
  BY DEF Overlay
<1>2. \A k \in DbKeys : o[k] = keys[k] \/ o[k] = rows[k] \/ o[k] = None
  BY <1>1
<1>3. \A b \in Blocks \cup {WriteLoc} : b \in DbKeys /\ b \notin remove
  BY ConstantFacts DEF DbKeys
<1>4. \A b \in Blocks \cup {WriteLoc} : o[b] = IF keys[b] # None THEN keys[b] ELSE rows[b]
  BY <1>1, <1>3
<1> HIDE DEF o
<1>5. \A k \in Keys : o[k] \in Values \cup {None}
  BY <1>2, RowFacts DEF DbKeys
<1>6. \A b \in Blocks \cup {WriteLoc} : o[b] \in Positions \cup {None}
  BY <1>4, RowFacts
<1>7. o \in [DbKeys -> Positions \cup Values \cup {None}]
  <2>1. \A k \in DbKeys : o[k] \in Positions \cup Values \cup {None}
    BY <1>5, <1>6 DEF DbKeys
  <2>2. o = [k \in DbKeys |-> o[k]]
    BY <1>1
  <2> QED
    BY <2>1, <2>2
<1> QED
  BY <1>4, <1>5, <1>6, <1>7 DEF o, Rows

LEMMA OverlayNothing ==
    ASSUME NEW rows \in Rows
    PROVE  Overlay(rows, NoKeys, {}) = rows
  BY DEF Overlay, NoKeys, Rows

LEMMA OverlayTwice ==
    ASSUME NEW rows, NEW keys, NEW remove
    PROVE  Overlay(Overlay(rows, keys, remove), keys, remove) = Overlay(rows, keys, remove)
  BY DEF Overlay

LEMMA OverlayOfOverlay ==
    ASSUME NEW t, t.remove \subseteq DbKeys
    PROVE  Overlay(ldb, Overlay(cachedKeys, t.keys, t.remove), RemovedWith(t))
             = Overlay(View, t.keys, t.remove)
<1>1. \A k \in DbKeys :
         Overlay(ldb, Overlay(cachedKeys, t.keys, t.remove), RemovedWith(t))[k]
           = Overlay(View, t.keys, t.remove)[k]
  BY DEF Overlay, View, RemovedWith
<1> QED
  BY <1>1 DEF Overlay

LEMMA BackedOverlay ==
    ASSUME NEW rows \in Rows, NEW keys \in Rows, NEW remove \in SUBSET Keys,
           NEW p \in Positions, NEW q \in Positions, NEW fs, AtMost(p, q),
           Backed(rows, p, fs), Backed(keys, q, fs)
    PROVE  Backed(Overlay(rows, keys, remove), q, fs)
<1> DEFINE o == Overlay(rows, keys, remove)
<1>1. ASSUME NEW b \in Blocks, o[b] # None
      PROVE  AtMost(End(b, o[b]), q) /\ Readable(fs, b, o[b])
  <2>1. o[b] = IF keys[b] # None THEN keys[b] ELSE rows[b]
    BY OverlayFacts
  <2>2. CASE keys[b] # None
    BY <2>1, <2>2 DEF Backed
  <2>3. CASE keys[b] = None
    <3>1. rows[b] # None /\ o[b] = rows[b] /\ rows[b] \in Positions
      BY <1>1, <2>1, <2>3, RowFacts
    <3>2. AtMost(End(b, rows[b]), p) /\ Readable(fs, b, rows[b])
      BY <3>1 DEF Backed
    <3>3. AtMost(End(b, rows[b]), q)
      BY <3>1, <3>2, EndType, PositionFacts, AtMostTransitive
    <3> QED
      BY <3>1, <3>2, <3>3
  <2> QED
    BY <2>2, <2>3
<1>2. Reach(fs, q)
  BY DEF Backed
<1> QED
  BY <1>1, <1>2 DEF Backed

LEMMA AlmostBackedOverlay ==
    ASSUME NEW rows \in Rows, NEW keys \in Rows, NEW remove \in SUBSET Keys,
           NEW p, NEW q, NEW c, NEW fs,
           AlmostBacked(rows, p, c, fs), AlmostBacked(keys, q, c, fs)
    PROVE  AlmostBacked(Overlay(rows, keys, remove), q, c, fs)
  BY OverlayFacts DEF AlmostBacked

-----------------------------------------------------------------------------
(***************************************************************************)
(* The types of the parts of the state.                                    *)
(***************************************************************************)
TxType == [step : Steps, closing : BOOLEAN, blocks : Seq(Blocks), keys : Rows,
           remove : SUBSET Keys, from : Positions]

LEMMA TypeFacts ==
    ASSUME TypeOK
    PROVE  /\ files \in [FileNums -> Files] /\ synced \in [FileNums -> Files]
           /\ ldb \in Rows /\ ldb[WriteLoc] \in Positions /\ cachedKeys \in Rows
           /\ cachedRemove \in SUBSET Keys /\ cursor \in CursorType /\ tx \in TxType
           /\ faults \in 0..MaxFaults
  BY DEF TypeOK, CursorType, TxType

LEMMA TypeFromParts ==
    ASSUME files \in [FileNums -> Files], synced \in [FileNums -> Files],
           ldb \in Rows, ldb[WriteLoc] \in Positions, cachedKeys \in Rows,
           cachedRemove \in SUBSET Keys, cursor \in CursorType, tx \in TxType,
           status \in {"up", "down", "corrupt"}, faults \in 0..MaxFaults
    PROVE  TypeOK
  BY DEF TypeOK, CursorType, TxType

LEMMA CursorFacts ==
    ASSUME NEW c \in CursorType
    PROVE  /\ c.file \in FileNums /\ c.file \in Nat /\ c.off \in 0..MaxBlockFileSize /\ c.off \in Nat
           /\ c.open \in BOOLEAN /\ <<c.file, c.off>> \in Positions
           /\ c = [file |-> c.file, off |-> c.off, open |-> c.open]
  BY ConstantFacts DEF CursorType, FileNums, Positions

LEMMA TxFacts ==
    ASSUME NEW t \in TxType
    PROVE  /\ t.step \in Steps /\ t.closing \in BOOLEAN /\ t.blocks \in Seq(Blocks)
           /\ t.keys \in Rows /\ t.remove \in SUBSET Keys /\ t.from \in Positions
  BY DEF TxType

LEMMA NoKeysFacts ==
    NoKeys \in Rows /\ NoBlockRows(NoKeys)
  BY DEF NoKeys, NoBlockRows, Rows, DbKeys

LEMMA NoTxFacts ==
    /\ NoTx \in TxType
    /\ NoTx.step = "none" /\ ~NoTx.closing /\ NoTx.keys = NoKeys /\ NoTx.remove = {}
    /\ NoTx.blocks = <<>>
<1>1. <<0, 0>> \in Positions
  BY ConstantFacts DEF Positions, FileNums
<1> QED
  BY <1>1, NoKeysFacts DEF NoTx, TxType, Steps

LEMMA RowExcept ==
    ASSUME NEW rows \in Rows, NEW k \in DbKeys, NEW v,
           \/ k \in Blocks \cup {WriteLoc} /\ v \in Positions
           \/ k \in Keys /\ v \in Values \cup {None}
    PROVE  [rows EXCEPT ![k] = v] \in Rows
<1>1. Blocks \cap Keys = {} /\ WriteLoc \notin Keys
  BY ConstantFacts
<1> QED
  BY <1>1 DEF Rows, DbKeys

LEMMA PutKeyFacts ==
    ASSUME NEW t \in TxType, NEW k \in DbKeys, NEW v,
           \/ k \in Blocks \cup {WriteLoc} /\ v \in Positions
           \/ k \in Keys /\ v \in Values \cup {None}
    PROVE  /\ putKey(t, k, v) \in TxType
           /\ putKey(t, k, v).keys = [t.keys EXCEPT ![k] = v]
           /\ putKey(t, k, v).remove = t.remove \ {k}
           /\ putKey(t, k, v).step = t.step /\ putKey(t, k, v).closing = t.closing
           /\ putKey(t, k, v).blocks = t.blocks /\ putKey(t, k, v).from = t.from
<1>1. [t.keys EXCEPT ![k] = v] \in Rows
  BY RowExcept, TxFacts
<1> QED
  BY <1>1 DEF putKey, TxType

LEMMA ViewFacts ==
    ASSUME TypeOK
    PROVE  View \in Rows /\ View[WriteLoc] \in Positions /\ Cur \in Positions
<1>1. View \in Rows /\ View[WriteLoc] = IF cachedKeys[WriteLoc] # None THEN cachedKeys[WriteLoc] ELSE ldb[WriteLoc]
  BY TypeFacts, OverlayFacts DEF View
<1>2. cachedKeys[WriteLoc] \in Positions \cup {None}
  BY TypeFacts, RowFacts
<1> QED
  BY <1>1, <1>2, TypeFacts, CursorFacts DEF Cur

LEMMA EmptyCacheView ==
    ASSUME TypeOK, CacheEmpty
    PROVE  View = ldb
  BY TypeFacts, OverlayNothing DEF View, CacheEmpty

LEMMA NoRowsBacked ==
    ASSUME NEW rows, NoBlockRows(rows), NEW p, NEW c, NEW fs
    PROVE  /\ Reach(fs, p) => Backed(rows, p, fs)
           /\ AlmostReach(p, c, fs) => AlmostBacked(rows, p, c, fs)
  BY DEF NoBlockRows, Backed, AlmostBacked

LEMMA AtMostReflexive ==
    ASSUME NEW p \in Positions
    PROVE  AtMost(p, p)
  BY PositionFacts DEF AtMost

-----------------------------------------------------------------------------
LEMMA InitInv == Init => Inv
<1> SUFFICES ASSUME Init PROVE Inv
  OBVIOUS
<1>1. /\ files = [f \in FileNums |-> NoFile] /\ synced = files
      /\ ldb = [NoKeys EXCEPT ![WriteLoc] = <<0, 0>>]
      /\ cachedKeys = NoKeys /\ cachedRemove = {}
      /\ cursor = [file |-> 0, off |-> 0, open |-> FALSE]
      /\ tx = NoTx /\ status = "up" /\ faults = 0
  BY DEF Init
<1>2. WriteLoc \in DbKeys /\ WriteLoc \notin Blocks /\ <<0, 0>> \in Positions /\ 0 \in FileNums
  BY ConstantFacts DEF DbKeys, Positions, FileNums
<1>3. ldb \in Rows /\ ldb[WriteLoc] = <<0, 0>> /\ \A b \in Blocks : ldb[b] = None
  <2>1. ldb \in Rows
    BY <1>1, <1>2, NoKeysFacts, RowExcept
  <2> QED
    BY <1>1, <1>2, <2>1 DEF NoKeys, DbKeys
<1>4. TypeOK
  <2>1. cursor \in CursorType
    BY <1>1, <1>2, ConstantFacts DEF CursorType
  <2>2. files \in [FileNums -> Files] /\ synced \in [FileNums -> Files]
    BY <1>1, NoFileType
  <2>3. faults \in 0..MaxFaults
    BY <1>1, ConstantFacts
  <2> QED
    BY <1>1, <1>2, <1>3, <2>1, <2>2, <2>3, NoKeysFacts, NoTxFacts, TypeFromParts
<1>5. View = ldb
  BY <1>1, <1>4, EmptyCacheView DEF CacheEmpty
<1>6. Cur = <<0, 0>> /\ NoBlockRows(tx.keys) /\ tx.step = "none" /\ ~tx.closing
  BY <1>1, NoKeysFacts, NoTxFacts DEF Cur
<1>7. Reach(files, <<0, 0>>) /\ Reach(synced, <<0, 0>>) /\ Lower(synced, 0)
  BY <1>1, ConstantFacts DEF Reach, Lower, FileNums
<1>8. Backed(ldb, <<0, 0>>, files) /\ Backed(ldb, <<0, 0>>, synced)
  BY <1>3, <1>7 DEF Backed
<1>9. TxInv
  BY <1>1, <1>6 DEF TxInv
<1>10. CursorInv
  BY <1>1, <1>2, <1>3, <1>5, <1>6, <1>7, AtMostReflexive DEF CursorInv, Writing
<1>11. FilesInv
  BY <1>3, <1>5, <1>6, <1>8 DEF FilesInv
<1>12. SyncedInv
  BY <1>1, <1>3, <1>5, <1>6, <1>7, <1>8, BackedIsAlmost, NoRowsBacked
     DEF SyncedInv, Writing, AlmostReach
<1> QED
  BY <1>1, <1>4, <1>9, <1>10, <1>11, <1>12 DEF Inv, AlwaysOpens

(***************************************************************************)
(* Steps that change only the transaction.                                 *)
(***************************************************************************)
LEMMA QuietInv ==
    ASSUME Inv, status = "up", UNCHANGED <<diskVars, ldb, cacheVars, cursor, status, faults>>,
           tx' \in TxType, TxInv', tx.step # "rollback",
           tx'.step \in {"none", "open", "write", "sync"},
           tx'.step = "write" => tx'.from = Cur,
           \A b \in Blocks : tx'.keys[b] = None \/ (tx.step = "write" /\ tx'.keys[b] = tx.keys[b])
    PROVE  Inv'
<1>0. TypeOK /\ CursorInv /\ FilesInv /\ (PowerLoss => SyncedInv) /\ AlwaysOpens
  BY DEF Inv
<1>1. /\ files' = files /\ synced' = synced /\ ldb' = ldb /\ cachedKeys' = cachedKeys
      /\ cachedRemove' = cachedRemove /\ cursor' = cursor /\ status' = status /\ faults' = faults
  BY DEF diskVars, cacheVars
<1>2. View' = View /\ Cur' = Cur
  BY <1>1 DEF View, Cur
<1>3. TypeOK'
  BY <1>0, <1>1, TypeFacts DEF TypeOK, TxType
<1>4. Reach(files, Cur) /\ AtMost(View[WriteLoc], Cur) /\ AtMost(Cur, Cur)
  BY <1>0, ViewFacts, AtMostReflexive DEF CursorInv
<1>5. CursorInv'
  BY <1>0, <1>1, <1>2, <1>4 DEF CursorInv, Writing
<1>6. Backed(tx'.keys, Cur, files)
  <2>1. ASSUME NEW b \in Blocks, tx'.keys[b] # None
        PROVE  AtMost(End(b, tx'.keys[b]), Cur) /\ Readable(files, b, tx'.keys[b])
    <3>1. tx.step = "write" /\ tx'.keys[b] = tx.keys[b]
      BY <2>1
    <3>2. Backed(tx.keys, Cur, files)
      BY <1>0, <3>1 DEF FilesInv
    <3> QED
      BY <3>1, <3>2, <2>1 DEF Backed
  <2> QED
    BY <2>1, <1>4 DEF Backed
<1>7. FilesInv'
  BY <1>0, <1>1, <1>2, <1>6 DEF FilesInv
<1>8. ASSUME PowerLoss PROVE SyncedInv'
  <2>1. SyncedInv
    BY <1>0, <1>8
  <2>2. AlmostBacked(tx.keys, Cur, cursor, synced)
    BY <2>1 DEF SyncedInv
  <2>3. AlmostReach(Cur, cursor, synced)
    BY <2>2 DEF AlmostBacked
  <2>4. AlmostBacked(tx'.keys, Cur, cursor, synced)
    <3>1. \A b \in Blocks : tx'.keys[b] # None => tx'.keys[b] = tx.keys[b]
      OBVIOUS
    <3> QED
      BY <3>1, <2>2 DEF AlmostBacked
  <2>5. tx'.step # "rollback" /\ tx'.step \notin {"flush", "clear", "direct"}
    OBVIOUS
  <2> QED
    BY <2>1, <2>3, <2>4, <2>5, <1>1, <1>2 DEF SyncedInv, Writing
<1> QED
  BY <1>0, <1>1, <1>3, <1>5, <1>7, <1>8 DEF Inv, AlwaysOpens

LEMMA QuietActionsInv ==
    ASSUME Inv,
           \/ Begin \/ Rollback \/ Commit \/ Close \/ NeedsFlush
           \/ \E k \in Keys : Delete(k) \/ \E v \in Values : Put(k, v)
           \/ \E b \in Blocks : StoreBlock(b)
    PROVE  Inv'
<1>0. TypeOK /\ TxInv
  BY DEF Inv
<1>1. tx \in TxType /\ cursor \in CursorType /\ Cur \in Positions
  BY <1>0, TypeFacts, ViewFacts
<1>2. tx.step # "none" => status = "up"
  BY <1>0 DEF TxInv
<1>3. \A k \in Keys : k \in DbKeys /\ k \notin Blocks \cup {WriteLoc}
  BY ConstantFacts DEF DbKeys
<1>4. CASE Begin
  <2>1. /\ status = "up" /\ tx.step = "none" /\ tx' = [NoTx EXCEPT !.step = "open"]
        /\ UNCHANGED <<diskVars, ldb, cacheVars, cursor, status, faults>>
    BY <1>4 DEF Begin
  <2>2. tx' \in TxType /\ tx'.step = "open" /\ ~tx'.closing /\ NoBlockRows(tx'.keys)
    BY <2>1, NoTxFacts, NoKeysFacts DEF TxType, Steps
  <2>3. TxInv'
    BY <2>1, <2>2 DEF TxInv, NoBlockRows
  <2> QED
    BY <2>1, <2>2, <2>3, QuietInv DEF NoBlockRows
<1>5. CASE Rollback
  <2>1. /\ status = "up" /\ tx.step = "open" /\ tx' = NoTx
        /\ UNCHANGED <<diskVars, ldb, cacheVars, cursor, status, faults>>
    BY <1>2, <1>5 DEF Rollback
  <2>2. tx' \in TxType /\ tx'.step = "none" /\ ~tx'.closing /\ NoBlockRows(tx'.keys)
    BY <2>1, NoTxFacts, NoKeysFacts
  <2>3. TxInv'
    BY <2>1, <2>2 DEF TxInv, NoBlockRows
  <2> QED
    BY <2>1, <2>2, <2>3, QuietInv DEF NoBlockRows
<1>6. CASE Commit
  <2>1. /\ status = "up" /\ tx.step = "open" /\ tx' = [tx EXCEPT !.step = "write", !.from = Cur]
        /\ UNCHANGED <<diskVars, ldb, cacheVars, cursor, status, faults>>
    BY <1>2, <1>6 DEF Commit, Cur
  <2>2. /\ tx' \in TxType /\ tx'.step = "write" /\ tx'.closing = tx.closing /\ tx'.keys = tx.keys
        /\ tx'.from = Cur
    BY <2>1, <1>1 DEF TxType, Steps
  <2>3. NoBlockRows(tx'.keys) /\ ~tx'.closing
    BY <1>0, <2>1, <2>2 DEF TxInv
  <2>4. TxInv'
    BY <2>1, <2>2, <2>3 DEF TxInv, NoBlockRows
  <2> QED
    BY <2>1, <2>2, <2>3, <2>4, QuietInv DEF NoBlockRows
<1>7. CASE Close
  <2>1. /\ status = "up" /\ tx.step = "none" /\ tx' = [NoTx EXCEPT !.step = "sync", !.closing = TRUE]
        /\ UNCHANGED <<diskVars, ldb, cacheVars, cursor, status, faults>>
    BY <1>7 DEF Close
  <2>2. /\ tx' \in TxType /\ tx'.step = "sync" /\ tx'.closing /\ NoBlockRows(tx'.keys)
        /\ tx'.blocks = <<>>
    BY <2>1, NoTxFacts, NoKeysFacts DEF TxType, Steps
  <2>3. TxInv'
    BY <2>1, <2>2 DEF TxInv, NoBlockRows
  <2> QED
    BY <2>1, <2>2, <2>3, QuietInv DEF NoBlockRows
<1>8. CASE NeedsFlush
  <2> DEFINE t == WithCursor(tx)
  <2>1. /\ status = "up" /\ tx.step = "write" /\ tx.blocks = <<>> /\ tx' = [t EXCEPT !.step = "sync"]
        /\ UNCHANGED <<diskVars, ldb, cacheVars, cursor, status, faults>>
    BY <1>2, <1>8 DEF NeedsFlush
  <2>2. /\ t \in TxType /\ t.keys = [tx.keys EXCEPT ![WriteLoc] = Cur] /\ t.closing = tx.closing
        /\ t.blocks = tx.blocks
    BY <1>1, PutKeyFacts DEF WithCursor, Cur, DbKeys
  <2> HIDE DEF t
  <2>3. /\ tx' \in TxType /\ tx'.step = "sync" /\ tx'.closing = t.closing /\ tx'.keys = t.keys
        /\ tx'.blocks = t.blocks
    BY <2>1, <2>2 DEF TxType, Steps
  <2>4. tx.keys \in Rows /\ WriteLoc \in DbKeys /\ WriteLoc \notin Blocks /\ Blocks \subseteq DbKeys
    BY <1>1, TxFacts, ConstantFacts DEF DbKeys
  <2>5. tx'.keys[WriteLoc] = Cur /\ \A b \in Blocks : tx'.keys[b] = tx.keys[b]
    BY <2>2, <2>3, <2>4, RowFacts
  <2>6. ~tx'.closing /\ Cur' = Cur
    BY <1>0, <2>1, <2>2, <2>3 DEF TxInv, Cur
  <2>7. TxInv'
    BY <2>1, <2>2, <2>3, <2>5, <2>6 DEF TxInv
  <2> QED
    BY <2>1, <2>3, <2>5, <2>7, QuietInv
<1>9. ASSUME NEW k \in Keys, Delete(k) \/ \E v \in Values : Put(k, v) PROVE Inv'
  <2>1. /\ status = "up" /\ tx.step = "open"
        /\ UNCHANGED <<diskVars, ldb, cacheVars, cursor, status, faults>>
        /\ k \in DbKeys /\ k \notin Blocks \cup {WriteLoc}
    BY <1>2, <1>3, <1>9 DEF Delete, Put
  <2>2. /\ tx' \in TxType /\ tx'.step = tx.step /\ tx'.closing = tx.closing
        /\ \E v : tx'.keys = [tx.keys EXCEPT ![k] = v]
    <3>1. CASE Delete(k)
      <4>1. tx' = [tx EXCEPT !.keys[k] = None, !.remove = @ \cup {k}]
        BY <3>1 DEF Delete, deleteKey
      <4>2. [tx.keys EXCEPT ![k] = None] \in Rows
        BY <1>1, <2>1, <1>9, TxFacts, RowExcept
      <4> QED
        BY <4>1, <4>2, <1>1, <1>9 DEF TxType
    <3>2. ASSUME NEW v \in Values, Put(k, v)
          PROVE  /\ tx' \in TxType /\ tx'.step = tx.step /\ tx'.closing = tx.closing
                 /\ tx'.keys = [tx.keys EXCEPT ![k] = v]
      <4>1. tx' = putKey(tx, k, v)
        BY <3>2 DEF Put
      <4> QED
        BY <4>1, <1>1, <2>1, <1>9, PutKeyFacts
    <3> QED
      BY <1>9, <3>1, <3>2
  <2>3. NoBlockRows(tx.keys) /\ ~tx.closing
    BY <1>0, <2>1 DEF TxInv
  <2>4. NoBlockRows(tx'.keys) /\ ~tx'.closing
    <3>1. tx.keys \in Rows
      BY <1>1, TxFacts
    <3> QED
      BY <3>1, <2>1, <2>2, <2>3 DEF NoBlockRows, Rows
  <2>5. TxInv'
    BY <2>1, <2>2, <2>4 DEF TxInv, NoBlockRows
  <2> QED
    BY <2>1, <2>2, <2>4, <2>5, QuietInv DEF NoBlockRows
<1>10. ASSUME NEW b \in Blocks, StoreBlock(b) PROVE Inv'
  <2>1. /\ status = "up" /\ tx.step = "open" /\ tx' = [tx EXCEPT !.blocks = Append(@, b)]
        /\ UNCHANGED <<diskVars, ldb, cacheVars, cursor, status, faults>>
    BY <1>2, <1>10 DEF StoreBlock
  <2>2. Append(tx.blocks, b) \in Seq(Blocks)
    BY <1>1, TxFacts
  <2>3. tx' \in TxType /\ tx'.step = tx.step /\ tx'.closing = tx.closing /\ tx'.keys = tx.keys
    BY <2>1, <2>2, <1>1 DEF TxType
  <2>4. NoBlockRows(tx'.keys) /\ ~tx'.closing
    BY <1>0, <2>1, <2>3 DEF TxInv
  <2>5. TxInv'
    BY <2>1, <2>3, <2>4 DEF TxInv, NoBlockRows
  <2> QED
    BY <2>1, <2>3, <2>4, <2>5, QuietInv DEF NoBlockRows
<1> QED
  BY <1>4, <1>5, <1>6, <1>7, <1>8, <1>9, <1>10

(***************************************************************************)
(* writeBlock moves the cursor to another file only from a file with       *)
(* blocks in it.                                                           *)
(***************************************************************************)
LEMMA PositionedFacts ==
    ASSUME Inv, tx.step = "write", NEW b \in Blocks, Positioned(b).file <= MaxFile
    PROVE  LET at == Positioned(b) IN
           /\ at \in CursorType /\ at.off + Size[b] <= MaxBlockFileSize
           /\ AtMost(Cur, <<at.file, at.off>>) /\ Lower(files, at.file)
           /\ at.file = cursor.file => at = cursor
           /\ at.file # cursor.file => ~at.open /\ cursor.off > 0
<1> DEFINE at == Positioned(b)
<1>0. TypeOK /\ TxInv /\ CursorInv
  BY DEF Inv
<1>1. /\ cursor \in CursorType /\ cursor.file \in FileNums /\ cursor.file \in Nat /\ cursor.off \in Nat
      /\ Size[b] \in 1..MaxBlockFileSize /\ MaxBlockFileSize \in Nat /\ MaxFile \in Nat
      /\ cursor.off \in 0..MaxBlockFileSize
  BY <1>0, TypeFacts, CursorFacts, ConstantFacts
<1>2. Reach(files, Cur) /\ Cur[1] = cursor.file /\ Cur[2] = cursor.off
  BY <1>0 DEF CursorInv, TxInv, Cur
<1>3. CASE Exceeds(cursor.off + Size[b])
  <2>1. at = [file |-> cursor.file + 1, off |-> 0, open |-> FALSE]
    BY <1>3 DEF Positioned
  <2>2. cursor.off > 0
    BY <1>1, <1>3 DEF Exceeds
  <2>3. at \in CursorType
    BY <2>1, <1>1 DEF CursorType, FileNums
  <2>4. files[cursor.file].size \in Int
    BY <1>0, <1>1, TypeFacts DEF Files
  <2>5. files[cursor.file].size >= cursor.off
    BY <1>1, <1>2, <2>2 DEF Reach, Cur
  <2>6. Lower(files, at.file)
    <3> SUFFICES ASSUME NEW g \in FileNums, g < at.file PROVE Exists(files[g])
      BY DEF Lower
    <3>1. g < cursor.file \/ g = cursor.file
      BY <1>1, <2>1 DEF FileNums
    <3> QED
      BY <3>1, <1>1, <1>2, <2>2, <2>4, <2>5 DEF Reach, Lower, Exists
  <2>7. AtMost(Cur, <<at.file, at.off>>)
    BY <1>1, <1>2, <2>1 DEF AtMost
  <2> QED
    BY <1>1, <2>1, <2>2, <2>3, <2>6, <2>7
<1>4. CASE ~Exceeds(cursor.off + Size[b])
  <2>1. at = cursor
    BY <1>4 DEF Positioned
  <2>2. cursor.off + Size[b] <= MaxBlockFileSize
    BY <1>1, <1>4 DEF Exceeds
  <2> QED
    BY <1>1, <1>2, <2>1, <2>2 DEF Reach, AtMost, Cur
<1> QED
  BY <1>3, <1>4

LEMMA MovedFacts ==
    ASSUME Inv, tx.step = "write", NEW b \in Blocks, Positioned(b).file <= MaxFile,
           PowerLoss, PowerLoss => CloseSyncs,
           NEW sy, sy = IF Positioned(b).file # cursor.file THEN Closed ELSE synced
    PROVE  /\ sy \in [FileNums -> Files] /\ Lower(sy, Positioned(b).file)
           /\ \A rows \in Rows, p \in Positions :
                 /\ Backed(rows, p, files) /\ Backed(rows, p, synced) => Backed(rows, p, sy)
                 /\ Backed(rows, p, files) /\ AlmostBacked(rows, p, cursor, synced) =>
                       \A c \in CursorType :
                          c.file = Positioned(b).file /\ (Positioned(b).open => c.open) =>
                             AlmostBacked(rows, p, c, sy)
<1> DEFINE at == Positioned(b)
<1>0. TypeOK /\ CursorInv /\ SyncedInv /\ status = "up"
  BY DEF Inv, TxInv
<1>1. /\ files \in [FileNums -> Files] /\ synced \in [FileNums -> Files]
      /\ cursor \in CursorType /\ cursor.file \in FileNums /\ cursor.file \in Nat
      /\ cursor.off \in Nat
  BY <1>0, TypeFacts, CursorFacts
<1>2. /\ at.file = cursor.file => at = cursor
      /\ at.file # cursor.file => ~at.open /\ cursor.off > 0
      /\ Lower(files, at.file) /\ at \in CursorType
  BY PositionedFacts
<1>3. Lower(synced, cursor.file) /\ AlmostReach(Cur, cursor, synced) /\ Cur[1] = cursor.file /\ Cur[2] = cursor.off
  BY <1>0 DEF SyncedInv, AlmostBacked, Cur
<1> HIDE DEF at
<1>4. CASE at.file = cursor.file
  <2>1. sy = synced
    BY <1>4 DEF at
  <2>2. ASSUME NEW rows \in Rows, NEW p \in Positions, AlmostBacked(rows, p, cursor, synced),
               NEW c \in CursorType, c.file = at.file, at.open => c.open
        PROVE  AlmostBacked(rows, p, c, synced)
    BY <2>2, <1>2, <1>4 DEF AlmostBacked, AlmostReach
  <2> QED
    BY <2>1, <2>2, <1>1, <1>3, <1>4 DEF at
<1>5. CASE at.file # cursor.file /\ cursor.open
  <2>1. sy = [synced EXCEPT ![cursor.file] = files[cursor.file]]
    BY <1>5 DEF at, Closed
  <2>2. sy \in [FileNums -> Files]
    BY <2>1, <1>1
  <2>3. Lower(sy, at.file)
    <3> SUFFICES ASSUME NEW g \in FileNums, g < at.file PROVE Exists(sy[g])
      BY DEF Lower
    <3>1. CASE g = cursor.file
      BY <3>1, <2>1, <1>1, <1>2 DEF Lower
    <3>2. CASE g # cursor.file
      <4>1. at.file = cursor.file + 1
        BY <1>5 DEF at, Positioned
      <4>2. g < cursor.file
        BY <4>1, <3>2, <1>1, ConstantFacts DEF FileNums
      <4> QED
        BY <3>2, <4>2, <2>1, <1>1, <1>3 DEF Lower
    <3> QED
      BY <3>1, <3>2
  <2>4. ASSUME NEW rows \in Rows, NEW p \in Positions, Backed(rows, p, files),
               AlmostBacked(rows, p, cursor, synced)
        PROVE  Backed(rows, p, sy)
    <3>1. cursor.open
      BY <1>5
    <3>2. Backed(rows, p, [synced EXCEPT ![cursor.file] = files[cursor.file]])
      BY <3>1, <2>4, <1>1, SyncedFile
    <3> QED
      BY <2>1, <3>2
  <2>5. ASSUME NEW rows \in Rows, NEW p \in Positions, Backed(rows, p, files),
               Backed(rows, p, synced)
        PROVE  Backed(rows, p, sy)
    BY <2>4, <2>5, BackedIsAlmost
  <2> QED
    BY <2>2, <2>3, <2>4, <2>5, BackedIsAlmost DEF at
<1>6. CASE at.file # cursor.file /\ ~cursor.open
  <2>1. sy = synced
    BY <1>6 DEF at, Closed
  <2>2. Lower(sy, at.file)
    <3> SUFFICES ASSUME NEW g \in FileNums, g < at.file PROVE Exists(synced[g])
      BY <2>1 DEF Lower
    <3>1. at.file = cursor.file + 1
      BY <1>6 DEF at, Positioned
    <3>2. g < cursor.file \/ g = cursor.file
      BY <3>1, <1>1, ConstantFacts DEF FileNums
    <3>3. synced[cursor.file].size >= cursor.off /\ synced[cursor.file].size \in Int
      BY <1>1, <1>2, <1>3, <1>6 DEF AlmostReach, Reach, Files, Cur
    <3> QED
      BY <3>2, <3>3, <1>1, <1>2, <1>3, <1>6 DEF Lower, Exists
  <2>3. ASSUME NEW rows \in Rows, NEW p \in Positions, Backed(rows, p, files),
               AlmostBacked(rows, p, cursor, synced)
        PROVE  Backed(rows, p, sy)
    BY <2>1, <2>3, <1>6, NotOpenIsBacked
  <2> QED
    BY <2>1, <2>2, <2>3, <1>1, BackedIsAlmost DEF at
<1> QED
  BY <1>4, <1>5, <1>6

LEMMA WriteBlockInv ==
    ASSUME Inv, WriteBlock, PowerLoss => CloseSyncs
    PROVE  Inv'
<1> DEFINE b == Head(tx.blocks)
           at == Positioned(b)
           pos == <<at.file, at.off>>
<1>0. TypeOK /\ TxInv /\ CursorInv /\ FilesInv /\ (PowerLoss => SyncedInv) /\ AlwaysOpens
  BY DEF Inv
<1>1. /\ tx.step = "write" /\ tx.blocks # <<>> /\ at.file <= MaxFile
      /\ synced' = (IF at.file # cursor.file THEN Closed ELSE synced)
      /\ ldb' = ldb /\ cachedKeys' = cachedKeys /\ cachedRemove' = cachedRemove /\ status' = status
  BY DEF WriteBlock, cacheVars
<1>2. b \in Blocks /\ Tail(tx.blocks) \in Seq(Blocks) /\ tx \in TxType /\ tx.keys \in Rows /\ tx.from \in Positions
  BY <1>0, <1>1, TypeFacts, TxFacts
<1> HIDE DEF b
<1>3. /\ at \in CursorType /\ at.off + Size[b] <= MaxBlockFileSize
      /\ AtMost(Cur, pos) /\ Lower(files, at.file)
      /\ at.file = cursor.file => at = cursor
  BY <1>1, <1>2, PositionedFacts
<1>4. /\ files \in [FileNums -> Files] /\ synced \in [FileNums -> Files]
      /\ ldb \in Rows /\ ldb[WriteLoc] \in Positions /\ cachedKeys \in Rows /\ cachedRemove \in SUBSET Keys
      /\ faults \in 0..MaxFaults /\ cursor \in CursorType
      /\ View \in Rows /\ View[WriteLoc] \in Positions /\ Cur \in Positions
      /\ status = "up" /\ View' = View
  BY <1>0, <1>1, TypeFacts, ViewFacts DEF TxInv, View
<1>5. /\ at.file \in FileNums /\ at.file \in Nat /\ at.off \in Nat /\ at.off \in 0..MaxBlockFileSize
      /\ pos \in Positions /\ Size[b] \in 1..MaxBlockFileSize /\ MaxBlockFileSize \in Nat
      /\ pos[1] = at.file /\ pos[2] = at.off
  BY <1>2, <1>3, CursorFacts, ConstantFacts
<1> HIDE DEF at
<1>6. synced' \in [FileNums -> Files]
  <2>1. Closed \in [FileNums -> Files]
    BY <1>4, CursorFacts DEF Closed
  <2> QED
    BY <1>1, <1>4, <2>1
<1>7. /\ AtMost(ldb[WriteLoc], View[WriteLoc]) /\ AtMost(View[WriteLoc], tx.from) /\ AtMost(tx.from, Cur)
      /\ Reach(files, tx.from) /\ Backed(ldb, ldb[WriteLoc], files) /\ Backed(View, View[WriteLoc], files)
      /\ Backed(tx.keys, Cur, files) /\ AtMost(View[WriteLoc], Cur) /\ AtMost(ldb[WriteLoc], Cur)
  <2>1. AtMost(View[WriteLoc], Cur) /\ AtMost(ldb[WriteLoc], View[WriteLoc])
    BY <1>0, <1>4 DEF CursorInv
  <2>2. AtMost(ldb[WriteLoc], Cur)
    BY <2>1, <1>4, PositionFacts, AtMostTransitive
  <2> QED
    BY <2>1, <2>2, <1>0, <1>1, <1>4 DEF CursorInv, FilesInv, Writing
<1>8. ASSUME NEW p \in Positions, AtMost(p, Cur) PROVE AtMost(p, pos)
  BY <1>3, <1>4, <1>5, <1>8, PositionFacts, AtMostTransitive
<1>9. ASSUME NEW n \in Nat, n <= Size[b], files' = [files EXCEPT ![at.file] = WriteAt(@, at.off, b, n)]
      PROVE  /\ files' \in [FileNums -> Files] /\ Kept(files, files', pos)
             /\ Reach(files', <<at.file, at.off + n>>)
             /\ \A i \in 0..(n - 1) : files'[at.file].data[at.off + i] = <<b, i>>
             /\ at.off + n <= files'[at.file].size
  <2> DEFINE y == WriteAt(files[at.file], at.off, b, n)
  <2>1. /\ y \in Files /\ y.size >= files[at.file].size /\ y.size >= at.off + n
        /\ \A i \in Offsets : i < at.off => y.data[i] = files[at.file].data[i]
        /\ \A i \in 0..(n - 1) : y.data[at.off + i] = <<b, i>>
    <3>1. files[at.file] \in Files /\ at.off + n <= MaxBlockFileSize
      BY <1>3, <1>4, <1>5, <1>9
    <3> QED
      BY <3>1, <1>2, <1>5, <1>9, WriteAtFacts
  <2> HIDE DEF y
  <2>2. files' = [files EXCEPT ![at.file] = y]
    BY <1>9 DEF y
  <2>3. files' \in [FileNums -> Files] /\ files'[at.file] = y /\ \A g \in FileNums : g # at.file => files'[g] = files[g]
    BY <2>1, <2>2, <1>4, <1>5
  <2>4. Kept(files, files', pos)
    BY <2>1, <2>3, <1>5 DEF Kept, FileNums
  <2>5. Lower(files', at.file)
    BY <2>3, <1>3, <1>5 DEF Lower, FileNums
  <2>6. y.size \in Int
    BY <2>1 DEF Files
  <2> QED
    BY <2>1, <2>3, <2>4, <2>5, <2>6, <1>5 DEF Reach
<1>10. ASSUME files' \in [FileNums -> Files], Kept(files, files', pos)
       PROVE  /\ Backed(ldb, ldb[WriteLoc], files') /\ Backed(View, View[WriteLoc], files')
              /\ Backed(tx.keys, Cur, files') /\ Reach(files', tx.from)
  <2>1. AtMost(ldb[WriteLoc], pos) /\ AtMost(View[WriteLoc], pos) /\ AtMost(tx.from, pos) /\ AtMost(Cur, pos)
    BY <1>2, <1>3, <1>4, <1>7, <1>8
  <2> QED
    BY <2>1, <1>2, <1>4, <1>5, <1>7, <1>10, BackedKept, ReachKept
<1>11. ASSUME PowerLoss, NEW c \in CursorType, c.file = at.file, at.open => c.open
       PROVE  /\ Backed(ldb, ldb[WriteLoc], synced') /\ Lower(synced', at.file)
              /\ AlmostBacked(View, View[WriteLoc], c, synced') /\ AlmostBacked(tx.keys, Cur, c, synced')
              /\ AlmostReach(tx.from, c, synced')
  <2>1. /\ Backed(ldb, ldb[WriteLoc], synced) /\ AlmostBacked(View, View[WriteLoc], cursor, synced)
        /\ AlmostBacked(tx.keys, Cur, cursor, synced) /\ AlmostReach(tx.from, cursor, synced)
    BY <1>0, <1>1, <1>4, <1>11 DEF SyncedInv, Writing
  <2>2. Backed(NoKeys, tx.from, files) /\ AlmostBacked(NoKeys, tx.from, cursor, synced) /\ NoKeys \in Rows
    BY <2>1, <1>7, NoKeysFacts, NoRowsBacked
  <2>3. /\ Lower(synced', at.file)
        /\ \A rows \in Rows, p \in Positions :
              /\ Backed(rows, p, files) /\ Backed(rows, p, synced) => Backed(rows, p, synced')
              /\ Backed(rows, p, files) /\ AlmostBacked(rows, p, cursor, synced) =>
                    AlmostBacked(rows, p, c, synced')
    BY <1>1, <1>2, <1>11, MovedFacts DEF at
  <2>4. AlmostBacked(NoKeys, tx.from, c, synced')
    BY <2>2, <2>3, <1>2
  <2> QED
    BY <2>1, <2>3, <2>4, <1>2, <1>4, <1>7 DEF AlmostBacked
<1>12. CASE /\ files' = [files EXCEPT ![at.file] = WriteAt(@, at.off, b, Size[b])]
            /\ cursor' = [at EXCEPT !.off = @ + Size[b], !.open = TRUE]
            /\ tx' = [putKey(tx, b, pos) EXCEPT !.blocks = Tail(@)]
            /\ Works
  <2>1. /\ files' \in [FileNums -> Files] /\ Kept(files, files', pos)
        /\ Reach(files', <<at.file, at.off + Size[b]>>)
        /\ \A i \in 0..(Size[b] - 1) : files'[at.file].data[at.off + i] = <<b, i>>
        /\ at.off + Size[b] <= files'[at.file].size
    <3>1. Size[b] \in Nat /\ Size[b] <= Size[b]
      BY <1>5
    <3>2. files' = [files EXCEPT ![at.file] = WriteAt(@, at.off, b, Size[b])]
      BY <1>12
    <3> QED
      BY <3>1, <3>2, <1>9
  <2>2. /\ cursor' \in CursorType /\ cursor'.file = at.file /\ cursor'.off = at.off + Size[b] /\ cursor'.open
        /\ Cur' = <<at.file, at.off + Size[b]>>
    <3>1. at.off + Size[b] \in 0..MaxBlockFileSize
      BY <1>3, <1>5
    <3>2. cursor' = [file |-> at.file, off |-> at.off + Size[b], open |-> TRUE]
      <4>1. at = [file |-> at.file, off |-> at.off, open |-> at.open]
        BY <1>3, CursorFacts
      <4>2. cursor' = [at EXCEPT !.off = @ + Size[b], !.open = TRUE]
        BY <1>12
      <4> QED
        BY <4>1, <4>2
    <3> QED
      BY <3>1, <3>2, <1>5 DEF CursorType, Cur
  <2>3. /\ tx' \in TxType /\ tx'.keys = [tx.keys EXCEPT ![b] = pos] /\ tx'.step = "write"
        /\ tx'.closing = tx.closing /\ tx'.from = tx.from
    <3> DEFINE u == putKey(tx, b, pos)
    <3>1. /\ u \in TxType /\ u.keys = [tx.keys EXCEPT ![b] = pos] /\ u.step = "write" /\ u.blocks = tx.blocks
          /\ u.closing = tx.closing /\ u.from = tx.from
      BY <1>1, <1>2, <1>5, PutKeyFacts DEF DbKeys
    <3>2. tx' = [u EXCEPT !.blocks = Tail(@)]
      BY <1>12
    <3> HIDE DEF u
    <3> QED
      BY <3>1, <3>2, <1>2 DEF TxType
  <2>4. /\ tx'.keys[b] = pos /\ \A k \in DbKeys : k # b => tx'.keys[k] = tx.keys[k]
        /\ Blocks \subseteq DbKeys /\ WriteLoc \in DbKeys /\ WriteLoc \notin Blocks
    BY <2>3, <1>2, ConstantFacts, RowFacts DEF DbKeys
  <2>5. AtMost(Cur, Cur') /\ AtMost(pos, Cur')
    <3>1. AtMost(pos, Cur')
      BY <2>2, <1>5 DEF AtMost
    <3>2. Cur' \in Int \X Int
      BY <2>2, <1>5
    <3> QED
      BY <3>1, <3>2, <1>3, <1>4, <1>5, PositionFacts, AtMostTransitive
  <2>6. ASSUME NEW p \in Positions, AtMost(p, Cur) PROVE AtMost(p, Cur')
    <3>1. Cur' \in Int \X Int
      BY <2>2, <1>5
    <3> QED
      BY <2>5, <2>6, <3>1, <1>4, PositionFacts, AtMostTransitive
  <2>7. TypeOK'
    BY <1>1, <1>4, <1>6, <1>12, <2>1, <2>2, <2>3, FailsOrWorks DEF TypeOK, CursorType, TxType
  <2>8. TxInv'
    <3>1. tx.keys[WriteLoc] = None /\ ~tx.closing
      BY <1>0, <1>1 DEF TxInv
    <3>2. tx'.keys[WriteLoc] = None /\ ~tx'.closing /\ status' = "up"
      <4>1. WriteLoc # b /\ WriteLoc \in DbKeys
        BY <1>2, <2>4
      <4> QED
        BY <4>1, <3>1, <1>1, <1>4, <2>3, <2>4
    <3> QED
      BY <3>2, <2>3 DEF TxInv
  <2>9. CursorInv'
    BY <1>1, <1>2, <1>4, <1>7, <1>10, <2>1, <2>2, <2>3, <2>6 DEF CursorInv, Writing
  <2>10. Backed(tx'.keys, Cur', files')
    <3>1. ASSUME NEW x \in Blocks, tx'.keys[x] # None
          PROVE  AtMost(End(x, tx'.keys[x]), Cur') /\ Readable(files', x, tx'.keys[x])
      <4>1. CASE x = b
        <5>1. End(b, pos) = Cur' /\ AtMost(Cur', Cur')
          BY <2>2, <1>5 DEF End, AtMost
        <5>2. Readable(files', b, pos)
          BY <2>1, <1>5 DEF Readable
        <5> QED
          BY <4>1, <5>1, <5>2, <2>4
      <4>2. CASE x # b
        <5>1. tx'.keys[x] = tx.keys[x] /\ tx.keys[x] # None /\ tx.keys[x] \in Positions
          BY <4>2, <3>1, <2>4, <1>2, RowFacts
        <5>2. AtMost(End(x, tx.keys[x]), Cur) /\ Readable(files', x, tx.keys[x])
          BY <5>1, <1>10, <2>1 DEF Backed
        <5>3. Cur' \in Int \X Int /\ End(x, tx.keys[x]) \in Int \X Int /\ Cur \in Int \X Int
          BY <2>2, <1>4, <1>5, <5>1, EndType, PositionFacts
        <5> QED
          BY <5>1, <5>2, <5>3, <2>5, AtMostTransitive
      <4> QED
        BY <4>1, <4>2
    <3> QED
      BY <3>1, <2>1, <2>2 DEF Backed
  <2>11. FilesInv'
    BY <1>1, <1>4, <1>10, <2>1, <2>10 DEF FilesInv
  <2>12. ASSUME PowerLoss PROVE SyncedInv'
    <3>1. /\ Backed(ldb, ldb[WriteLoc], synced') /\ Lower(synced', at.file)
          /\ AlmostBacked(View, View[WriteLoc], cursor', synced')
          /\ AlmostBacked(tx.keys, Cur, cursor', synced')
          /\ AlmostReach(tx.from, cursor', synced')
      BY <1>11, <2>2, <2>12
    <3>2. AlmostReach(Cur', cursor', synced')
      BY <3>1, <2>2 DEF AlmostReach
    <3>3. AlmostBacked(tx'.keys, Cur', cursor', synced')
      <4>1. ASSUME NEW x \in Blocks, tx'.keys[x] # None
            PROVE  Readable(synced', x, tx'.keys[x]) \/ (cursor'.open /\ tx'.keys[x][1] = cursor'.file)
        <5>1. CASE x = b
          BY <5>1, <2>2, <2>4, <1>5
        <5>2. CASE x # b
          BY <5>2, <4>1, <2>4, <3>1 DEF AlmostBacked
        <5> QED
          BY <5>1, <5>2
      <4> QED
        BY <4>1, <3>2 DEF AlmostBacked
    <3> QED
      BY <3>1, <3>3, <1>1, <1>4, <2>2, <2>3 DEF SyncedInv, Writing
  <2> QED
    BY <1>0, <1>1, <2>7, <2>8, <2>9, <2>11, <2>12 DEF Inv, AlwaysOpens
<1>13. ASSUME NEW n \in 0..MaxBlockFileSize,
              /\ files' \in [FileNums -> Files] /\ Kept(files, files', pos)
              /\ cursor' \in CursorType /\ cursor'.file = at.file /\ cursor'.off = at.off + n
              /\ at.open => cursor'.open
              /\ tx' = [tx EXCEPT !.step = "rollback"]
              /\ Fails
       PROVE  Inv'
  <2>1. /\ tx' \in TxType /\ tx'.keys = tx.keys /\ tx'.step = "rollback"
        /\ tx'.closing = tx.closing /\ tx'.from = tx.from
    BY <1>2, <1>13 DEF TxType, Steps
  <2>2. Cur' = <<at.file, at.off + n>> /\ Cur' \in Int \X Int
    BY <1>5, <1>13 DEF Cur
  <2>3. AtMost(pos, Cur')
    BY <2>2, <1>5 DEF AtMost
  <2>4. ASSUME NEW p \in Positions, AtMost(p, Cur) PROVE AtMost(p, Cur')
    BY <2>2, <2>3, <2>4, <1>5, <1>8, PositionFacts, AtMostTransitive
  <2>5. TypeOK'
    BY <1>1, <1>4, <1>6, <1>13, <2>1, FailsOrWorks DEF TypeOK, CursorType, TxType
  <2>6. TxInv'
    BY <1>1, <1>4, <2>1 DEF TxInv
  <2>7. CursorInv'
    BY <1>1, <1>2, <1>4, <1>7, <1>10, <1>13, <2>1, <2>4 DEF CursorInv, Writing
  <2>8. FilesInv'
    BY <1>1, <1>4, <1>10, <1>13, <2>1 DEF FilesInv
  <2>9. ASSUME PowerLoss PROVE SyncedInv'
    BY <1>1, <1>4, <1>11, <1>13, <2>1, <2>9 DEF SyncedInv, Writing
  <2> QED
    BY <1>0, <1>1, <2>5, <2>6, <2>7, <2>8, <2>9 DEF Inv, AlwaysOpens
<1>14. ASSUME NEW n \in 0..(Size[b] - 1), Fails,
              files' = [files EXCEPT ![at.file] = WriteAt(@, at.off, b, n)],
              cursor' = [at EXCEPT !.off = @ + n, !.open = TRUE],
              tx' = [tx EXCEPT !.step = "rollback"]
       PROVE  Inv'
  <2>1. n \in Nat /\ n <= Size[b] /\ n \in 0..MaxBlockFileSize
    BY <1>5
  <2>2. files' \in [FileNums -> Files] /\ Kept(files, files', pos)
    BY <2>1, <1>9, <1>14
  <2>3. cursor' \in CursorType /\ cursor'.file = at.file /\ cursor'.off = at.off + n /\ cursor'.open
    <3>1. at.off + n \in 0..MaxBlockFileSize
      BY <1>3, <1>5
    <3>2. cursor' = [file |-> at.file, off |-> at.off + n, open |-> TRUE]
      <4>1. at = [file |-> at.file, off |-> at.off, open |-> at.open]
        BY <1>3, CursorFacts
      <4>2. cursor' = [at EXCEPT !.off = @ + n, !.open = TRUE]
        BY <1>14
      <4> QED
        BY <4>1, <4>2
    <3> QED
      BY <3>1, <3>2, <1>5 DEF CursorType
  <2> QED
    BY <2>1, <2>2, <2>3, <1>13, <1>14
<1>15. CASE /\ Fails /\ ~at.open /\ cursor' = at
            /\ tx' = [tx EXCEPT !.step = "rollback"] /\ UNCHANGED files
  <2>1. Kept(files, files', pos) /\ files' \in [FileNums -> Files]
    <3>1. \A g \in FileNums : files[g].size \in Int
      BY <1>4 DEF Files
    <3> QED
      BY <3>1, <1>4, <1>15 DEF Kept
  <2>2. 0 \in 0..MaxBlockFileSize /\ cursor'.off = at.off + 0
    BY <1>5, <1>15
  <2> QED
    BY <2>1, <2>2, <1>3, <1>13, <1>15
<1> QED
  BY <1>12, <1>14, <1>15 DEF WriteBlock, b, at

(***************************************************************************)
(* A step that ends a transaction, and one that leaves the database closed *)
(* or crashed.                                                             *)
(***************************************************************************)
LEMMA IdleInv ==
    ASSUME TypeOK', status' = "up", tx'.step = "none", ~tx'.closing, NoBlockRows(tx'.keys),
           AtMost(ldb'[WriteLoc], View'[WriteLoc]), AtMost(View'[WriteLoc], Cur'),
           Reach(files', Cur'),
           Backed(ldb', ldb'[WriteLoc], files'), Backed(View', View'[WriteLoc], files'),
           PowerLoss => /\ Backed(ldb', ldb'[WriteLoc], synced')
                        /\ AlmostBacked(View', View'[WriteLoc], cursor', synced')
                        /\ Lower(synced', cursor'.file) /\ AlmostReach(Cur', cursor', synced')
    PROVE  Inv'
<1>1. TxInv'
  BY DEF TxInv, NoBlockRows
<1>2. CursorInv'
  BY DEF CursorInv, Writing
<1>3. FilesInv'
  BY DEF FilesInv
<1>4. ASSUME PowerLoss PROVE SyncedInv'
  <2>1. AlmostBacked(tx'.keys, Cur', cursor', synced')
    BY <1>4, NoRowsBacked
  <2> QED
    BY <1>4, <2>1 DEF SyncedInv, Writing
<1> QED
  BY <1>1, <1>2, <1>3, <1>4 DEF Inv, AlwaysOpens

LEMMA DownInv ==
    ASSUME files' \in [FileNums -> Files], synced' \in [FileNums -> Files],
           ldb' \in Rows, ldb'[WriteLoc] \in Positions, faults' \in 0..MaxFaults,
           cachedKeys' = NoKeys, cachedRemove' = {}, Down, tx' = NoTx,
           Backed(ldb', ldb'[WriteLoc], files'),
           PowerLoss => Backed(ldb', ldb'[WriteLoc], synced')
    PROVE  Inv'
<1>1. status' = "down" /\ cursor' = [file |-> 0, off |-> 0, open |-> FALSE] /\ ~cursor'.open
  BY DEF Down
<1>2. cursor' \in CursorType
  BY <1>1, ConstantFacts DEF CursorType, FileNums
<1>3. /\ tx' \in TxType /\ tx'.step = "none" /\ ~tx'.closing /\ NoBlockRows(tx'.keys)
      /\ NoKeys \in Rows
  BY NoTxFacts, NoKeysFacts
<1>4. TypeOK'
  BY <1>1, <1>2, <1>3 DEF TypeOK, CursorType, TxType
<1>5. View' = ldb'
  BY OverlayNothing DEF View
<1>6. TxInv'
  BY <1>1, <1>3 DEF TxInv, NoBlockRows, CacheEmpty
<1>7. CursorInv'
  BY <1>1, <1>3, <1>5, AtMostReflexive DEF CursorInv, Writing
<1>8. FilesInv'
  BY <1>3, <1>5 DEF FilesInv
<1>9. ASSUME PowerLoss PROVE SyncedInv'
  <2>1. AlmostBacked(ldb', ldb'[WriteLoc], cursor', synced')
    BY <1>9, BackedIsAlmost
  <2> QED
    BY <1>1, <1>3, <1>5, <1>9, <2>1 DEF SyncedInv, Writing
<1> QED
  BY <1>1, <1>4, <1>6, <1>7, <1>8, <1>9 DEF Inv, AlwaysOpens

LEMMA RollbackFilesInv ==
    ASSUME Inv, RollbackFiles
    PROVE  Inv'
<1> DEFINE pos == tx.from
<1>0. TypeOK /\ TxInv /\ CursorInv /\ FilesInv /\ (PowerLoss => SyncedInv)
  BY DEF Inv
<1>1. /\ tx.step = "rollback" /\ status = "up" /\ handleRollback(cursor, pos) /\ tx' = NoTx
      /\ ldb' = ldb /\ cachedKeys' = cachedKeys /\ cachedRemove' = cachedRemove /\ status' = "up"
  BY <1>0 DEF RollbackFiles, cacheVars, TxInv
<1>2. /\ files \in [FileNums -> Files] /\ synced \in [FileNums -> Files]
      /\ ldb \in Rows /\ ldb[WriteLoc] \in Positions /\ cachedKeys \in Rows /\ cachedRemove \in SUBSET Keys
      /\ faults \in 0..MaxFaults /\ cursor \in CursorType /\ pos \in Positions
      /\ View \in Rows /\ View[WriteLoc] \in Positions /\ View' = View
  BY <1>0, <1>1, TypeFacts, TxFacts, ViewFacts DEF View
<1>3. /\ AtMost(View[WriteLoc], pos) /\ AtMost(pos, Cur) /\ Reach(files, pos)
      /\ AtMost(ldb[WriteLoc], View[WriteLoc])
  BY <1>0, <1>1 DEF CursorInv, Writing
<1>4. /\ pos[1] \in Nat /\ pos[2] \in Nat /\ pos[1] \in FileNums /\ cursor.file \in Nat /\ pos[1] <= cursor.file
      /\ pos = <<pos[1], pos[2]>>
  <2>1. /\ pos[1] \in Nat /\ pos[2] \in Nat /\ pos[1] \in FileNums /\ pos = <<pos[1], pos[2]>>
    BY <1>2, PositionFacts
  <2>2. cursor.file \in Nat /\ Cur[1] = cursor.file
    BY <1>2, CursorFacts DEF Cur
  <2> QED
    BY <1>3, <2>1, <2>2 DEF AtMost
<1> HIDE DEF pos
<1>5. /\ files' \in [FileNums -> Files] /\ synced' \in [FileNums -> Files]
      /\ cursor' \in CursorType /\ faults' \in 0..MaxFaults
      /\ Kept(files, files', pos)
      /\ RolledBack(synced, synced', files', cursor, cursor', pos)
  BY <1>1, <1>2, <1>3, <1>4, RollbackFacts
<1>6. Cur' = pos /\ cursor'.file = pos[1]
  BY <1>4, <1>5 DEF RolledBack, Cur
<1>7. /\ tx' \in TxType /\ tx'.step = "none" /\ ~tx'.closing /\ NoBlockRows(tx'.keys)
      /\ NoKeys \in Rows /\ NoBlockRows(NoKeys)
  BY <1>1, NoTxFacts, NoKeysFacts
<1>8. TypeOK'
  BY <1>1, <1>2, <1>5, <1>7 DEF TypeOK, CursorType, TxType
<1>9. AtMost(pos, pos) /\ AtMost(ldb[WriteLoc], pos)
  BY <1>2, <1>3, PositionFacts, AtMostReflexive, AtMostTransitive
<1>10. Reach(files', pos)
  BY <1>2, <1>3, <1>5, <1>9, ReachKept
<1>11. Backed(ldb, ldb[WriteLoc], files') /\ Backed(View, View[WriteLoc], files')
  <2>1. Backed(ldb, ldb[WriteLoc], files) /\ Backed(View, View[WriteLoc], files)
    BY <1>0 DEF FilesInv
  <2> QED
    BY <2>1, <1>2, <1>3, <1>5, <1>9, BackedKept
<1>12. ASSUME PowerLoss
       PROVE  /\ Backed(ldb, ldb[WriteLoc], synced')
              /\ AlmostBacked(View, View[WriteLoc], cursor', synced')
              /\ Lower(synced', cursor'.file) /\ AlmostReach(pos, cursor', synced')
  <2>1. /\ Backed(ldb, ldb[WriteLoc], synced) /\ AlmostBacked(View, View[WriteLoc], cursor, synced)
        /\ Lower(synced, cursor.file) /\ AlmostReach(pos, cursor, synced)
    BY <1>0, <1>1, <1>12 DEF SyncedInv, Writing, pos
  <2>2. Backed(ldb, ldb[WriteLoc], synced')
    BY <2>1, <1>2, <1>5, <1>11, BackedRolledBack
  <2>3. AlmostBacked(View, View[WriteLoc], cursor', synced')
    BY <2>1, <1>2, <1>3, <1>4, <1>5, <1>11, AlmostRolledBack
  <2>4. Backed(NoKeys, pos, files') /\ AlmostBacked(NoKeys, pos, cursor, synced)
    BY <2>1, <1>7, <1>10, NoRowsBacked
  <2>5. AlmostBacked(NoKeys, pos, cursor', synced')
    BY <2>4, <1>2, <1>4, <1>5, <1>7, <1>9, AlmostRolledBack
  <2>6. Lower(synced', pos[1])
    <3> SUFFICES ASSUME NEW g \in FileNums, g < pos[1] PROVE Exists(synced'[g])
      BY DEF Lower
    <3>1. g \in Nat /\ g < cursor.file /\ g # pos[1]
      BY <1>4, ConstantFacts DEF FileNums
    <3>2. synced'[g] = synced[g]
      BY <3>1, <1>2, <1>5 DEF RolledBack
    <3> QED
      BY <3>1, <3>2, <2>1 DEF Lower
  <2> QED
    BY <2>2, <2>3, <2>5, <2>6, <1>6 DEF AlmostBacked
<1> QED
  BY <1>1, <1>2, <1>3, <1>6, <1>7, <1>8, <1>10, <1>11, <1>12, IdleInv

LEMMA CommitToCacheInv ==
    ASSUME Inv, CommitToCache
    PROVE  Inv'
<1> DEFINE t == WithCursor(tx)
<1>0. TypeOK /\ TxInv /\ CursorInv /\ FilesInv /\ (PowerLoss => SyncedInv)
  BY DEF Inv
<1>1. /\ tx.step = "write" /\ status = "up" /\ tx' = NoTx /\ files' = files /\ synced' = synced
      /\ cachedKeys' = Overlay(cachedKeys, t.keys, t.remove) /\ cachedRemove' = RemovedWith(t)
      /\ ldb' = ldb /\ cursor' = cursor /\ status' = "up" /\ faults' = faults
  BY <1>0 DEF CommitToCache, diskVars, TxInv
<1>2. /\ files \in [FileNums -> Files] /\ synced \in [FileNums -> Files]
      /\ ldb \in Rows /\ ldb[WriteLoc] \in Positions /\ cachedKeys \in Rows /\ cachedRemove \in SUBSET Keys
      /\ faults \in 0..MaxFaults /\ cursor \in CursorType /\ tx \in TxType /\ tx.keys \in Rows
      /\ View \in Rows /\ View[WriteLoc] \in Positions /\ Cur \in Positions
  BY <1>0, TypeFacts, TxFacts, ViewFacts
<1>3. t \in TxType /\ t.keys = [tx.keys EXCEPT ![WriteLoc] = Cur]
  BY <1>2, PutKeyFacts DEF WithCursor, Cur, DbKeys
<1>4. t.keys \in Rows /\ t.remove \in SUBSET Keys /\ t.remove \subseteq DbKeys
  BY <1>3, TxFacts DEF DbKeys
<1>5. t.keys[WriteLoc] = Cur /\ \A b \in Blocks : t.keys[b] = tx.keys[b]
  <2>1. WriteLoc \in DbKeys /\ WriteLoc \notin Blocks /\ Blocks \subseteq DbKeys
    BY ConstantFacts DEF DbKeys
  <2> QED
    BY <2>1, <1>2, <1>3, RowFacts
<1>6. View' = Overlay(View, t.keys, t.remove)
  BY <1>1, <1>4, OverlayOfOverlay DEF View
<1> HIDE DEF t
<1>7. View'[WriteLoc] = Cur /\ Cur' = Cur
  <2>1. Cur # None
    BY <1>2, ConstantFacts
  <2> QED
    BY <2>1, <1>1, <1>2, <1>4, <1>5, <1>6, OverlayFacts DEF Cur
<1>8. cachedKeys' \in Rows /\ cachedRemove' \in SUBSET Keys
  BY <1>1, <1>2, <1>4, OverlayFacts DEF RemovedWith
<1>9. tx' \in TxType /\ tx'.step = "none" /\ ~tx'.closing /\ NoBlockRows(tx'.keys)
  BY <1>1, NoTxFacts, NoKeysFacts
<1>10. TypeOK'
  BY <1>1, <1>2, <1>8, <1>9 DEF TypeOK, CursorType, TxType
<1>11. /\ AtMost(ldb[WriteLoc], View[WriteLoc]) /\ AtMost(View[WriteLoc], Cur) /\ Reach(files, Cur)
       /\ AtMost(Cur, Cur)
  BY <1>0, <1>1, <1>2, AtMostReflexive DEF CursorInv
<1>12. AtMost(ldb[WriteLoc], Cur)
  BY <1>2, <1>11, PositionFacts, AtMostTransitive
<1>13. /\ Backed(ldb, ldb[WriteLoc], files) /\ Backed(View, View[WriteLoc], files)
       /\ Backed(tx.keys, Cur, files)
  BY <1>0, <1>1 DEF FilesInv
<1>14. Backed(t.keys, Cur, files)
  BY <1>5, <1>13 DEF Backed
<1>15. Backed(View', Cur, files)
  BY <1>2, <1>4, <1>6, <1>11, <1>13, <1>14, BackedOverlay
<1>16. ASSUME PowerLoss
       PROVE  /\ Backed(ldb, ldb[WriteLoc], synced) /\ AlmostBacked(View', Cur, cursor, synced)
              /\ Lower(synced, cursor.file) /\ AlmostReach(Cur, cursor, synced)
  <2>1. /\ Backed(ldb, ldb[WriteLoc], synced) /\ AlmostBacked(View, View[WriteLoc], cursor, synced)
        /\ Lower(synced, cursor.file) /\ AlmostBacked(tx.keys, Cur, cursor, synced)
    BY <1>0, <1>1, <1>16 DEF SyncedInv
  <2>2. AlmostBacked(t.keys, Cur, cursor, synced)
    BY <2>1, <1>5 DEF AlmostBacked
  <2>3. AlmostBacked(View', Cur, cursor, synced)
    BY <2>1, <2>2, <1>2, <1>4, <1>6, AlmostBackedOverlay
  <2> QED
    BY <2>1, <2>3 DEF AlmostBacked
<1> QED
  BY <1>1, <1>7, <1>9, <1>10, <1>11, <1>12, <1>13, <1>15, <1>16, IdleInv

LEMMA SyncedFacts ==
    ASSUME Inv, tx.step = "sync", PowerLoss
    PROVE  LET sy == Synced IN
           /\ Backed(ldb, ldb[WriteLoc], sy) /\ Backed(View, View[WriteLoc], sy)
           /\ Backed(tx.keys, Cur, sy) /\ Lower(sy, cursor.file)
<1>0. TypeOK /\ TxInv /\ FilesInv /\ SyncedInv
  BY DEF Inv
<1>1. /\ files \in [FileNums -> Files] /\ synced \in [FileNums -> Files] /\ cursor \in CursorType
      /\ ldb \in Rows /\ ldb[WriteLoc] \in Positions /\ tx.keys \in Rows
      /\ View \in Rows /\ View[WriteLoc] \in Positions /\ Cur \in Positions
  BY <1>0, TypeFacts, TxFacts, ViewFacts
<1>2. cursor.file \in FileNums /\ cursor.file \in Nat
  BY <1>1, CursorFacts
<1>3. /\ Backed(ldb, ldb[WriteLoc], files) /\ Backed(View, View[WriteLoc], files)
      /\ Backed(tx.keys, Cur, files)
  BY <1>0 DEF FilesInv
<1>4. /\ Backed(ldb, ldb[WriteLoc], synced) /\ AlmostBacked(View, View[WriteLoc], cursor, synced)
      /\ Lower(synced, cursor.file) /\ AlmostBacked(tx.keys, Cur, cursor, synced)
  BY <1>0 DEF SyncedInv, TxInv
<1>5. CASE cursor.open
  <2> DEFINE sy == [synced EXCEPT ![cursor.file] = files[cursor.file]]
  <2>1. Synced = sy
    BY <1>5 DEF Synced
  <2>2. Backed(ldb, ldb[WriteLoc], sy)
    BY <1>1, <1>2, <1>3, <1>4, BackedWithFile
  <2>3. Backed(View, View[WriteLoc], sy) /\ Backed(tx.keys, Cur, sy)
    BY <1>1, <1>3, <1>4, <1>5, SyncedFile
  <2>4. Lower(sy, cursor.file)
    <3> SUFFICES ASSUME NEW g \in FileNums, g < cursor.file PROVE Exists(sy[g])
      BY DEF Lower
    <3>1. g # cursor.file
      BY <1>2
    <3>2. sy[g] = synced[g]
      BY <3>1, <1>1
    <3> QED
      BY <3>2, <1>4 DEF Lower
  <2> QED
    BY <2>1, <2>2, <2>3, <2>4
<1>6. CASE ~cursor.open
  <2>1. Synced = synced
    BY <1>6 DEF Synced
  <2> QED
    BY <2>1, <1>3, <1>4, <1>6, NotOpenIsBacked
<1> QED
  BY <1>5, <1>6

LEMMA FlushFailsInv ==
    ASSUME Inv, FlushFails, tx.step \in {"sync", "flush"}
    PROVE  Inv'
<1>0. TypeOK /\ TxInv /\ CursorInv /\ FilesInv /\ (PowerLoss => SyncedInv)
  BY DEF Inv
<1>1. /\ Fails /\ tx' = NoTx /\ files' = files /\ synced' = synced /\ ldb' = ldb /\ status = "up"
  BY <1>0 DEF FlushFails, diskVars, TxInv
<1>2. /\ files \in [FileNums -> Files] /\ synced \in [FileNums -> Files]
      /\ ldb \in Rows /\ ldb[WriteLoc] \in Positions /\ cachedKeys \in Rows /\ cachedRemove \in SUBSET Keys
      /\ faults \in 0..MaxFaults /\ cursor \in CursorType
  BY <1>0, TypeFacts
<1>3. faults' \in 0..MaxFaults
  BY <1>1, <1>2, FailsOrWorks
<1>4. Backed(ldb, ldb[WriteLoc], files) /\ Backed(View, View[WriteLoc], files)
  BY <1>0 DEF FilesInv
<1>5. CASE tx.closing
  <2>1. Down /\ cachedKeys' = NoKeys /\ cachedRemove' = {}
    BY <1>5 DEF FlushFails
  <2>2. PowerLoss => Backed(ldb, ldb[WriteLoc], synced)
    BY <1>0 DEF SyncedInv
  <2> QED
    BY <2>1, <2>2, <1>1, <1>2, <1>3, <1>4, DownInv
<1>6. CASE ~tx.closing
  <2>1. /\ cachedKeys' = cachedKeys /\ cachedRemove' = cachedRemove /\ cursor' = cursor
        /\ status' = "up"
    BY <1>1, <1>6 DEF FlushFails, cacheVars
  <2>2. View' = View /\ Cur' = Cur
    BY <1>1, <2>1 DEF View, Cur
  <2>3. tx' \in TxType /\ tx'.step = "none" /\ ~tx'.closing /\ NoBlockRows(tx'.keys)
    BY <1>1, NoTxFacts, NoKeysFacts
  <2>4. TypeOK'
    BY <1>1, <1>2, <1>3, <2>1, <2>3 DEF TypeOK, CursorType, TxType
  <2>5. /\ AtMost(ldb[WriteLoc], View[WriteLoc]) /\ AtMost(View[WriteLoc], Cur)
        /\ Reach(files, Cur)
    BY <1>0, <1>1 DEF CursorInv
  <2>6. ASSUME PowerLoss
        PROVE  /\ Backed(ldb, ldb[WriteLoc], synced)
               /\ AlmostBacked(View, View[WriteLoc], cursor, synced)
               /\ Lower(synced, cursor.file) /\ AlmostReach(Cur, cursor, synced)
    BY <1>0, <1>1, <2>6 DEF SyncedInv, AlmostBacked
  <2> QED
    BY <1>1, <1>4, <2>1, <2>2, <2>3, <2>4, <2>5, <2>6, IdleInv
<1> QED
  BY <1>5, <1>6

(***************************************************************************)
(* The steps of a flush.                                                   *)
(***************************************************************************)
LEMMA FlushingInv ==
    ASSUME Inv, tx.step \in {"sync", "flush", "clear"}, files' = files, cursor' = cursor,
           status' = status, faults' = faults,
           tx' = [tx EXCEPT !.step = tx'.step], tx'.step \in {"flush", "clear", "direct"},
           TxInv', synced' \in [FileNums -> Files],
           ldb' = ldb \/ ldb' = View, View' = View,
           cachedKeys' \in Rows, cachedRemove' \in SUBSET Keys,
           PowerLoss => /\ Backed(ldb', ldb'[WriteLoc], synced')
                        /\ Backed(View, View[WriteLoc], synced')
                        /\ Backed(tx.keys, Cur, synced') /\ Lower(synced', cursor.file)
    PROVE  Inv'
<1>0. TypeOK /\ TxInv /\ CursorInv /\ FilesInv /\ AlwaysOpens /\ status = "up"
  BY DEF Inv, TxInv
<1>1. /\ files \in [FileNums -> Files] /\ ldb \in Rows /\ ldb[WriteLoc] \in Positions
      /\ faults \in 0..MaxFaults /\ cursor \in CursorType /\ tx \in TxType
      /\ View \in Rows /\ View[WriteLoc] \in Positions /\ Cur' = Cur
  BY <1>0, TypeFacts, ViewFacts DEF Cur
<1>2. tx' \in TxType /\ tx'.keys = tx.keys
  <2>1. PICK s \in {"flush", "clear", "direct"} : tx' = [tx EXCEPT !.step = s]
    OBVIOUS
  <2> QED
    BY <2>1, <1>1 DEF TxType, Steps
<1>3. TypeOK'
  BY <1>0, <1>1, <1>2 DEF TypeOK, CursorType, TxType
<1>4. CursorInv'
  <2>1. AtMost(ldb[WriteLoc], View[WriteLoc]) /\ AtMost(View[WriteLoc], Cur) /\ Reach(files, Cur)
    BY <1>0 DEF CursorInv
  <2>2. AtMost(View[WriteLoc], View[WriteLoc])
    BY <1>1, AtMostReflexive
  <2>3. tx'.step \notin {"write", "rollback"}
    OBVIOUS
  <2> QED
    BY <2>1, <2>2, <2>3, <1>1 DEF CursorInv, Writing
<1>5. FilesInv'
  <2>1. /\ Backed(ldb, ldb[WriteLoc], files) /\ Backed(View, View[WriteLoc], files)
        /\ Backed(tx.keys, Cur, files)
    BY <1>0 DEF FilesInv
  <2> QED
    BY <2>1, <1>1, <1>2 DEF FilesInv
<1>6. ASSUME PowerLoss PROVE SyncedInv'
  <2>1. AlmostBacked(View, View[WriteLoc], cursor, synced') /\ AlmostBacked(tx.keys, Cur, cursor, synced')
    BY <1>6, BackedIsAlmost
  <2>2. tx'.step \notin {"write", "rollback"}
    OBVIOUS
  <2> QED
    BY <2>1, <2>2, <1>1, <1>2, <1>6 DEF SyncedInv, Writing
<1> QED
  BY <1>0, <1>3, <1>4, <1>5, <1>6 DEF Inv, AlwaysOpens

LEMMA FlushInv ==
    ASSUME Inv, SyncBlocks \/ FlushCache \/ ClearCache
    PROVE  Inv'
<1>0. TypeOK /\ TxInv /\ FilesInv /\ (PowerLoss => SyncedInv)
  BY DEF Inv
<1>1. /\ files \in [FileNums -> Files] /\ synced \in [FileNums -> Files]
      /\ ldb \in Rows /\ ldb[WriteLoc] \in Positions /\ cachedKeys \in Rows /\ cachedRemove \in SUBSET Keys
      /\ faults \in 0..MaxFaults /\ cursor \in CursorType /\ tx \in TxType
      /\ cursor.file \in FileNums
  BY <1>0, TypeFacts, CursorFacts
<1>2. ASSUME NEW s \in Steps, GoTo(s)
      PROVE  /\ tx'.step = s /\ tx' = [tx EXCEPT !.step = tx'.step]
             /\ tx'.keys = tx.keys /\ tx'.closing = tx.closing /\ tx'.blocks = tx.blocks
  BY <1>1, <1>2 DEF GoTo, TxType
<1>3. {"flush", "clear", "direct"} \subseteq Steps
  BY DEF Steps
<1>4. tx.step \in {"sync", "flush", "clear"} => status = "up"
  BY <1>0 DEF TxInv
<1>5. CASE tx.step = "sync" /\ synced' = Synced /\ GoTo("flush") /\ Works
           /\ UNCHANGED <<files, ldb, cacheVars, cursor, status>>
  <2>1. /\ files' = files /\ ldb' = ldb /\ cachedKeys' = cachedKeys /\ cachedRemove' = cachedRemove
        /\ cursor' = cursor /\ status' = status /\ faults' = faults
    BY <1>5 DEF cacheVars, Works
  <2>2. View' = View /\ Cur' = Cur
    BY <2>1 DEF View, Cur
  <2>3. /\ tx'.step = "flush" /\ tx' = [tx EXCEPT !.step = tx'.step] /\ tx'.keys = tx.keys
        /\ tx'.closing = tx.closing /\ tx'.blocks = tx.blocks
    BY <1>2, <1>3, <1>5
  <2>4. TxInv'
    BY <1>0, <1>4, <1>5, <2>1, <2>2, <2>3 DEF TxInv, NoBlockRows
  <2>5. synced' \in [FileNums -> Files]
    BY <1>1, <1>5 DEF Synced
  <2>6. PowerLoss => /\ Backed(ldb, ldb[WriteLoc], synced') /\ Backed(View, View[WriteLoc], synced')
                     /\ Backed(tx.keys, Cur, synced') /\ Lower(synced', cursor.file)
    BY <1>5, SyncedFacts
  <2> QED
    BY <1>1, <1>5, <2>1, <2>2, <2>3, <2>4, <2>5, <2>6, FlushingInv
<1>6. CASE tx.step = "flush" /\ ldb' = View /\ GoTo("clear") /\ Works
           /\ UNCHANGED <<diskVars, cacheVars, cursor, status>>
  <2>1. /\ files' = files /\ synced' = synced /\ cachedKeys' = cachedKeys /\ cachedRemove' = cachedRemove
        /\ cursor' = cursor /\ status' = status /\ faults' = faults
    BY <1>6 DEF diskVars, cacheVars, Works
  <2>2. View' = View /\ Cur' = Cur
    BY <1>6, <2>1, OverlayTwice DEF View, Cur
  <2>3. /\ tx'.step = "clear" /\ tx' = [tx EXCEPT !.step = tx'.step] /\ tx'.keys = tx.keys
        /\ tx'.closing = tx.closing /\ tx'.blocks = tx.blocks
    BY <1>2, <1>3, <1>6
  <2>4. TxInv'
    BY <1>0, <1>4, <1>6, <2>1, <2>2, <2>3 DEF TxInv, NoBlockRows
  <2>5. PowerLoss => /\ Backed(View, View[WriteLoc], synced)
                     /\ Backed(tx.keys, Cur, synced) /\ Lower(synced, cursor.file)
    BY <1>0, <1>4, <1>6 DEF SyncedInv
  <2> QED
    BY <1>1, <1>6, <2>1, <2>2, <2>3, <2>4, <2>5, FlushingInv
<1>7. CASE ClearCache
  <2>1. /\ tx.step = "clear" /\ cachedKeys' = NoKeys /\ cachedRemove' = {} /\ files' = files
        /\ synced' = synced /\ ldb' = ldb /\ faults' = faults /\ status = "up"
        /\ IF tx.closing THEN Down /\ tx' = NoTx ELSE GoTo("direct") /\ UNCHANGED <<cursor, status>>
    BY <1>4, <1>7 DEF ClearCache, diskVars
  <2>2. ldb = View /\ View' = View
    BY <1>0, <1>1, <2>1, OverlayNothing DEF TxInv, View
  <2>3. CASE tx.closing
    <3>1. Backed(ldb, ldb[WriteLoc], files) /\ (PowerLoss => Backed(ldb, ldb[WriteLoc], synced))
      BY <1>0 DEF FilesInv, SyncedInv
    <3> QED
      BY <1>1, <2>1, <2>3, <3>1, DownInv
  <2>4. CASE ~tx.closing
    <3>1. /\ tx'.step = "direct" /\ tx' = [tx EXCEPT !.step = tx'.step] /\ tx'.keys = tx.keys
          /\ tx'.closing = tx.closing /\ tx'.blocks = tx.blocks
          /\ cursor' = cursor /\ status' = status
      BY <1>2, <1>3, <2>1, <2>4
    <3>2. Cur' = Cur
      BY <3>1 DEF Cur
    <3>3. TxInv'
      BY <1>0, <2>1, <2>4, <3>1, <3>2 DEF TxInv, CacheEmpty
    <3>4. PowerLoss => /\ Backed(ldb, ldb[WriteLoc], synced) /\ Backed(View, View[WriteLoc], synced)
                       /\ Backed(tx.keys, Cur, synced) /\ Lower(synced, cursor.file)
      BY <1>0, <2>1 DEF SyncedInv
    <3>5. NoKeys \in Rows
      BY NoKeysFacts
    <3> QED
      BY <1>1, <2>1, <2>2, <3>1, <3>2, <3>3, <3>4, <3>5, FlushingInv
  <2> QED
    BY <2>3, <2>4
<1>8. CASE tx.step \in {"sync", "flush"} /\ FlushFails
  BY <1>8, FlushFailsInv
<1> QED
  BY <1>5, <1>6, <1>7, <1>8 DEF SyncBlocks, FlushCache

LEMMA CommitDirectInv ==
    ASSUME Inv, CommitDirect
    PROVE  Inv'
<1>0. TypeOK /\ TxInv /\ CursorInv /\ FilesInv /\ (PowerLoss => SyncedInv)
  BY DEF Inv
<1>1. /\ tx.step = "direct" /\ status = "up" /\ tx' = NoTx /\ files' = files /\ synced' = synced
      /\ cachedKeys' = cachedKeys /\ cachedRemove' = cachedRemove /\ cursor' = cursor /\ status' = "up"
      /\ CacheEmpty /\ tx.keys[WriteLoc] = Cur
  BY <1>0 DEF CommitDirect, diskVars, cacheVars, TxInv
<1>2. /\ files \in [FileNums -> Files] /\ synced \in [FileNums -> Files]
      /\ ldb \in Rows /\ ldb[WriteLoc] \in Positions /\ cachedKeys \in Rows /\ cachedRemove \in SUBSET Keys
      /\ faults \in 0..MaxFaults /\ cursor \in CursorType /\ tx.keys \in Rows /\ tx.remove \in SUBSET Keys
      /\ View = ldb /\ Cur \in Positions /\ Cur' = Cur
  BY <1>0, <1>1, TypeFacts, TxFacts, ViewFacts, EmptyCacheView DEF Cur
<1>3. /\ AtMost(ldb[WriteLoc], ldb[WriteLoc]) /\ AtMost(ldb[WriteLoc], Cur) /\ Reach(files, Cur)
      /\ AtMost(Cur, Cur)
  BY <1>0, <1>1, <1>2, AtMostReflexive DEF CursorInv
<1>4. Backed(ldb, ldb[WriteLoc], files) /\ Backed(tx.keys, Cur, files)
  BY <1>0, <1>1 DEF FilesInv
<1>5. PowerLoss => /\ Backed(ldb, ldb[WriteLoc], synced) /\ Backed(tx.keys, Cur, synced)
                   /\ Lower(synced, cursor.file) /\ AlmostReach(Cur, cursor, synced)
  BY <1>0, <1>1 DEF SyncedInv, AlmostBacked
<1>6. tx' \in TxType /\ tx'.step = "none" /\ ~tx'.closing /\ NoBlockRows(tx'.keys)
  BY <1>1, NoTxFacts, NoKeysFacts
<1>7. faults' \in 0..MaxFaults
  BY <1>2, FailsOrWorks DEF CommitDirect
<1>8. ASSUME ldb' \in Rows, ldb'[WriteLoc] \in Positions, AtMost(ldb'[WriteLoc], ldb'[WriteLoc]),
             AtMost(ldb'[WriteLoc], Cur), Backed(ldb', ldb'[WriteLoc], files),
             PowerLoss => Backed(ldb', ldb'[WriteLoc], synced)
      PROVE  Inv'
  <2>1. TypeOK'
    BY <1>1, <1>2, <1>6, <1>7, <1>8 DEF TypeOK, CursorType, TxType
  <2>2. View' = ldb'
    BY <1>1, <1>8, OverlayNothing DEF View, CacheEmpty
  <2>3. PowerLoss => AlmostBacked(ldb', ldb'[WriteLoc], cursor, synced)
    BY <1>8, BackedIsAlmost
  <2> QED
    BY <1>1, <1>2, <1>3, <1>5, <1>6, <1>8, <2>1, <2>2, <2>3, IdleInv
<1>9. CASE ldb' = Overlay(ldb, tx.keys, tx.remove)
  <2>1. ldb' \in Rows /\ ldb'[WriteLoc] = Cur
    <3>1. Cur # None
      BY <1>2, ConstantFacts
    <3> QED
      BY <3>1, <1>1, <1>2, <1>9, OverlayFacts
  <2>2. Backed(ldb', Cur, files)
    BY <1>2, <1>3, <1>4, <1>9, BackedOverlay
  <2>3. PowerLoss => Backed(ldb', Cur, synced)
    BY <1>2, <1>3, <1>5, <1>9, BackedOverlay
  <2> QED
    BY <2>1, <2>2, <2>3, <1>2, <1>3, <1>8
<1>10. CASE ldb' = ldb
  BY <1>2, <1>3, <1>4, <1>5, <1>8, <1>10
<1> QED
  BY <1>9, <1>10 DEF CommitDirect

LEMMA CrashInv ==
    ASSUME Inv, Crash
    PROVE  Inv'
<1>0. TypeOK /\ FilesInv /\ (PowerLoss => SyncedInv)
  BY DEF Inv
<1>1. /\ files \in [FileNums -> Files] /\ synced \in [FileNums -> Files]
      /\ ldb \in Rows /\ ldb[WriteLoc] \in Positions /\ faults \in 0..MaxFaults
  BY <1>0, TypeFacts
<1>2. /\ Down /\ tx' = NoTx /\ cachedKeys' = NoKeys /\ cachedRemove' = {} /\ ldb' = ldb
      /\ faults' \in 0..MaxFaults
  BY <1>1, FailsOrWorks DEF Crash
<1>3. Backed(ldb, ldb[WriteLoc], files) /\ (PowerLoss => Backed(ldb, ldb[WriteLoc], synced))
  BY <1>0 DEF FilesInv, SyncedInv
<1>4. CASE UNCHANGED diskVars
  <2>1. files' = files /\ synced' = synced
    BY <1>4 DEF diskVars
  <2> QED
    BY <2>1, <1>1, <1>2, <1>3, DownInv
<1>5. CASE /\ PowerLoss
           /\ \E fs \in [FileNums -> UNION {AfterPowerLoss(synced[f], files[f]) : f \in FileNums}] :
                 /\ \A f \in FileNums : fs[f] \in AfterPowerLoss(synced[f], files[f])
                 /\ files' = fs /\ synced' = fs
  <2>1. PICK fs \in [FileNums -> UNION {AfterPowerLoss(synced[f], files[f]) : f \in FileNums}] :
           /\ \A f \in FileNums : fs[f] \in AfterPowerLoss(synced[f], files[f])
           /\ files' = fs /\ synced' = fs
    BY <1>5
  <2>2. fs \in [FileNums -> Files]
    <3>1. ASSUME NEW f \in FileNums PROVE fs[f] \in Files
      <4>1. files[f] \in Files /\ synced[f] \in Files /\ fs[f] \in AfterPowerLoss(synced[f], files[f])
        BY <1>1, <2>1
      <4> QED
        BY <4>1, PowerLossFacts
    <3> QED
      BY <3>1
  <2>3. Backed(ldb, ldb[WriteLoc], fs)
    BY <1>1, <1>3, <1>5, <2>1, <2>2, BackedAfterPowerLoss
  <2> QED
    BY <1>1, <1>2, <2>1, <2>2, <2>3, DownInv
<1> QED
  BY <1>4, <1>5 DEF Crash

LEMMA OpenInv ==
    ASSUME Inv, Open
    PROVE  Inv'
<1> DEFINE wc == scanBlockFiles
           meta == ldb[WriteLoc]
<1>0. TypeOK /\ TxInv /\ FilesInv /\ (PowerLoss => SyncedInv)
  BY DEF Inv
<1>1. /\ status = "down" /\ ldb' = ldb /\ cachedKeys' = cachedKeys /\ cachedRemove' = cachedRemove
      /\ tx' = tx
  BY DEF Open, cacheVars
<1>2. /\ files \in [FileNums -> Files] /\ synced \in [FileNums -> Files]
      /\ ldb \in Rows /\ meta \in Positions /\ cachedKeys \in Rows /\ cachedRemove \in SUBSET Keys
      /\ faults \in 0..MaxFaults /\ tx \in TxType /\ CacheEmpty
      /\ tx.step = "none" /\ ~tx.closing /\ NoBlockRows(tx.keys)
  BY <1>0, <1>1, TypeFacts DEF TxInv
<1>3. View = ldb /\ View' = View
  BY <1>0, <1>1, <1>2, EmptyCacheView DEF View
<1>4. Backed(ldb, meta, files) /\ (PowerLoss => Backed(ldb, meta, synced)) /\ Reach(files, meta)
  BY <1>0 DEF FilesInv, SyncedInv, Backed
<1>5. /\ meta[1] \in Nat /\ meta[2] \in Nat /\ meta = <<meta[1], meta[2]>>
      /\ AtMost(meta, meta)
  BY <1>2, PositionFacts, AtMostReflexive
<1>6. wc \in CursorType /\ ~wc.open /\ ~Before(wc, meta)
  BY <1>2, <1>4, ScanFacts
<1>7. wc.file \in Nat /\ wc.off \in Nat
  BY <1>6, CursorFacts
<1>8. \/ After(wc, meta) /\ handleRollback(wc, meta) /\ status' = "up"
      \/ ~After(wc, meta) /\ cursor' = wc /\ status' = "up" /\ UNCHANGED diskVars /\ Works
  BY <1>6 DEF Open
<1> HIDE DEF wc, meta
<1>9. ASSUME /\ files' \in [FileNums -> Files] /\ synced' \in [FileNums -> Files]
             /\ cursor' \in CursorType /\ faults' \in 0..MaxFaults /\ status' = "up"
             /\ cursor'.file = meta[1] /\ cursor'.off = meta[2] /\ Backed(ldb, meta, files')
             /\ PowerLoss => Backed(ldb, meta, synced')
      PROVE  Inv'
  <2>1. TypeOK'
    BY <1>1, <1>2, <1>9 DEF TypeOK, CursorType, TxType, meta
  <2>2. Cur' = meta
    BY <1>5, <1>9 DEF Cur
  <2>3. Reach(files', meta)
    BY <1>9 DEF Backed
  <2>4. PowerLoss => /\ AlmostBacked(ldb, meta, cursor', synced') /\ Lower(synced', cursor'.file)
                     /\ AlmostReach(meta, cursor', synced')
    BY <1>9, BackedIsAlmost DEF Backed, Reach, AlmostReach
  <2>5. View' = ldb /\ ldb'[WriteLoc] = meta /\ ldb' = ldb /\ ldb[WriteLoc] = meta
    BY <1>1, <1>3 DEF meta
  <2> QED
    BY <1>1, <1>2, <1>5, <1>9, <2>1, <2>2, <2>3, <2>4, <2>5, IdleInv
<1>10. CASE After(wc, meta) /\ handleRollback(wc, meta) /\ status' = "up"
  <2>1. meta[1] <= wc.file
    BY <1>5, <1>7, <1>10 DEF After
  <2>2. /\ files' \in [FileNums -> Files] /\ synced' \in [FileNums -> Files]
        /\ cursor' \in CursorType /\ faults' \in 0..MaxFaults
        /\ Kept(files, files', meta)
        /\ RolledBack(synced, synced', files', wc, cursor', meta)
    BY <1>2, <1>4, <1>6, <1>10, <2>1, RollbackFacts
  <2>3. Backed(ldb, meta, files')
    BY <1>2, <1>4, <1>5, <2>2, BackedKept
  <2>4. PowerLoss => Backed(ldb, meta, synced')
    BY <1>2, <1>4, <2>2, <2>3, BackedRolledBack
  <2>5. cursor'.file = meta[1] /\ cursor'.off = meta[2]
    BY <2>2 DEF RolledBack
  <2> QED
    BY <1>9, <1>10, <2>2, <2>3, <2>4, <2>5
<1>11. CASE ~After(wc, meta) /\ cursor' = wc /\ status' = "up" /\ UNCHANGED diskVars /\ Works
  <2>1. wc.file = meta[1] /\ wc.off = meta[2]
    BY <1>5, <1>6, <1>7, <1>11 DEF After, Before
  <2>2. files' = files /\ synced' = synced /\ faults' = faults
    BY <1>11 DEF diskVars, Works
  <2> QED
    BY <1>2, <1>4, <1>6, <1>9, <1>11, <2>1, <2>2
<1> QED
  BY <1>8, <1>10, <1>11

LEMMA NextInv ==
    ASSUME Inv, [Next]_vars, PowerLoss => CloseSyncs
    PROVE  Inv'
<1>1. CASE UNCHANGED vars
  <2>1. /\ files' = files /\ synced' = synced /\ ldb' = ldb /\ cachedKeys' = cachedKeys
        /\ cachedRemove' = cachedRemove /\ cursor' = cursor /\ tx' = tx /\ status' = status
        /\ faults' = faults
    BY <1>1 DEF vars, diskVars, cacheVars
  <2>2. View' = View /\ Cur' = Cur /\ (CacheEmpty <=> CacheEmpty')
    BY <2>1 DEF View, Cur, CacheEmpty
  <2>3. TypeOK'
    BY <2>1 DEF Inv, TypeOK
  <2>4. TxInv' /\ CursorInv' /\ FilesInv'
    BY <2>1, <2>2 DEF Inv, TxInv, CursorInv, FilesInv, Writing
  <2>5. PowerLoss => SyncedInv'
    BY <2>1, <2>2 DEF Inv, SyncedInv, Writing
  <2> QED
    BY <2>1, <2>3, <2>4, <2>5 DEF Inv, AlwaysOpens
<1>2. CASE Next
  BY <1>2, QuietActionsInv, WriteBlockInv, RollbackFilesInv, CommitToCacheInv, FlushInv,
     CommitDirectInv, CrashInv, OpenInv DEF Next
<1> QED
  BY <1>1, <1>2

-----------------------------------------------------------------------------
(***************************************************************************)
(* The variables of the database keep their types, in any number of blocks *)
(* and files, failing writes and crashes: the cursor never leaves the      *)
(* files (Exceeds in writeBlock) and the cache never loses the metadata of *)
(* the cursor.                                                             *)
(***************************************************************************)
THEOREM FfldbTypeCorrect ==
    ASSUME PowerLoss => CloseSyncs
    PROVE  Spec => []TypeOK
<1>1. Inv /\ [Next]_vars => Inv'
  BY NextInv
<1>2. Inv => TypeOK
  BY DEF Inv
<1> QED
  BY <1>1, <1>2, InitInv, PTL DEF Spec

(***************************************************************************)
(* Every block that has a row, in the cache or in leveldb, can be read     *)
(* from the flat files, whichever writes fail and whenever the program or  *)
(* the machine stops, provided that a machine that may go down writes the  *)
(* files to disk when writeBlock closes them.                              *)
(***************************************************************************)
THEOREM RowsStayReadable ==
    ASSUME PowerLoss => CloseSyncs
    PROVE  Spec => []RowsReadable
<1>1. Inv /\ [Next]_vars => Inv'
  BY NextInv
<1>2. Inv => RowsReadable
  BY DEF Inv, FilesInv, Backed, RowsReadable
<1> QED
  BY <1>1, <1>2, InitInv, PTL DEF Spec

(***************************************************************************)
(* reconcileDB never finds the files behind the cursor of the metadata: a  *)
(* database that was created can always be opened.                         *)
(***************************************************************************)
THEOREM DatabaseAlwaysOpens ==
    ASSUME PowerLoss => CloseSyncs
    PROVE  Spec => []AlwaysOpens
<1>1. Inv /\ [Next]_vars => Inv'
  BY NextInv
<1>2. Inv => AlwaysOpens
  BY DEF Inv
<1> QED
  BY <1>1, <1>2, InitInv, PTL DEF Spec

-----------------------------------------------------------------------------
(***************************************************************************)
(* Ffldb implements DurableStore.  While every row is readable, what the   *)
(* database contains depends on the rows alone.                            *)
(***************************************************************************)
Visible(rows) ==
    [k \in Blocks \cup Keys |-> IF k \in Blocks /\ rows[k] # None THEN k ELSE rows[k]]

LEMMA ContentsVisible ==
    ASSUME Inv
    PROVE  Contents(View) = Visible(View) /\ Contents(ldb) = Visible(ldb)
<1>1. \A b \in Blocks : /\ View[b] # None => Readable(files, b, View[b])
                        /\ ldb[b] # None => Readable(files, b, ldb[b])
  BY DEF Inv, FilesInv, Backed
<1>2. Blocks \cap Keys = {}
  BY ConstantFacts
<1> QED
  BY <1>1, <1>2 DEF Contents, Visible

LEMMA ContentsVisibleThen ==
    ASSUME Inv'
    PROVE  Contents(View)' = Visible(View') /\ Contents(ldb)' = Visible(ldb')
<1>1. \A b \in Blocks : /\ View'[b] # None => Readable(files', b, View'[b])
                        /\ ldb'[b] # None => Readable(files', b, ldb'[b])
  BY DEF Inv, FilesInv, Backed
<1>2. Blocks \cap Keys = {}
  BY ConstantFacts
<1> QED
  BY <1>1, <1>2 DEF Contents, Visible, Readable

LEMMA VisibleOverlay ==
    ASSUME NEW rows \in Rows, NEW keys \in Rows, NEW remove \in SUBSET Keys
    PROVE  Visible(Overlay(rows, keys, remove)) =
              [k \in Blocks \cup Keys |->
                  IF k \in remove THEN None
                  ELSE IF Visible(keys)[k] # None THEN Visible(keys)[k] ELSE Visible(rows)[k]]
<1>1. Blocks \cap Keys = {} /\ None \notin Blocks /\ Blocks \cup Keys \subseteq DbKeys
  BY ConstantFacts DEF DbKeys
<1>2. \A k \in Blocks \cup Keys :
         Overlay(rows, keys, remove)[k] = IF k \in remove THEN None
                                          ELSE IF keys[k] # None THEN keys[k] ELSE rows[k]
  BY <1>1 DEF Overlay
<1> QED
  BY <1>1, <1>2 DEF Visible

(***************************************************************************)
(* The changes of the transaction.                                         *)
(***************************************************************************)
InBlocks(t, k) == \E i \in DOMAIN t.blocks : t.blocks[i] = k

LEMMA PendingIs ==
    Pending = [put |-> [k \in Blocks \cup Keys |->
                           IF k \in Keys THEN tx.keys[k]
                           ELSE IF tx.keys[k] # None \/ InBlocks(tx, k) THEN k ELSE None],
               remove |-> tx.remove]
  BY DEF Pending, PendingPut, InBlocks

LEMMA PendingThen ==
    Pending' = [put |-> [k \in Blocks \cup Keys |->
                            IF k \in Keys THEN tx'.keys[k]
                            ELSE IF tx'.keys[k] # None \/ InBlocks(tx', k) THEN k ELSE None],
                remove |-> tx'.remove]
  BY DEF Pending, PendingPut, InBlocks

LEMMA NothingPending ==
    ASSUME tx'.keys = NoKeys, tx'.blocks = <<>>, tx'.remove = {}
    PROVE  Pending' = Store!NoChanges
<1>1. \A k \in Blocks \cup Keys : ~InBlocks(tx', k) /\ tx'.keys[k] = None
  BY DEF InBlocks, NoKeys, DbKeys
<1> QED
  BY <1>1, PendingThen DEF Store!NoChanges

LEMMA PendingKept ==
    ASSUME tx'.remove = tx.remove, \A k \in Keys : tx'.keys[k] = tx.keys[k],
           \A b \in Blocks : (tx'.keys[b] # None \/ InBlocks(tx', b)) <=>
                             (tx.keys[b] # None \/ InBlocks(tx, b))
    PROVE  Pending' = Pending
<1>1. \A k \in Blocks \cup Keys :
         (IF k \in Keys THEN tx'.keys[k]
          ELSE IF tx'.keys[k] # None \/ InBlocks(tx', k) THEN k ELSE None) =
         (IF k \in Keys THEN tx.keys[k]
          ELSE IF tx.keys[k] # None \/ InBlocks(tx, k) THEN k ELSE None)
  OBVIOUS
<1> QED
  BY <1>1, PendingIs, PendingThen

LEMMA PendingAll ==
    ASSUME tx.blocks = <<>>
    PROVE  Pending = [put |-> Visible(tx.keys), remove |-> tx.remove]
<1>1. \A k : ~InBlocks(tx, k)
  BY DEF InBlocks
<1>2. Blocks \cap Keys = {}
  BY ConstantFacts
<1> QED
  BY <1>1, <1>2, PendingIs DEF Visible

LEMMA NoTxPending ==
    ASSUME tx' = NoTx \/ tx' = [NoTx EXCEPT !.step = "open"]
             \/ tx' = [NoTx EXCEPT !.step = "sync", !.closing = TRUE]
    PROVE  Pending' = Store!NoChanges
<1>1. tx'.keys = NoKeys /\ tx'.blocks = <<>> /\ tx'.remove = {}
  <2>1. CASE tx' = NoTx
    BY <2>1 DEF NoTx
  <2>2. CASE tx' = [NoTx EXCEPT !.step = "open"]
    BY <2>2 DEF NoTx
  <2>3. CASE tx' = [NoTx EXCEPT !.step = "sync", !.closing = TRUE]
    BY <2>3 DEF NoTx
  <2> QED
    BY <2>1, <2>2, <2>3
<1> QED
  BY <1>1, NothingPending

(***************************************************************************)
(* The steps of DurableStore.                                              *)
(***************************************************************************)
LEMMA SameContents ==
    ASSUME Inv, Inv', View' = View, ldb' = ldb
    PROVE  Contents(View)' = Contents(View) /\ Contents(ldb)' = Contents(ldb)
  BY ContentsVisible, ContentsVisibleThen

LEMMA StutterStep ==
    ASSUME Inv, Inv', View' = View, ldb' = ldb, Pending' = Pending
    PROVE  UNCHANGED Store!vars
  BY SameContents DEF Store!vars

LEMMA GiveUpStep ==
    ASSUME Inv, Inv', View' = View, ldb' = ldb, Pending' = Store!NoChanges
    PROVE  Store!Next
<1>1. Store!GiveUp
  BY SameContents DEF Store!GiveUp
<1> QED
  BY <1>1 DEF Store!Next

LEMMA CrashStep ==
    ASSUME Inv, Inv', View' = ldb, ldb' = ldb, Pending' = Store!NoChanges
    PROVE  Store!Next
<1>1. Contents(View)' = Contents(ldb) /\ Contents(ldb)' = Contents(ldb)
  BY ContentsVisible, ContentsVisibleThen
<1>2. Store!Crash
  BY <1>1 DEF Store!Crash
<1> QED
  BY <1>2 DEF Store!Next

LEMMA CommitStep ==
    ASSUME Inv, Inv', Pending' = Store!NoChanges, tx.blocks = <<>>,
           NEW keys \in Rows, Visible(keys) = Visible(tx.keys),
           View' = Overlay(View, keys, tx.remove),
           ldb' = ldb \/ (View = ldb /\ ldb' = View')
    PROVE  Store!Next
<1>1. View \in Rows /\ tx.remove \in SUBSET Keys
  BY ViewFacts, TypeFacts, TxFacts DEF Inv
<1>2. Contents(View)' = Store!Apply(Contents(View), Pending)
  <2>1. Contents(View)' =
           [k \in Blocks \cup Keys |->
               IF k \in tx.remove THEN None
               ELSE IF Visible(tx.keys)[k] # None THEN Visible(tx.keys)[k] ELSE Contents(View)[k]]
    BY <1>1, VisibleOverlay, ContentsVisible, ContentsVisibleThen
  <2>2. Pending.put = Visible(tx.keys) /\ Pending.remove = tx.remove
    BY PendingAll
  <2> QED
    BY <2>1, <2>2 DEF Store!Apply
<1>3. \/ Contents(ldb)' = Contents(ldb)
      \/ Contents(ldb) = Contents(View) /\ Contents(ldb)' = Contents(View)'
  BY ContentsVisible, ContentsVisibleThen
<1>4. Store!Commit
  BY <1>2, <1>3 DEF Store!Commit
<1> QED
  BY <1>4 DEF Store!Next

LEMMA PutStep ==
    ASSUME Inv, Inv', View' = View, ldb' = ldb, NEW k \in Blocks \cup Keys,
           NEW v \in Blocks \cup Values,
           Pending' = [put |-> [Pending.put EXCEPT ![k] = v], remove |-> Pending.remove \ {k}]
    PROVE  Store!Next
<1>1. Store!Put(k, v)
  BY SameContents DEF Store!Put
<1> QED
  BY <1>1 DEF Store!Next

LEMMA DeleteStep ==
    ASSUME Inv, Inv', View' = View, ldb' = ldb, NEW k \in Keys,
           Pending' = [put |-> [Pending.put EXCEPT ![k] = None], remove |-> Pending.remove \cup {k}]
    PROVE  Store!Next
<1>1. Store!Delete(k)
  BY SameContents DEF Store!Delete
<1> QED
  BY <1>1 DEF Store!Next

(***************************************************************************)
(* The steps of Ffldb.                                                     *)
(***************************************************************************)
LEMMA UpdateSteps ==
    ASSUME Inv, Inv',
           \/ Begin \/ Rollback \/ Commit \/ Close \/ NeedsFlush
           \/ \E k \in Keys : Delete(k) \/ \E v \in Values : Put(k, v)
           \/ \E b \in Blocks : StoreBlock(b)
    PROVE  [Store!Next]_(Store!vars)
<1>1. tx \in TxType /\ tx.keys \in Rows /\ tx.remove \in SUBSET Keys /\ tx.blocks \in Seq(Blocks)
  BY TypeFacts, TxFacts DEF Inv
<1>2. UNCHANGED <<diskVars, ldb, cacheVars, cursor, status, faults>>
  BY DEF Begin, Rollback, Commit, Close, NeedsFlush, Delete, Put, StoreBlock
<1>3. View' = View /\ ldb' = ldb
  BY <1>2 DEF View, cacheVars
<1>4. Blocks \cap Keys = {} /\ None \notin Blocks /\ WriteLoc \notin Blocks \cup Keys
      /\ Blocks \cup Keys \subseteq DbKeys /\ WriteLoc \in DbKeys
  BY ConstantFacts DEF DbKeys
<1>5. CASE Begin \/ Rollback \/ Close
  <2>1. Pending' = Store!NoChanges
    BY <1>5, NoTxPending DEF Begin, Rollback, Close
  <2> QED
    BY <2>1, <1>3, GiveUpStep
<1>6. CASE Commit
  <2>1. tx'.keys = tx.keys /\ tx'.remove = tx.remove /\ tx'.blocks = tx.blocks
    BY <1>1, <1>6 DEF Commit, TxType
  <2>2. Pending' = Pending
    BY <2>1, PendingKept DEF InBlocks
  <2> QED
    BY <2>2, <1>3, StutterStep
<1>7. CASE NeedsFlush
  <2> DEFINE t == WithCursor(tx)
  <2>1. /\ t \in TxType /\ t.keys = [tx.keys EXCEPT ![WriteLoc] = Cur] /\ t.blocks = tx.blocks
        /\ t.remove = tx.remove \ {WriteLoc} /\ tx' = [t EXCEPT !.step = "sync"]
    BY <1>1, <1>4, <1>7, TypeFacts, ViewFacts, PutKeyFacts DEF WithCursor, Cur, Inv, NeedsFlush
  <2> HIDE DEF t
  <2>2. tx'.keys = t.keys /\ tx'.remove = t.remove /\ tx'.blocks = tx.blocks
    BY <2>1 DEF TxType
  <2>3. \A k \in Blocks \cup Keys : tx'.keys[k] = tx.keys[k]
    <3>1. tx'.keys = [tx.keys EXCEPT ![WriteLoc] = Cur]
      BY <2>1, <2>2
    <3> QED
      BY <3>1, <1>1, <1>4, RowFacts
  <2>4. tx'.remove = tx.remove
    BY <2>1, <2>2, <1>1, <1>4
  <2>5. Pending' = Pending
    BY <2>2, <2>3, <2>4, PendingKept DEF InBlocks
  <2> QED
    BY <2>5, <1>3, StutterStep
<1>8. ASSUME NEW k \in Keys, Delete(k) PROVE Store!Next
  <2>1. tx' = [tx EXCEPT !.keys[k] = None, !.remove = @ \cup {k}]
    BY <1>8 DEF Delete, deleteKey
  <2>2. /\ tx'.keys = [tx.keys EXCEPT ![k] = None] /\ tx'.remove = tx.remove \cup {k}
        /\ tx'.blocks = tx.blocks
    BY <2>1, <1>1 DEF TxType
  <2>3. tx'.keys[k] = None /\ \A x \in Blocks \cup Keys : x # k => tx'.keys[x] = tx.keys[x]
    BY <2>2, <1>1, <1>4, RowFacts
  <2>4. \A x : InBlocks(tx', x) <=> InBlocks(tx, x)
    BY <2>2 DEF InBlocks
  <2>5. Pending' = [put |-> [Pending.put EXCEPT ![k] = None], remove |-> Pending.remove \cup {k}]
    BY <2>2, <2>3, <2>4, <1>4, PendingIs, PendingThen
  <2> QED
    BY <2>5, <1>3, DeleteStep
<1>9. ASSUME NEW k \in Keys, NEW v \in Values, Put(k, v) PROVE Store!Next
  <2>1. tx' = putKey(tx, k, v)
    BY <1>9 DEF Put
  <2>2. /\ tx'.keys = [tx.keys EXCEPT ![k] = v] /\ tx'.remove = tx.remove \ {k}
        /\ tx'.blocks = tx.blocks
    BY <2>1, <1>1, <1>4, PutKeyFacts
  <2>3. tx'.keys[k] = v /\ \A x \in Blocks \cup Keys : x # k => tx'.keys[x] = tx.keys[x]
    BY <2>2, <1>1, <1>4, RowFacts
  <2>4. \A x : InBlocks(tx', x) <=> InBlocks(tx, x)
    BY <2>2 DEF InBlocks
  <2>5. Pending' = [put |-> [Pending.put EXCEPT ![k] = v], remove |-> Pending.remove \ {k}]
    BY <2>2, <2>3, <2>4, <1>4, PendingIs, PendingThen
  <2> QED
    BY <2>5, <1>3, PutStep
<1>10. ASSUME NEW b \in Blocks, StoreBlock(b) PROVE Store!Next
  <2>1. tx' = [tx EXCEPT !.blocks = Append(@, b)]
    BY <1>10 DEF StoreBlock
  <2>2. tx'.keys = tx.keys /\ tx'.remove = tx.remove /\ tx'.blocks = Append(tx.blocks, b)
    BY <2>1, <1>1 DEF TxType
  <2>3. \A x : InBlocks(tx', x) <=> InBlocks(tx, x) \/ x = b
    <3>1. /\ DOMAIN tx.blocks = 1..Len(tx.blocks) /\ Len(tx.blocks) \in Nat
          /\ DOMAIN tx'.blocks = 1..(Len(tx.blocks) + 1)
          /\ tx'.blocks[Len(tx.blocks) + 1] = b
          /\ \A i \in 1..Len(tx.blocks) : tx'.blocks[i] = tx.blocks[i]
      BY <2>2, <1>1
    <3> QED
      BY <3>1 DEF InBlocks
  <2>4. Pending' = [put |-> [Pending.put EXCEPT ![b] = b], remove |-> Pending.remove \ {b}]
    <3>1. tx.remove \ {b} = tx.remove
      BY <1>1, <1>4
    <3>2. \A k \in Blocks \cup Keys :
             (IF k \in Keys THEN tx'.keys[k]
              ELSE IF tx'.keys[k] # None \/ InBlocks(tx', k) THEN k ELSE None) =
             IF k = b THEN b
             ELSE (IF k \in Keys THEN tx.keys[k]
                   ELSE IF tx.keys[k] # None \/ InBlocks(tx, k) THEN k ELSE None)
      BY <2>2, <2>3, <1>4
    <3> QED
      BY <3>1, <3>2, <2>2, PendingIs, PendingThen
  <2> QED
    BY <2>4, <1>3, PutStep
<1> QED
  BY <1>5, <1>6, <1>7, <1>8, <1>9, <1>10

LEMMA WriteSteps ==
    ASSUME Inv, Inv', WriteBlock \/ RollbackFiles \/ CommitToCache
    PROVE  [Store!Next]_(Store!vars)
<1>1. /\ tx \in TxType /\ tx.keys \in Rows /\ tx.remove \in SUBSET Keys /\ tx.blocks \in Seq(Blocks)
      /\ cursor \in CursorType /\ Cur \in Positions
  BY TypeFacts, TxFacts, ViewFacts DEF Inv
<1>2. Blocks \cap Keys = {} /\ None \notin Blocks /\ None \notin Positions
      /\ WriteLoc \notin Blocks \cup Keys /\ Blocks \cup Keys \subseteq DbKeys /\ WriteLoc \in DbKeys
  BY ConstantFacts DEF DbKeys
<1>3. CASE WriteBlock
  <2> DEFINE b == Head(tx.blocks)
             at == Positioned(b)
  <2>1. /\ tx.blocks # <<>> /\ ldb' = ldb /\ View' = View
        /\ \/ tx' = [putKey(tx, b, <<at.file, at.off>>) EXCEPT !.blocks = Tail(@)]
           \/ tx' = [tx EXCEPT !.step = "rollback"]
        /\ tx.step = "write" /\ at.file <= MaxFile
    BY <1>3 DEF WriteBlock, View, cacheVars
  <2>2. b \in Blocks /\ at \in CursorType /\ <<at.file, at.off>> \in Positions
    <3>1. b \in Blocks
      BY <2>1, <1>1
    <3>2. at \in CursorType
      BY <2>1, <3>1, PositionedFacts
    <3> QED
      BY <3>1, <3>2, CursorFacts
  <2>3. CASE tx' = [tx EXCEPT !.step = "rollback"]
    <3>1. tx'.keys = tx.keys /\ tx'.remove = tx.remove /\ tx'.blocks = tx.blocks
      BY <2>3, <1>1 DEF TxType
    <3>2. Pending' = Pending
      BY <3>1, PendingKept DEF InBlocks
    <3> QED
      BY <3>2, <2>1, StutterStep
  <2>4. CASE tx' = [putKey(tx, b, <<at.file, at.off>>) EXCEPT !.blocks = Tail(@)]
    <3> DEFINE pos == <<at.file, at.off>>
               u == putKey(tx, b, pos)
    <3>1. /\ u \in TxType /\ u.keys = [tx.keys EXCEPT ![b] = pos] /\ u.blocks = tx.blocks
          /\ u.remove = tx.remove \ {b} /\ pos # None /\ b \in DbKeys
          /\ tx' = [u EXCEPT !.blocks = Tail(@)]
      BY <2>2, <2>4, <1>1, <1>2, PutKeyFacts
    <3> HIDE DEF u, pos
    <3>2. tx'.keys = u.keys /\ tx'.remove = u.remove /\ tx'.blocks = Tail(tx.blocks)
      BY <3>1 DEF TxType
    <3>3. /\ tx'.keys[b] # None /\ \A k \in Blocks \cup Keys : k # b => tx'.keys[k] = tx.keys[k]
          /\ tx'.remove = tx.remove
      <4> HIDE DEF b
      <4>1. tx'.keys = [tx.keys EXCEPT ![b] = pos] /\ pos # None /\ b \in DbKeys
        BY <3>1, <3>2
      <4>2. tx.keys \in [DbKeys -> Positions \cup Values \cup {None}]
        BY <1>1, RowFacts
      <4>3. tx'.keys[b] # None /\ \A k \in Blocks \cup Keys : k # b => tx'.keys[k] = tx.keys[k]
        BY <4>1, <4>2, <1>2
      <4>4. tx'.remove = tx.remove
        BY <3>1, <3>2, <2>2, <1>1, <1>2
      <4> QED
        BY <4>3, <4>4
    <3>4. InBlocks(tx, b) /\ \A x : x # b => (InBlocks(tx', x) <=> InBlocks(tx, x))
      <4>1. /\ DOMAIN tx.blocks = 1..Len(tx.blocks) /\ Len(tx.blocks) \in Nat /\ Len(tx.blocks) >= 1
            /\ DOMAIN tx'.blocks = 1..(Len(tx.blocks) - 1) /\ tx.blocks[1] = b
            /\ \A i \in 1..(Len(tx.blocks) - 1) : tx'.blocks[i] = tx.blocks[i + 1]
        BY <3>2, <2>1, <1>1
      <4> HIDE DEF b
      <4>2. ASSUME NEW x, x # b, InBlocks(tx, x) PROVE InBlocks(tx', x)
        <5>1. PICK i \in 1..Len(tx.blocks) : tx.blocks[i] = x
          BY <4>1, <4>2 DEF InBlocks
        <5>2. i - 1 \in 1..(Len(tx.blocks) - 1) /\ (i - 1) + 1 = i
          BY <4>1, <4>2, <5>1
        <5> QED
          BY <4>1, <5>1, <5>2 DEF InBlocks
      <4>3. ASSUME NEW x, InBlocks(tx', x) PROVE InBlocks(tx, x)
        <5>1. PICK i \in 1..(Len(tx.blocks) - 1) : tx'.blocks[i] = x
          BY <4>1, <4>3 DEF InBlocks
        <5>2. i + 1 \in 1..Len(tx.blocks) /\ tx.blocks[i + 1] = x
          BY <4>1, <5>1
        <5> QED
          BY <4>1, <5>2 DEF InBlocks
      <4>4. InBlocks(tx, b)
        BY <4>1 DEF InBlocks
      <4> QED
        BY <4>2, <4>3, <4>4
    <3>5. Pending' = Pending
      <4> HIDE DEF b
      <4>1. \A k \in Keys : k # b
        BY <2>2, <1>2
      <4>2. ASSUME NEW x \in Blocks
            PROVE  (tx'.keys[x] # None \/ InBlocks(tx', x)) <=> (tx.keys[x] # None \/ InBlocks(tx, x))
        BY <3>3, <3>4
      <4> QED
        BY <3>3, <4>1, <4>2, PendingKept
    <3> QED
      BY <3>5, <2>1, StutterStep
  <2> QED
    BY <2>1, <2>3, <2>4
<1>4. CASE RollbackFiles
  <2>1. ldb' = ldb /\ View' = View /\ tx' = NoTx
    BY <1>4 DEF RollbackFiles, View, cacheVars
  <2> QED
    BY <2>1, NoTxPending, GiveUpStep
<1>5. CASE CommitToCache
  <2> DEFINE t == WithCursor(tx)
  <2>1. /\ tx.blocks = <<>> /\ tx' = NoTx /\ ldb' = ldb
        /\ cachedKeys' = Overlay(cachedKeys, t.keys, t.remove) /\ cachedRemove' = RemovedWith(t)
    BY <1>5 DEF CommitToCache
  <2>2. /\ t \in TxType /\ t.keys = [tx.keys EXCEPT ![WriteLoc] = Cur] /\ t.remove = tx.remove \ {WriteLoc}
    BY <1>1, <1>2, PutKeyFacts DEF WithCursor, Cur
  <2>3. t.remove = tx.remove /\ t.keys \in Rows /\ t.remove \subseteq DbKeys
    BY <2>2, <1>1, <1>2, TxFacts
  <2>4. View' = Overlay(View, t.keys, t.remove)
    BY <2>1, <2>3, OverlayOfOverlay DEF View
  <2> HIDE DEF t
  <2>5. \A k \in Blocks \cup Keys : t.keys[k] = tx.keys[k]
    BY <2>2, <1>1, <1>2, RowFacts
  <2>6. Visible(t.keys) = Visible(tx.keys)
    BY <2>5 DEF Visible
  <2> QED
    BY <2>1, <2>3, <2>4, <2>6, NoTxPending, CommitStep
<1> QED
  BY <1>3, <1>4, <1>5

LEMMA FlushSteps ==
    ASSUME Inv, Inv', SyncBlocks \/ FlushCache \/ ClearCache \/ CommitDirect \/ Crash \/ Open
    PROVE  [Store!Next]_(Store!vars)
<1>1. /\ tx \in TxType /\ tx.keys \in Rows /\ ldb \in Rows
  BY TypeFacts, TxFacts DEF Inv
<1>2. ASSUME NEW s, GoTo(s) PROVE Pending' = Pending
  <2>1. tx'.keys = tx.keys /\ tx'.remove = tx.remove /\ tx'.blocks = tx.blocks
    BY <1>1, <1>2 DEF GoTo, TxType
  <2> QED
    BY <2>1, PendingKept DEF InBlocks
<1>3. CASE FlushFails
  <2>1. ldb' = ldb /\ tx' = NoTx
    BY <1>3 DEF FlushFails
  <2>2. CASE tx.closing
    <3>1. View' = ldb
      BY <1>1, <1>3, <2>1, <2>2, OverlayNothing DEF FlushFails, View
    <3> QED
      BY <2>1, <3>1, NoTxPending, CrashStep
  <2>3. CASE ~tx.closing
    <3>1. View' = View
      BY <1>3, <2>1, <2>3 DEF FlushFails, View, cacheVars
    <3> QED
      BY <2>1, <3>1, NoTxPending, GiveUpStep
  <2> QED
    BY <2>2, <2>3
<1>4. CASE GoTo("flush") /\ UNCHANGED <<files, ldb, cacheVars, cursor, status>>
  <2>1. ldb' = ldb /\ View' = View
    BY <1>4 DEF View, cacheVars
  <2> QED
    BY <1>2, <1>4, <2>1, StutterStep
<1>5. CASE ldb' = View /\ GoTo("clear") /\ UNCHANGED <<diskVars, cacheVars, cursor, status>>
  <2>1. View' = View
    BY <1>5, OverlayTwice DEF View, cacheVars
  <2>2. /\ Contents(View)' = Contents(View) /\ Contents(ldb)' = Contents(View)
        /\ Pending' = Pending
    BY <1>2, <1>5, <2>1, ContentsVisible, ContentsVisibleThen
  <2>3. Store!Flush
    BY <2>2 DEF Store!Flush
  <2> QED
    BY <2>3 DEF Store!Next
<1>6. CASE ClearCache
  <2>1. tx.step = "clear" /\ cachedKeys' = NoKeys /\ cachedRemove' = {} /\ ldb' = ldb
    BY <1>6 DEF ClearCache
  <2>2. ldb = View /\ View' = View
    BY <1>1, <2>1, OverlayNothing DEF Inv, TxInv, View
  <2>3. CASE tx.closing
    <3>1. tx' = NoTx
      BY <1>6, <2>3 DEF ClearCache
    <3> QED
      BY <2>1, <2>2, <3>1, NoTxPending, GiveUpStep
  <2>4. CASE ~tx.closing
    <3>1. GoTo("direct")
      BY <1>6, <2>4 DEF ClearCache
    <3> QED
      BY <1>2, <2>1, <2>2, <3>1, StutterStep
  <2> QED
    BY <2>3, <2>4
<1>7. CASE CommitDirect
  <2>1. tx.step = "direct" /\ tx' = NoTx /\ cachedKeys' = cachedKeys /\ cachedRemove' = cachedRemove
    BY <1>7 DEF CommitDirect, cacheVars
  <2>2. CacheEmpty /\ View = ldb /\ tx.blocks = <<>>
    BY <2>1, EmptyCacheView DEF Inv, TxInv
  <2>3. ldb' \in Rows
    BY TypeFacts DEF Inv, TypeOK
  <2>4. View' = ldb'
    BY <2>1, <2>2, <2>3, OverlayNothing DEF View, CacheEmpty
  <2>5. CASE ldb' = Overlay(ldb, tx.keys, tx.remove)
    BY <1>1, <2>1, <2>2, <2>4, <2>5, NoTxPending, CommitStep
  <2>6. CASE ldb' = ldb
    BY <2>1, <2>2, <2>4, <2>6, NoTxPending, GiveUpStep
  <2> QED
    BY <1>7, <2>5, <2>6 DEF CommitDirect
<1>8. CASE Crash
  <2>1. ldb' = ldb /\ cachedKeys' = NoKeys /\ cachedRemove' = {} /\ tx' = NoTx
    BY <1>8 DEF Crash
  <2>2. View' = ldb
    BY <1>1, <2>1, OverlayNothing DEF View
  <2> QED
    BY <2>1, <2>2, NoTxPending, CrashStep
<1>9. CASE Open
  <2>1. ldb' = ldb /\ View' = View /\ tx' = tx
    BY <1>9 DEF Open, View, cacheVars
  <2>2. Pending' = Pending
    BY <2>1, PendingKept DEF InBlocks
  <2> QED
    BY <2>1, <2>2, StutterStep
<1> QED
  BY <1>3, <1>4, <1>5, <1>6, <1>7, <1>8, <1>9 DEF SyncBlocks, FlushCache

(***************************************************************************)
(* Ffldb implements DurableStore: a transaction, with its blocks and its   *)
(* metadata, takes effect as a whole or not at all, and what a flush made  *)
(* durable is what is there after a crash.                                 *)
(***************************************************************************)
THEOREM ImplementsDurableStore ==
    ASSUME PowerLoss => CloseSyncs
    PROVE  Spec => Durable
<1>1. Inv /\ [Next]_vars => Inv'
  BY NextInv
<1>2. Init => Store!Init
  <2> SUFFICES ASSUME Init PROVE Store!Init
    OBVIOUS
  <2>1. Inv /\ ldb = [NoKeys EXCEPT ![WriteLoc] = <<0, 0>>] /\ View = ldb /\ tx = NoTx
    BY InitInv, EmptyCacheView DEF Init, CacheEmpty, Inv
  <2>2. Visible(ldb) = [k \in Blocks \cup Keys |-> None]
    BY <2>1, ConstantFacts DEF Visible, NoKeys, DbKeys
  <2>3. Contents(View) = [k \in Blocks \cup Keys |-> None] /\ Contents(ldb) = Contents(View)
    BY <2>1, <2>2, ContentsVisible
  <2>4. Pending = Store!NoChanges
    <3>1. \A k \in Blocks \cup Keys : ~InBlocks(tx, k) /\ tx.keys[k] = None
      BY <2>1 DEF InBlocks, NoTx, NoKeys, DbKeys
    <3>2. tx.remove = {}
      BY <2>1 DEF NoTx
    <3> QED
      BY <3>1, <3>2, PendingIs DEF Store!NoChanges
  <2> QED
    BY <2>3, <2>4 DEF Store!Init
<1>3. Inv /\ Inv' /\ [Next]_vars => [Store!Next]_(Store!vars)
  <2> SUFFICES ASSUME Inv, Inv', [Next]_vars PROVE [Store!Next]_(Store!vars)
    OBVIOUS
  <2>1. CASE UNCHANGED vars
    <3>1. ldb' = ldb /\ View' = View /\ tx' = tx
      BY <2>1 DEF vars, View, cacheVars
    <3>2. Pending' = Pending
      BY <3>1, PendingKept DEF InBlocks
    <3> QED
      BY <3>1, <3>2, StutterStep
  <2>2. CASE Next
    BY <2>2, UpdateSteps, WriteSteps, FlushSteps DEF Next
  <2> QED
    BY <2>1, <2>2
<1> QED
  BY <1>1, <1>2, <1>3, InitInv, PTL DEF Spec, Durable, Store!Spec
=============================================================================
