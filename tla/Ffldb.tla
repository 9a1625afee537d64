------------------------------- MODULE Ffldb --------------------------------
(***************************************************************************)
(* The database (pkg/db/ffldb): blocks are appended to flat files at a     *)
(* write cursor, and metadata, with the place of every block and the       *)
(* cursor, goes to a cache over leveldb that is flushed now and then.  A   *)
(* transaction that fails rolls the files back, and a start reconciles the *)
(* files with the metadata.                                                *)
(*                                                                         *)
(* The disk has a page cache: files is what the program reads, synced what *)
(* is on the disk for sure.  A file is counted in units, of which a record *)
(* (network, length, block and checksum) takes Size[b].                    *)
(***************************************************************************)
EXTENDS Integers, Sequences

CONSTANTS
    Blocks,            \* blocks to store
    Size,              \* Size[b]: units of the record of b
    Keys,              \* keys of other metadata
    Values,            \* and their values
    WriteLoc,          \* writeLocKeyName, the key of the write cursor
    None,              \* nil
    MaxBlockFileSize,  \* units of a file
    MaxFile,           \* bound: number of the last file
    MaxPending,        \* bound: blocks in one transaction
    MaxFaults,         \* bound: failing writes and crashes
    PowerLoss,         \* the machine may crash, not just the program
    CloseSyncs         \* the system writes a file to disk when it is closed

ASSUME FfldbAssumption ==
    /\ {MaxBlockFileSize, MaxPending} \subseteq Nat \ {0} /\ {MaxFile, MaxFaults} \subseteq Nat
    /\ Size \in [Blocks -> 1..MaxBlockFileSize]
    /\ Blocks \cap Keys = {} /\ WriteLoc \notin Blocks \cup Keys
    /\ None \notin Blocks \cup Values \cup ((0..MaxFile) \X (0..MaxBlockFileSize))
    /\ {PowerLoss, CloseSyncs} \subseteq BOOLEAN

VARIABLES
    files, synced,     \* flat files: what is read, and what a power loss leaves
    ldb,               \* leveldb
    cachedKeys, cachedRemove,
    cursor,            \* store.writeCursor; open: there is a curFile.file
    tx,                \* the write transaction, or the flush of Close
    status,            \* "up", "down" or "corrupt"
    faults             \* failing writes and crashes so far

diskVars == <<files, synced>>
cacheVars == <<cachedKeys, cachedRemove>>
vars == <<diskVars, ldb, cacheVars, cursor, tx, status, faults>>

DbKeys == Blocks \cup Keys \cup {WriteLoc}
FileNums == 0..MaxFile
Offsets == 0..(MaxBlockFileSize - 1)
Positions == FileNums \X (0..MaxBlockFileSize)

NoKeys == [k \in DbKeys |-> None]
NoTx == [step |-> "none", closing |-> FALSE, blocks |-> <<>>, keys |-> NoKeys,
         remove |-> {}, from |-> <<0, 0>>]
NoFile == [size |-> -1, data |-> [i \in Offsets |-> None]]
Exists(file) == file.size >= 0

(***************************************************************************)
(* initDB: an empty database with the cursor at the start of file 0.       *)
(***************************************************************************)
Init ==
    /\ files = [f \in FileNums |-> NoFile] /\ synced = files
    /\ ldb = [NoKeys EXCEPT ![WriteLoc] = <<0, 0>>]
    /\ cachedKeys = NoKeys /\ cachedRemove = {}
    /\ cursor = [file |-> 0, off |-> 0, open |-> FALSE]
    /\ tx = NoTx /\ status = "up"
    /\ faults = 0

Works == UNCHANGED faults
Fails == faults < MaxFaults /\ faults' = faults + 1

-----------------------------------------------------------------------------
(***************************************************************************)
(* dbCacheSnapshot.Get and fetchKey: what is removed or put above hides    *)
(* what is below.  commitTreaps writes the same to leveldb.                *)
(***************************************************************************)
Overlay(below, put, remove) ==
    [k \in DbKeys |-> IF k \in remove THEN None
                      ELSE IF put[k] # None THEN put[k] ELSE below[k]]

View == Overlay(ldb, cachedKeys, cachedRemove)

(***************************************************************************)
(* Flat files: n units of the record of b are written at an offset, and a  *)
(* file is truncated.                                                      *)
(***************************************************************************)
WriteAt(f, off, b, n) ==
    [size |-> IF off + n > f.size THEN off + n ELSE f.size,
     data |-> [i \in Offsets |-> IF i \in off..(off + n - 1) THEN <<b, i - off>>
                                 ELSE f.data[i]]]

Truncate(f, size) ==
    [size |-> size, data |-> [i \in Offsets |-> IF i < size THEN f.data[i] ELSE None]]

(***************************************************************************)
(* readBlock finds the record of b: a location is a file and an offset.    *)
(***************************************************************************)
Readable(fs, b, loc) ==
    /\ loc[2] + Size[b] <= fs[loc[1]].size
    /\ \A i \in 0..(Size[b] - 1) : fs[loc[1]].data[loc[2] + i] = <<b, i>>

-----------------------------------------------------------------------------
(***************************************************************************)
(* Update: the function of the caller puts and deletes keys and stores     *)
(* blocks that do not exist, and returns an error or not.                  *)
(***************************************************************************)
Begin ==
    /\ status = "up" /\ tx.step = "none"
    /\ tx' = [NoTx EXCEPT !.step = "open"]
    /\ UNCHANGED <<diskVars, ldb, cacheVars, cursor, status, faults>>

putKey(t, k, v) == [t EXCEPT !.keys[k] = v, !.remove = @ \ {k}]
deleteKey(t, k) == [t EXCEPT !.keys[k] = None, !.remove = @ \cup {k}]

Put(k, v) ==
    /\ tx.step = "open"
    /\ tx' = putKey(tx, k, v)
    /\ UNCHANGED <<diskVars, ldb, cacheVars, cursor, status, faults>>

Delete(k) ==
    /\ tx.step = "open"
    /\ tx' = deleteKey(tx, k)
    /\ UNCHANGED <<diskVars, ldb, cacheVars, cursor, status, faults>>

StoreBlock(b) ==
    /\ tx.step = "open"
    /\ View[b] = None /\ \A i \in DOMAIN tx.blocks : tx.blocks[i] # b
    /\ Len(tx.blocks) < MaxPending
    /\ tx' = [tx EXCEPT !.blocks = Append(@, b)]
    /\ UNCHANGED <<diskVars, ldb, cacheVars, cursor, status, faults>>

Rollback ==
    /\ tx.step = "open"
    /\ tx' = NoTx
    /\ UNCHANGED <<diskVars, ldb, cacheVars, cursor, status, faults>>

(***************************************************************************)
(* Commit begins: writePendingAndCommit saves the write position.          *)
(***************************************************************************)
Commit ==
    /\ tx.step = "open"
    /\ tx' = [tx EXCEPT !.step = "write", !.from = <<cursor.file, cursor.off>>]
    /\ UNCHANGED <<diskVars, ldb, cacheVars, cursor, status, faults>>

(***************************************************************************)
(* writeBlock for the next pending block: the cursor moves to the next     *)
(* file when the record does not fit, the file is opened if needed, and    *)
(* the record is written, or just a part of it.                            *)
(***************************************************************************)
ExceedsByOne(off) == off > MaxBlockFileSize + 1
Exceeds(off) == off > MaxBlockFileSize

Positioned(b) ==
    IF Exceeds(cursor.off + Size[b])
    THEN [file |-> cursor.file + 1, off |-> 0, open |-> FALSE]
    ELSE cursor

Closed == IF CloseSyncs /\ cursor.open
          THEN [synced EXCEPT ![cursor.file] = files[cursor.file]] ELSE synced

WriteBlock ==
    LET b == Head(tx.blocks)
        at == Positioned(b)
        moved == at.file # cursor.file
    IN  /\ tx.step = "write" /\ tx.blocks # <<>>
        /\ at.file <= MaxFile
        /\ synced' = IF moved THEN Closed ELSE synced
        /\ \/ /\ files' = [files EXCEPT ![at.file] = WriteAt(@, at.off, b, Size[b])]
              /\ cursor' = [at EXCEPT !.off = @ + Size[b], !.open = TRUE]
              /\ tx' = [putKey(tx, b, <<at.file, at.off>>) EXCEPT !.blocks = Tail(@)]
              /\ Works
           \/ \* writeData fails after n units
              \E n \in 0..(Size[b] - 1) :
              /\ Fails
              /\ files' = [files EXCEPT ![at.file] = WriteAt(@, at.off, b, n)]
              /\ cursor' = [at EXCEPT !.off = @ + n, !.open = TRUE]
              /\ tx' = [tx EXCEPT !.step = "rollback"]
           \/ \* openWriteFile fails
              /\ Fails /\ ~at.open
              /\ cursor' = at
              /\ tx' = [tx EXCEPT !.step = "rollback"]
              /\ UNCHANGED files
        /\ UNCHANGED <<ldb, cacheVars, status>>

(***************************************************************************)
(* handleRollback to a position: newer files are deleted, from the last    *)
(* one down, and the file is opened, truncated and synced.  Whatever       *)
(* fails, as the deletion of a file that was not created, it goes no       *)
(* further and the cursor is repositioned.                                 *)
(***************************************************************************)
Reposition(pos, open) == [file |-> pos[1], off |-> pos[2], open |-> open]

DeletedDownTo(f, last) == [g \in FileNums |-> IF g \in f..last THEN NoFile ELSE files[g]]

CanDelete(f, last) == \A g \in f..last : Exists(files[g])

OpenedFile(file) == IF Exists(file) THEN file ELSE [NoFile EXCEPT !.size = 0]

handleRollback(cur, pos) ==
    LET f == pos[1]
        deleted == DeletedDownTo(f + 1, cur.file)
        opened == [deleted EXCEPT ![f] = OpenedFile(@)]
        truncated == [opened EXCEPT ![f] = Truncate(@, pos[2])]
        wasOpen == cur.file = f /\ cur.open
    IN  \/ /\ cur.file = f /\ cur.off = pos[2]
           /\ cursor' = cur
           /\ UNCHANGED diskVars /\ Works
        \/ /\ cur.file # f \/ cur.off # pos[2]
           /\ CanDelete(f + 1, cur.file)
           /\ \/ /\ files' = truncated /\ synced' = [synced EXCEPT ![f] = truncated[f]]
                 /\ cursor' = Reposition(pos, TRUE)
                 /\ Works
              \/ \* opening, truncating or syncing fails
                 /\ Fails
                 /\ \/ ~wasOpen /\ files' = deleted /\ cursor' = Reposition(pos, FALSE)
                    \/ files' \in {opened, truncated} /\ cursor' = Reposition(pos, TRUE)
                 /\ UNCHANGED synced
        \/ \* a deletion fails
           \E g \in (f + 1)..cur.file :
           /\ CanDelete(g + 1, cur.file)
           /\ IF Exists(files[g]) THEN Fails ELSE Works
           /\ files' = DeletedDownTo(g + 1, cur.file)
           /\ cursor' = Reposition(pos, FALSE)
           /\ UNCHANGED synced

RollbackFiles ==
    /\ tx.step = "rollback"
    /\ handleRollback(cursor, tx.from)
    /\ tx' = NoTx
    /\ UNCHANGED <<ldb, cacheVars, status>>

(***************************************************************************)
(* All blocks are written: the new cursor is put, and commitTx adds the    *)
(* changes to the cache, or flushes it first when it is too old or large.  *)
(* The faults: the cursor is not put, and a key that was removed and put   *)
(* again stays removed.                                                    *)
(***************************************************************************)
WithoutCursor(t) == t
WithCursor(t) == putKey(t, WriteLoc, <<cursor.file, cursor.off>>)

StillRemovedWith(t) == cachedRemove \cup t.remove
RemovedWith(t) == {k \in cachedRemove : t.keys[k] = None} \cup t.remove

CommitToCache ==
    /\ tx.step = "write" /\ tx.blocks = <<>>
    /\ LET t == WithCursor(tx) IN
       /\ cachedKeys' = Overlay(cachedKeys, t.keys, t.remove)
       /\ cachedRemove' = RemovedWith(t)
    /\ tx' = NoTx
    /\ UNCHANGED <<diskVars, ldb, cursor, status, faults>>

NeedsFlush ==
    /\ tx.step = "write" /\ tx.blocks = <<>>
    /\ tx' = [WithCursor(tx) EXCEPT !.step = "sync"]
    /\ UNCHANGED <<diskVars, ldb, cacheVars, cursor, status, faults>>

(***************************************************************************)
(* flush, for a commit or for Close: the current file is synced, then the  *)
(* cache is written to leveldb, and then it is cleared.  A commit goes on  *)
(* with its own changes.  After an error nothing is undone: the cursor     *)
(* stays behind the blocks that were written.                              *)
(***************************************************************************)
Down == /\ status' = "down"
        /\ cursor' = [file |-> 0, off |-> 0, open |-> FALSE]

FlushFails ==
    /\ Fails /\ tx' = NoTx
    /\ IF tx.closing THEN Down /\ cachedKeys' = NoKeys /\ cachedRemove' = {}
       ELSE UNCHANGED <<cacheVars, cursor, status>>
    /\ UNCHANGED <<diskVars, ldb>>

GoTo(name) == tx' = [tx EXCEPT !.step = name]

Synced == IF cursor.open THEN [synced EXCEPT ![cursor.file] = files[cursor.file]]
          ELSE synced

SyncBlocks ==
    /\ tx.step = "sync"
    /\ \/ /\ synced' = Synced
          /\ GoTo("flush") /\ Works
          /\ UNCHANGED <<files, ldb, cacheVars, cursor, status>>
       \/ cursor.open /\ FlushFails

FlushCache ==
    /\ tx.step = "flush"
    /\ \/ /\ ldb' = View
          /\ GoTo("clear") /\ Works
          /\ UNCHANGED <<diskVars, cacheVars, cursor, status>>
       \/ (cachedKeys # NoKeys \/ cachedRemove # {}) /\ FlushFails

ClearCache ==
    /\ tx.step = "clear"
    /\ cachedKeys' = NoKeys /\ cachedRemove' = {}
    /\ IF tx.closing THEN Down /\ tx' = NoTx
       ELSE GoTo("direct") /\ UNCHANGED <<cursor, status>>
    /\ UNCHANGED <<diskVars, ldb, faults>>

CommitDirect ==
    /\ tx.step = "direct"
    /\ \/ ldb' = Overlay(ldb, tx.keys, tx.remove) /\ Works
       \/ UNCHANGED ldb /\ Fails
    /\ tx' = NoTx
    /\ UNCHANGED <<diskVars, cacheVars, cursor, status>>

(***************************************************************************)
(* Close waits for all transactions and flushes the cache.                 *)
(***************************************************************************)
Close ==
    /\ status = "up" /\ tx.step = "none"
    /\ tx' = [NoTx EXCEPT !.step = "sync", !.closing = TRUE]
    /\ UNCHANGED <<diskVars, ldb, cacheVars, cursor, status, faults>>

-----------------------------------------------------------------------------
(***************************************************************************)
(* The program is killed.  If the machine goes down, the part of a file    *)
(* that was not synced is there or not, unit by unit.                      *)
(***************************************************************************)
Between(a, x, b) == (a <= x /\ x <= b) \/ (b <= x /\ x <= a)

AfterPowerLoss(old, new) ==
    IF old = new THEN {new}
    ELSE {f \in [size : {old.size, new.size} \cup Offsets,
                 data : [Offsets -> UNION {{old.data[i], new.data[i]} : i \in Offsets}]] :
             /\ Between(old.size, f.size, new.size)
             /\ \A i \in Offsets : f.data[i] \in IF i < f.size THEN {old.data[i], new.data[i]}
                                               ELSE {None}}

Crash ==
    /\ status = "up" /\ Fails
    /\ Down /\ tx' = NoTx
    /\ cachedKeys' = NoKeys /\ cachedRemove' = {}
    /\ \/ UNCHANGED diskVars
       \/ /\ PowerLoss
          /\ \E fs \in [FileNums -> UNION {AfterPowerLoss(synced[f], files[f]) : f \in FileNums}] :
                /\ \A f \in FileNums : fs[f] \in AfterPowerLoss(synced[f], files[f])
                /\ files' = fs /\ synced' = fs
    /\ UNCHANGED ldb

(***************************************************************************)
(* openDB: scanBlockFiles finds the end of the last file, and reconcileDB  *)
(* compares it with the cursor in the metadata.  The fault looks at the    *)
(* file numbers only.                                                      *)
(***************************************************************************)
NextFile ==
    LET missing == {n \in 0..(MaxFile + 1) : n = MaxFile + 1 \/ ~Exists(files[n])}
    IN  CHOOSE n \in missing : \A m \in missing : n <= m

scanBlockFiles ==
    IF NextFile = 0 THEN [file |-> 0, off |-> 0, open |-> FALSE]
    ELSE [file |-> NextFile - 1, off |-> files[NextFile - 1].size, open |-> FALSE]

AfterFile(c, pos) == c.file > pos[1]
After(c, pos) == c.file > pos[1] \/ (c.file = pos[1] /\ c.off > pos[2])

Before(c, pos) == c.file < pos[1] \/ (c.file = pos[1] /\ c.off < pos[2])

Open ==
    LET wc == scanBlockFiles
        meta == ldb[WriteLoc]
    IN  /\ status = "down"
        /\ \/ /\ After(wc, meta)
              /\ handleRollback(wc, meta)
              /\ status' = "up"
           \/ /\ ~After(wc, meta)
              /\ cursor' = wc
              /\ status' = IF Before(wc, meta) THEN "corrupt" ELSE "up"
              /\ UNCHANGED diskVars /\ Works
        /\ UNCHANGED <<ldb, cacheVars, tx>>

Next ==
    \/ Begin \/ Rollback \/ Commit \/ WriteBlock \/ RollbackFiles
    \/ \E k \in Keys : Delete(k) \/ \E v \in Values : Put(k, v)
    \/ \E b \in Blocks : StoreBlock(b)
    \/ CommitToCache \/ NeedsFlush \/ SyncBlocks \/ FlushCache \/ ClearCache \/ CommitDirect
    \/ Close \/ Crash \/ Open

Spec == Init /\ [][Next]_vars

-----------------------------------------------------------------------------
(***************************************************************************)
(* Type correctness.                                                       *)
(***************************************************************************)
Files == [size : -1..MaxBlockFileSize, data : [Offsets -> (Blocks \X Nat) \cup {None}]]

Rows == {r \in [DbKeys -> Positions \cup Values \cup {None}] :
            /\ \A b \in Blocks \cup {WriteLoc} : r[b] \in Positions \cup {None}
            /\ \A k \in Keys : r[k] \in Values \cup {None}}

Steps == {"none", "open", "write", "rollback", "sync", "flush", "clear", "direct"}

TypeOK ==
    /\ files \in [FileNums -> Files] /\ synced \in [FileNums -> Files]
    /\ ldb \in Rows /\ ldb[WriteLoc] \in Positions
    /\ cachedKeys \in Rows /\ cachedRemove \subseteq Keys
    /\ cursor \in [file : FileNums, off : 0..MaxBlockFileSize, open : BOOLEAN]
    /\ tx \in [step : Steps, closing : BOOLEAN, blocks : Seq(Blocks), keys : Rows,
               remove : SUBSET Keys, from : Positions]
    /\ status \in {"up", "down", "corrupt"} /\ faults \in 0..MaxFaults

(***************************************************************************)
(* Whatever fails, crashes or is rolled back, every block the database     *)
(* says it has can be read back, now and after a crash: no record is cut   *)
(* off, overwritten or deleted by the blocks written later.                *)
(***************************************************************************)
RowsReadable ==
    \A b \in Blocks :
        /\ View[b] # None => Readable(files, b, View[b])
        /\ ldb[b] # None => Readable(files, b, ldb[b])

(***************************************************************************)
(* The database can always be opened: after any crash the files reach at   *)
(* least to the cursor in the metadata.                                    *)
(***************************************************************************)
AlwaysOpens == status # "corrupt"

(***************************************************************************)
(* The contents of the database: of a block that is there what readBlock   *)
(* returns, which is Unreadable when it finds another record.              *)
(***************************************************************************)
Unreadable == <<"unreadable">>

Contents(rows) ==
    [k \in Blocks \cup Keys |->
        IF rows[k] = None \/ k \in Keys THEN rows[k]
        ELSE IF Readable(files, k, rows[k]) THEN k ELSE Unreadable]

PendingPut(k) ==
    IF k \in Keys THEN tx.keys[k]
    ELSE IF tx.keys[k] # None \/ \E i \in DOMAIN tx.blocks : tx.blocks[i] = k THEN k
    ELSE None

Pending == [put |-> [k \in Blocks \cup Keys |-> PendingPut(k)], remove |-> tx.remove]

Store == INSTANCE DurableStore WITH
    Keys <- Blocks \cup Keys,
    Values <- Blocks \cup Values,
    current <- Contents(View),
    durable <- Contents(ldb),
    pending <- Pending

(***************************************************************************)
(* The database keeps the promises of DurableStore: transactions, blocks   *)
(* and metadata together, take effect as a whole or not at all, whichever  *)
(* write fails and wherever the program or the machine stops, and a crash  *)
(* goes back to what was flushed last.                                     *)
(***************************************************************************)
Durable == Store!Spec
=============================================================================
