--------------------------- MODULE SaidFile_proofs ---------------------------
(***************************************************************************)
(* What a .said file promises for any number of documents, frames, blocks  *)
(* and faults.                                                             *)
(*                                                                         *)
(* T brings what is proved of the frame table, and of its versions, into   *)
(* the process that keeps the table in a file: while it runs the table is  *)
(* one that FrameStore could have made (T!Inv), although a compaction may  *)
(* move fewer frames than FrameStore lets it, and open() makes a table out *)
(* of what it reads.                                                       *)
(***************************************************************************)
EXTENDS SaidFile, FiniteSetTheorems, TLAPS

T == INSTANCE FrameStore_proofs

LEMMA TableAssumptions ==
  T!NoneAssumption /\ T!BoundAssumption /\ T!RegimeAssumption
<1>1. T!NoneAssumption
  BY TableAssumption DEF T!NoneAssumption
<1>2. T!BoundAssumption
  BY TableAssumption, SizeAssumption DEF T!BoundAssumption
<1>3. T!RegimeAssumption
  BY TableAssumption DEF T!RegimeAssumption
<1> QED
  BY <1>1, <1>2, <1>3

-----------------------------------------------------------------------------
(***************************************************************************)
(* The table in the file, and the table of the process.                    *)
(***************************************************************************)
Fields == {"cells", "frame", "pay", "nextId", "blocks", "slot", "vts"}

\* A table that open() can go on with: well formed, and no document has two
\* Active frames between which the order of the frames would have to choose.
KeptTable(image) ==
  LET ids == 0 .. image.nextId - 1
  IN  /\ DOMAIN image = Fields
      /\ image.nextId \in Nat
      /\ image.frame \in [ids -> [doc : Docs, status : Table!Status,
                                  holds : SUBSET Cases, pos : ids]]
      /\ \A i, j \in ids : /\ image.frame[i].status = "Active"
                          /\ image.frame[j].status = "Active"
                          /\ image.frame[i].doc = image.frame[j].doc
                          => i = j

SameTable(image, other) == /\ DOMAIN image = Fields
                           /\ image.frame = other.frame
                           /\ image.nextId = other.nextId

\* The table is sound, so is the one on disk, and what is about to be renamed
\* holds one of the two.
Kept == /\ T!Inv
        /\ KeptTable(disk)
        /\ pc = "written" => SameTable(tmp, [frame |-> frame, nextId |-> nextId])
        /\ pc = "brain" => SameTable(tmp, disk)

-----------------------------------------------------------------------------
(***************************************************************************)
(* The operations on the table are those of FrameStore.                    *)
(***************************************************************************)
LEMMA SameCardinality ==
  ASSUME NEW S
  PROVE  Table!Cardinality(S) = Cardinality(S) /\ T!Cardinality(S) = Cardinality(S)
  BY DEF Table!Cardinality, T!Cardinality, Cardinality

LEMMA TableOperators ==
  /\ Table!Ids = T!Ids
  /\ Table!Undeleted = T!Undeleted
  /\ \A d \in Docs : Table!Tombstones(d) = T!Tombstones(d)
  /\ \A i \in T!Ids : Table!Committed(i) <=> T!Committed(i)
  /\ \A moved \in SUBSET T!Ids, done \in BOOLEAN :
       Table!CompactTable(moved, done) => T!CompactTable(moved, done)
<1>1. Table!Ids = T!Ids
  BY DEF Table!Ids, T!Ids
<1>2. Table!Undeleted = T!Undeleted
  BY <1>1 DEF Table!Undeleted, T!Undeleted
<1>3. \A d \in Docs : Table!Tombstones(d) = T!Tombstones(d)
  BY <1>1 DEF Table!Tombstones, T!Tombstones, Table!Of, T!Of
<1>4. \A i \in T!Ids : Table!Committed(i) <=> T!Committed(i)
  BY DEF Table!Committed, T!Committed
<1>5. ASSUME NEW moved \in SUBSET T!Ids, NEW done \in BOOLEAN,
             Table!CompactTable(moved, done)
      PROVE  T!CompactTable(moved, done)
  <2>1. Table!Reordered(moved) = T!Reordered(moved)
    BY SameCardinality, Zenon DEF Table!Reordered, T!Reordered, Table!Ids, T!Ids
  <2>2. Table!Rebuilt(frame') = T!Rebuilt(frame')
    BY DEF Table!Rebuilt, T!Rebuilt, Table!Ids, T!Ids
  <2>3. {i \in Table!Ids \ moved : Table!Committed(i)}
          = {i \in T!Ids \ moved : T!Committed(i)}
    BY <1>1, <1>4
  <2> QED
    BY <1>5, <2>1, <2>2, <2>3, SameCardinality DEF Table!CompactTable, T!CompactTable
<1> QED
  BY <1>1, <1>2, <1>3, <1>4, <1>5

LEMMA RetagSteps == Retag => T!Next
<1>1. ASSUME NEW d \in Docs, Table!Delete(d)
      PROVE  T!Next
  BY <1>1 DEF Table!Delete, T!Delete, T!Next
<1>2. ASSUME NEW d \in Docs, Table!Tombstone(d)
      PROVE  T!Next
  BY <1>2 DEF Table!Tombstone, T!Tombstone, T!Next
<1>3. ASSUME NEW d \in Docs, Table!Restore(d)
      PROVE  T!Next
  <2>1. Table!Settled <=> T!Settled
    BY TableOperators
       DEF Table!Settled, T!Settled, Table!Committed, T!Committed
  <2>2. Table!Newest(Table!Tombstones(d)) = T!Newest(T!Tombstones(d))
    BY TableOperators DEF Table!Newest, T!Newest
  <2>3. T!Restore(d)
    BY <1>3, <2>1, <2>2, TableOperators
       DEF Table!Restore, T!Restore, Table!AdminReady, T!AdminReady,
           Table!Committed, T!Committed, Table!Superseded, T!Superseded
  <2> QED
    BY <2>3 DEF T!Next
<1>4. ASSUME NEW d \in Docs, NEW c \in Cases, Table!AddHold(d, c)
      PROVE  T!Next
  BY <1>4, TableOperators DEF Table!AddHold, T!AddHold, Table!Of, T!Of, T!Next
<1>5. ASSUME NEW d \in Docs, NEW c \in Cases, Table!ReleaseHold(d, c)
      PROVE  T!Next
  BY <1>5, TableOperators DEF Table!ReleaseHold, T!ReleaseHold, Table!Of, T!Of, T!Next
<1>6. ASSUME NEW S, Table!Reclaim(S)
      PROVE  T!Reclaim(S)
  BY <1>6, TableOperators
     DEF Table!Reclaim, T!Reclaim, Table!Held, T!Held, Table!AdminReady,
         T!AdminReady, Table!Settled, T!Settled, Table!Committed, T!Committed
<1>7. CASE Table!DropTombstones
  <2>1. UNION {Table!Tombstones(d) : d \in Docs} = UNION {T!Tombstones(d) : d \in Docs}
    BY TableOperators
  <2>2. T!DropTombstones
    BY <1>6, <1>7, <2>1 DEF Table!DropTombstones, T!DropTombstones
  <2> QED
    BY <2>2 DEF T!Next
<1>8. ASSUME NEW n \in KeepCounts, Table!DropTombstonesKeep(n)
      PROVE  T!Next
  <2>1. \A d \in Docs : Table!Older(d, n) = T!Older(d, n)
    BY SameCardinality, Zenon DEF Table!Older, T!Older, Table!Tombstones, T!Tombstones,
                 Table!Of, T!Of, Table!Ids, T!Ids
  <2>2. UNION {Table!Older(d, n) : d \in Docs} = UNION {T!Older(d, n) : d \in Docs}
    BY <2>1
  <2>3. T!DropTombstonesKeep(n)
    BY <1>6, <1>8, <2>2 DEF Table!DropTombstonesKeep, T!DropTombstonesKeep
  <2> QED
    BY <2>3 DEF T!Next
<1>9. ASSUME NEW i \in Ids, Table!MarkFrameDeleted(i)
      PROVE  T!Next
  <2>1. i \in T!Ids /\ T!MarkFrameDeleted(i)
    BY <1>6, <1>9, TableOperators DEF Table!MarkFrameDeleted, T!MarkFrameDeleted, Ids
  <2> QED
    BY <2>1 DEF T!Next
<1> QED
  BY <1>1, <1>2, <1>3, <1>4, <1>5, <1>7, <1>8, <1>9 DEF Retag

LEMMA PutSteps ==
  ASSUME NEW d \in Docs, Table!Put(d)
  PROVE  T!Put(d) /\ T!Next
<1>1. T!Put(d)
  BY DEF Table!Put, T!Put, Table!NewFrame, T!NewFrame,
         Table!Superseded, T!Superseded, Table!Entry, T!Entry
<1> QED
  BY <1>1 DEF T!Next

LEMMA FlushSteps == Table!Flush => T!Flush /\ T!Next
<1>1. Table!Flush => T!Flush
  BY DEF Table!Flush, T!Flush, Table!Rebuilt, T!Rebuilt, Table!Ids, T!Ids
<1> QED
  BY <1>1 DEF T!Next

-----------------------------------------------------------------------------
(***************************************************************************)
(* The table stays sound, and so does the one on disk.                     *)
(***************************************************************************)
LEMMA EmptyTable == T!Init => T!Inv
  BY TableAssumptions, T!InitSound DEF T!Inv

\* What open() makes of a sound file.
TableRead == /\ nextId \in Nat
             /\ frame \in [T!Ids -> T!Frame]
             /\ flushed \in Nat /\ phase = "ready"
             /\ docMap = T!Rebuilt(frame)
             /\ T!OneHead

LEMMA ReadTable == TableRead => T!Inv
  BY TableAssumptions, T!ReadSound DEF TableRead

\* A sound table may be saved.
LEMMA SoundMayBeKept ==
  ASSUME T!Inv, NEW image, SameTable(image, [frame |-> frame, nextId |-> nextId])
  PROVE  KeptTable(image)
<1>1. /\ DOMAIN image = Fields /\ image.frame = frame /\ image.nextId = nextId
      /\ nextId \in Nat /\ frame \in [T!Ids -> T!Frame]
  BY DEF SameTable, T!Inv, T!TypeOK
<1>2. T!OneHead
  BY TableAssumptions, T!OneHeadSound
<1> QED
  BY <1>1, <1>2 DEF KeptTable, T!OneHead, T!Ids, T!Frame, T!Status, Table!Status

LEMMA PutKeepsTable ==
  ASSUME AdminOnSaved, T!Inv, T!Next
  PROVE  T!Inv'
  BY TableAssumptions, T!NextType, T!NextInv DEF T!Inv

LEMMA CompactKeepsTable ==
  ASSUME T!Inv, NEW moved \in SUBSET T!Ids, NEW done \in BOOLEAN,
         Table!CompactTable(moved, done)
  PROVE  T!Inv'
  BY TableAssumptions, TableOperators, T!CompactTableInv

LEMMA MovedIds == Moved \in SUBSET T!Ids
  BY TableOperators DEF Moved, Live, Table!Undeleted, T!Undeleted

LEMMA TableSame ==
  ASSUME T!Inv, UNCHANGED table
  PROVE  T!Inv'
<1>1. T!Ids' = T!Ids /\ T!Frame' = T!Frame
  BY DEF table, T!Ids, T!Frame
<1> QED
  BY <1>1 DEF table, T!Inv, T!TypeOK, T!HeadMapped, T!MapSound

LEMMA CrashKeeps ==
  ASSUME Kept, Crash
  PROVE  Kept'
<1>1. T!Init' => T!Inv'
  BY EmptyTable, PTL
<1>2. T!Init'
  BY DEF Crash, T!Init
<1> QED
  BY <1>1, <1>2 DEF Crash, Kept, KeptTable

LEMMA OpenKeeps ==
  ASSUME Kept, Open
  PROVE  Kept'
<1>1. KeptTable(disk) /\ disk' = disk /\ pc' = "idle"
  BY DEF Kept, Open
<1>2. TableRead'
  <2>1. /\ nextId' = disk.nextId /\ nextId' \in Nat
        /\ frame' = disk.frame
        /\ flushed' = nextId' /\ phase' = "ready"
    BY <1>1 DEF Open, LastGood, KeptTable
  <2>2. T!Ids' = 0 .. disk.nextId - 1
    BY <2>1 DEF T!Ids
  <2>3. frame' \in [T!Ids' -> T!Frame']
    BY <1>1, <2>1, <2>2 DEF KeptTable, T!Frame, T!Status, Table!Status
  <2>4. docMap' = T!Rebuilt(frame)'
    <3>1. DOMAIN frame' = T!Ids'
      BY <2>3
    <3>2. docMap' = [d \in Docs |->
            LET active == {i \in T!Ids' : frame'[i].doc = d /\ frame'[i].status = "Active"}
            IN  IF active = {} THEN None
                ELSE CHOOSE i \in active : \A j \in active :
                       frame'[j].pos <= frame'[i].pos]
      BY <2>1, <3>1 DEF Open, LastGood
    <3> QED
      BY <3>2 DEF T!Rebuilt
  <2>5. T!OneHead'
    BY <1>1, <2>1, <2>2 DEF KeptTable, T!OneHead
  <2> QED
    BY <2>1, <2>3, <2>4, <2>5 DEF TableRead
<1>3. TableRead' => T!Inv'
  BY ReadTable, PTL
<1> QED
  BY <1>1, <1>2, <1>3 DEF Kept, KeptTable

LEMMA InitKeeps == Init => Kept
<1> SUFFICES ASSUME Init PROVE Kept
  OBVIOUS
<1>1. T!Init
  BY DEF Init, Table!Init, T!Init
<1>2. KeptTable(disk)
  BY DEF Init, EmptyImage, KeptTable, Fields
<1>3. pc = "idle"
  BY DEF Init
<1> QED
  BY <1>1, <1>2, <1>3, EmptyTable DEF Kept

LEMMA NextKeeps ==
  ASSUME AdminOnSaved, Kept, [Next]_vars
  PROVE  Kept'
<1>1. T!Inv /\ KeptTable(disk)
  BY DEF Kept
<1>2. ASSUME T!Inv', disk' = disk, pc' \notin {"written", "brain"}
      PROVE  Kept'
  BY <1>1, <1>2 DEF Kept, KeptTable
<1>3. ASSUME NEW d \in Docs, Remember(d)
      PROVE  Kept'
  BY <1>1, <1>2, <1>3, PutSteps, PutKeepsTable DEF Remember, files
<1>4. ASSUME NEW d \in Docs, Recall(d)
      PROVE  Kept'
  BY <1>1, <1>2, <1>4, TableSame DEF Recall, files
<1>5. CASE Spills
  <2>1. T!Inv'
    BY <1>1, <1>5, FlushSteps, PutKeepsTable, TableSame
       DEF Spills, Spill, SpillFails, Commits
  <2> QED
    BY <1>2, <1>5, <2>1 DEF Spills, Spill, SpillFails
<1>6. CASE Retag
  BY <1>1, <1>2, <1>6, RetagSteps, PutKeepsTable DEF Retag, files
<1>7. CASE VaultPut
  BY <1>1, <1>2, <1>7, TableSame DEF VaultPut, files
<1>8. CASE Compact
  <2>1. \E done \in BOOLEAN : Table!CompactTable(Moved, done)
    BY <1>8 DEF Compact, CompactSkips, TrainingFails, CompactPacks
  <2>2. T!Inv'
    BY <1>1, <2>1, MovedIds, CompactKeepsTable
  <2> QED
    BY <1>2, <1>8, <2>2 DEF Compact, CompactSkips, TrainingFails, CompactPacks, files
<1>9. CASE SaveLaysOut
  BY <1>1, <1>2, <1>9, FlushSteps, PutKeepsTable DEF SaveLaysOut, files
<1>10. CASE SaveWritesTmp
  <2>1. T!Inv' /\ disk' = disk /\ pc' = "written"
    BY <1>1, <1>10, TableSame DEF SaveWritesTmp
  <2>2. SameTable(tmp', [frame |-> frame', nextId |-> nextId'])
    BY <1>10 DEF SaveWritesTmp, Image, SameTable, table, Fields
  <2> QED
    BY <1>1, <2>1, <2>2 DEF Kept, KeptTable
<1>11. CASE SaveRenames
  <2>1. T!Inv' /\ disk' = tmp /\ pc' = "idle" /\ KeptTable(tmp)
    BY <1>1, <1>11, TableSame, SoundMayBeKept DEF SaveRenames, Kept
  <2> QED
    BY <2>1 DEF Kept, KeptTable
<1>12. CASE SaveFails
  <2>1. T!Inv' /\ disk' = disk /\ pc' = "idle"
    BY <1>1, <1>12, TableSame
       DEF SaveFails, SaveWriteFails, SaveRenameFails, BrainSaveFails, files
  <2> QED
    BY <1>2, <2>1
<1>13. CASE BrainSave
  <2>1. T!Inv'
    BY <1>1, <1>13, TableSame DEF BrainSave, BrainSaveWritesTmp, BrainSaveRenames
  <2>2. CASE BrainSaveWritesTmp
    <3>1. SameTable(tmp', disk) /\ disk' = disk /\ pc' = "brain"
      BY <1>1, <2>2 DEF BrainSaveWritesTmp, SameTable, KeptTable, Fields
    <3> QED
      BY <1>1, <2>1, <3>1 DEF Kept, KeptTable, SameTable
  <2>3. CASE BrainSaveRenames
    <3>1. disk' = tmp /\ SameTable(tmp, disk) /\ pc' = "idle"
      BY <2>3 DEF BrainSaveRenames, Kept
    <3>2. KeptTable(tmp)
      BY <1>1, <3>1 DEF KeptTable, SameTable
    <3> QED
      BY <2>1, <3>1, <3>2 DEF Kept, KeptTable
  <2> QED
    BY <1>13, <2>2, <2>3 DEF BrainSave
<1>14. CASE UNCHANGED vars
  <2>1. T!Inv'
    BY <1>1, <1>14, TableSame DEF vars
  <2> QED
    BY <1>14, <2>1 DEF vars, files, table, Kept, KeptTable, SameTable
<1> QED
  BY <1>3, <1>4, <1>5, <1>6, <1>7, <1>8, <1>9, <1>10, <1>11, <1>12, <1>13, <1>14,
     CrashKeeps, OpenKeeps DEF Next, Save

\* While the process runs, dies and comes back its table is sound.
THEOREM FileKeepsTable == ASSUME AdminOnSaved PROVE Spec => []Kept
<1>1. Init => Kept
  BY InitKeeps
<1>2. Kept /\ [Next]_vars => Kept'
  BY AdminOnSaved, NextKeeps
<1> QED
  BY <1>1, <1>2, PTL DEF Spec

-----------------------------------------------------------------------------
(***************************************************************************)
(* The file implements DurableVersions.  While the process runs, what it   *)
(* shows of a version is what the table shows of it (Alike), and T has     *)
(* already mapped every step of the table.                                 *)
(***************************************************************************)
Alike == /\ \A d \in Docs : HeadIn(LiveTable, d) = T!Head(d)
         /\ \A d \in Docs : PastIn(LiveTable, d) = T!Tombstones(d)
         /\ HeldIn(LiveTable) = {p \in T!Undeleted \X Cases : p[2] \in frame[p[1]].holds}
         /\ Cardinality(DOMAIN LiveTable) = nextId

LEMMA TableShown == T!Inv /\ pc # "down" => Alike
<1> SUFFICES ASSUME T!Inv, pc # "down" PROVE Alike
  OBVIOUS
<1>1. LiveTable = frame
  BY DEF LiveTable
<1>2. DOMAIN frame = T!Ids /\ nextId \in Nat
  BY DEF T!Inv, T!TypeOK
<1>3. T!HeadSound
  BY TableAssumptions, T!HeadIsActive
<1>4. ASSUME NEW d \in Docs
      PROVE  HeadIn(frame, d) = T!Head(d)
  <2> DEFINE active == {i \in T!Ids : frame[i].doc = d /\ frame[i].status = "Active"}
  <2>1. /\ T!Head(d) \in T!Ids \cup {None}
        /\ \A i \in T!Ids : T!Head(d) = i <=> i \in active
    BY <1>3 DEF T!HeadSound
  <2>2. HeadIn(frame, d) = IF active = {} THEN None ELSE CHOOSE i \in active : TRUE
    BY <1>2 DEF HeadIn
  <2>3. CASE active = {}
    BY <2>1, <2>2, <2>3
  <2>4. CASE active # {}
    <3>1. PICK i \in active : HeadIn(frame, d) = i
      BY <2>2, <2>4
    <3> QED
      BY <2>1, <3>1
  <2> QED
    BY <2>3, <2>4
<1>5. \A d \in Docs : PastIn(frame, d) = T!Tombstones(d)
  BY <1>2 DEF PastIn, T!Tombstones, T!Of
<1>6. HeldIn(frame) = {p \in T!Undeleted \X Cases : p[2] \in frame[p[1]].holds}
  BY <1>2 DEF HeldIn, T!Undeleted
<1>7. Cardinality(T!Ids) = nextId
  BY <1>2, FS_Interval DEF T!Ids
<1> QED
  BY <1>1, <1>2, <1>4, <1>5, <1>6, <1>7 DEF Alike

\* A step of the table is a change of the live versions.
LEMMA LiveSteps ==
  ASSUME Alike, Alike', disk' = disk, [T!Versions!Next]_(T!Versions!vars)
  PROVE  [Durable!DurableNext]_(Durable!durableVars)
<1>1. UNCHANGED Durable!saved
  BY DEF Durable!saved
<1>2. /\ [d \in Docs |-> HeadIn(LiveTable, d)] = [d \in Docs |-> T!Head(d)]
      /\ [d \in Docs |-> PastIn(LiveTable, d)] = [d \in Docs |-> T!Tombstones(d)]
  BY DEF Alike
<1>3. /\ [d \in Docs |-> HeadIn(LiveTable, d)]' = [d \in Docs |-> T!Head(d)]'
      /\ [d \in Docs |-> PastIn(LiveTable, d)]' = [d \in Docs |-> T!Tombstones(d)]'
  BY DEF Alike
<1>4. ASSUME T!Versions!Next PROVE Durable!Next
  <2>1. \A d \in Docs : Durable!Lineage(d) = T!Versions!Lineage(d)
    BY <1>2 DEF Durable!Lineage, T!Versions!Lineage,
                Durable!Current, T!Versions!Current
  <2>2. ASSUME NEW d \in Docs, T!Versions!Write(d)
        PROVE  Durable!Write(d)
    BY <1>2, <1>3, <2>1, <2>2 DEF Alike, T!Versions!Write, Durable!Write
  <2>3. ASSUME NEW d \in Docs, T!Versions!Forget(d)
        PROVE  Durable!Forget(d)
    BY <1>2, <1>3, <2>1, <2>3 DEF Alike, T!Versions!Forget, Durable!Forget
  <2>4. ASSUME NEW d \in Docs, T!Versions!Restore(d)
        PROVE  Durable!Restore(d)
    BY <1>2, <1>3, <2>1, <2>4 DEF Alike, T!Versions!Restore, Durable!Restore
  <2>5. ASSUME NEW d \in Docs, NEW c \in Cases, T!Versions!Hold(d, c)
        PROVE  Durable!Hold(d, c)
    BY <1>2, <1>3, <2>1, <2>5 DEF Alike, T!Versions!Hold, Durable!Hold
  <2>6. ASSUME NEW d \in Docs, NEW c \in Cases, T!Versions!Release(d, c)
        PROVE  Durable!Release(d, c)
    BY <1>2, <1>3, <2>1, <2>6 DEF Alike, T!Versions!Release, Durable!Release
  <2>7. CASE T!Versions!Purge
    <3>1. Durable!Purge
      BY <1>2, <1>3, <2>7 DEF Alike, T!Versions!Purge, Durable!Purge
    <3> QED
      BY <3>1 DEF Durable!Next
  <2> QED
    BY <1>4, <2>2, <2>3, <2>4, <2>5, <2>6, <2>7 DEF T!Versions!Next, Durable!Next
<1>5. UNCHANGED T!Versions!vars => UNCHANGED Durable!vars
  BY <1>2, <1>3 DEF Alike, T!Versions!vars, Durable!vars
<1> QED
  BY <1>1, <1>4, <1>5 DEF Durable!DurableNext, Durable!Change, Durable!durableVars

\* A step that leaves every frame where it can be seen as it is.
LEMMA QuietSteps ==
  ASSUME LiveTable' = LiveTable,
         disk'.frame = disk.frame, disk'.nextId = disk.nextId
  PROVE  UNCHANGED Durable!durableVars
<1>1. UNCHANGED Durable!saved
  BY DEF Durable!saved
<1>2. UNCHANGED Durable!vars
  BY DEF Durable!vars
<1> QED
  BY <1>1, <1>2 DEF Durable!durableVars

\* The rename makes what is live what is saved.
LEMMA RenameSaves ==
  ASSUME Kept, SaveRenames
  PROVE  Durable!Save
<1>1. /\ LiveTable = frame /\ LiveTable' = LiveTable
      /\ disk'.frame = frame /\ disk'.nextId = nextId
  BY DEF SaveRenames, Kept, SameTable, LiveTable, table
<1>2. Cardinality(DOMAIN LiveTable) = nextId
  BY TableShown DEF Kept, SaveRenames, Alike
<1>3. UNCHANGED Durable!vars
  BY <1>1 DEF Durable!vars
<1>4. Durable!saved' = Durable!vars
  BY <1>1, <1>2 DEF Durable!saved, Durable!vars
<1> QED
  BY <1>3, <1>4 DEF Durable!Save

\* A crash makes what is saved live again.
LEMMA CrashReturns ==
  ASSUME Kept, Crash
  PROVE  Durable!Crash
<1>1. LiveTable' = disk.frame /\ disk' = disk
  BY DEF Crash, LiveTable
<1>2. Cardinality(DOMAIN disk.frame) = disk.nextId
  <2>1. DOMAIN disk.frame = 0 .. disk.nextId - 1 /\ disk.nextId \in Nat
    BY DEF Kept, KeptTable
  <2> QED
    BY <2>1, FS_Interval
<1>3. UNCHANGED Durable!saved
  BY <1>1 DEF Durable!saved
<1>4. Durable!vars' = Durable!saved
  BY <1>1, <1>2 DEF Durable!saved, Durable!vars
<1> QED
  BY <1>3, <1>4 DEF Durable!Crash

Maps == [Durable!DurableNext]_(Durable!durableVars)

LEMMA FileSteps ==
  ASSUME AdminOnSaved, Kept, Kept', [Next]_vars
  PROVE  Maps
<1>1. T!Inv /\ T!Inv' /\ KeptTable(disk)
  BY DEF Kept
<1>2. ASSUME pc # "down", pc' # "down", disk' = disk,
             [T!Versions!Next]_(T!Versions!vars)
      PROVE  Maps
  <2>1. T!Inv' /\ (pc # "down")' => Alike'
    BY TableShown, PTL
  <2>2. Alike /\ Alike'
    BY <1>1, <1>2, <2>1, TableShown
  <2> QED
    BY <1>2, <2>2, LiveSteps DEF Maps
<1>3. ASSUME pc # "down", pc' # "down", disk' = disk, T!Next
      PROVE  Maps
  <2>1. [T!Versions!Next]_(T!Versions!vars)
    BY AdminOnSaved, <1>1, <1>3, TableAssumptions, T!StepMaps
  <2> QED
    BY <1>2, <1>3, <2>1
<1>4. ASSUME frame' = frame, pc # "down", pc' # "down",
             disk'.frame = disk.frame, disk'.nextId = disk.nextId
      PROVE  Maps
  BY <1>4, QuietSteps DEF LiveTable, Maps
<1>5. ASSUME NEW d \in Docs, Remember(d)
      PROVE  Maps
  BY <1>3, <1>5, PutSteps DEF Remember, files
<1>6. ASSUME NEW d \in Docs, Recall(d)
      PROVE  Maps
  BY <1>4, <1>6 DEF Recall, table, files
<1>7. CASE Spills
  BY <1>3, <1>4, <1>7, FlushSteps DEF Spills, Spill, SpillFails, Commits, table
<1>8. CASE Retag
  BY <1>3, <1>8, RetagSteps DEF Retag, files
<1>9. CASE VaultPut
  BY <1>4, <1>9 DEF VaultPut, table, files
<1>10. CASE Compact
  <2>1. PICK done \in BOOLEAN : Table!CompactTable(Moved, done)
    BY <1>10 DEF Compact, CompactSkips, TrainingFails, CompactPacks
  <2>2. T!CompactTable(Moved, done)
    BY <2>1, MovedIds, TableOperators
  <2>3. /\ nextId' = nextId
        /\ \A i \in T!Ids : /\ frame'[i].doc = frame[i].doc
                            /\ frame'[i].status = frame[i].status
                            /\ frame'[i].holds = frame[i].holds
    BY <1>1, <2>2, MovedIds, TableAssumptions, T!CompactTableSound
       DEF T!Inv, T!CompactTable
  <2>4. UNCHANGED T!Versions!vars
    BY <1>1, <2>3, TableAssumptions, T!FramesAlike
  <2>5. pc # "down" /\ pc' # "down" /\ disk' = disk
    BY <1>10 DEF Compact, CompactSkips, TrainingFails, CompactPacks, files
  <2> QED
    BY <1>2, <2>4, <2>5
<1>11. CASE SaveLaysOut
  BY <1>3, <1>11, FlushSteps DEF SaveLaysOut, files
<1>12. CASE SaveWritesTmp
  BY <1>4, <1>12 DEF SaveWritesTmp, table
<1>13. CASE SaveRenames
  BY <1>13, RenameSaves DEF Maps, Durable!DurableNext
<1>14. CASE SaveFails
  BY <1>4, <1>14 DEF SaveFails, SaveWriteFails, SaveRenameFails, BrainSaveFails,
                     table, files
<1>15. CASE BrainSaveWritesTmp
  BY <1>4, <1>15 DEF BrainSaveWritesTmp, table
<1>16. CASE BrainSaveRenames
  BY <1>4, <1>16 DEF BrainSaveRenames, table, Kept, SameTable
<1>17. CASE Crash
  BY <1>17, CrashReturns DEF Maps, Durable!DurableNext
<1>18. CASE Open
  BY <1>18, QuietSteps DEF Maps, Open, CanOpen, LastGood, LiveTable
<1>19. CASE UNCHANGED vars
  BY <1>19, QuietSteps DEF Maps, vars, table, files, LiveTable
<1> QED
  BY <1>5, <1>6, <1>7, <1>8, <1>9, <1>10, <1>11, <1>12, <1>13, <1>14, <1>15, <1>16,
     <1>17, <1>18, <1>19 DEF Next, Save, BrainSave

LEMMA FileInit ==
  ASSUME Init
  PROVE  Durable!DurableInit
<1>1. /\ LiveTable = [i \in {} |-> None] /\ disk.frame = [i \in {} |-> None]
      /\ disk.nextId = 0
  BY DEF Init, Table!Init, EmptyImage, LiveTable
<1>2. /\ \A d \in Docs : HeadIn(LiveTable, d) = None /\ PastIn(LiveTable, d) = {}
      /\ HeldIn(LiveTable) = {} /\ DOMAIN LiveTable = {}
  BY <1>1 DEF HeadIn, PastIn, HeldIn
<1>3. Cardinality(DOMAIN LiveTable) = 0
  BY <1>2, FS_EmptySet
<1>4. Durable!Init
  BY <1>2, <1>3 DEF Durable!Init
<1>5. Durable!saved = Durable!vars
  BY <1>1, <1>3 DEF Durable!saved, Durable!vars
<1> QED
  BY <1>4, <1>5 DEF Durable!DurableInit

\* Whatever is written, compacted, spilled, saved, failed or crashed: the
\* rename is the only step that changes what is saved, it saves exactly the
\* live versions, and a crash anywhere brings back those of the last save
\* (said_file.rs save(), open()).
THEOREM VersionsAreDurable == ASSUME AdminOnSaved PROVE Spec => ImplementsDurable
<1>1. Init => Durable!DurableInit
  BY FileInit
<1>2. Kept /\ Kept' /\ [Next]_vars => [Durable!DurableNext]_(Durable!durableVars)
  BY AdminOnSaved, FileSteps DEF Maps
<1> QED
  BY <1>1, <1>2, FileKeepsTable, AdminOnSaved, PTL
     DEF Maps, Spec, Durable!DurableSpec, ImplementsDurable
=============================================================================
