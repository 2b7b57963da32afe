------------------------------ MODULE SaidFile ------------------------------
(***************************************************************************)
(* One process and its .said file: crates/sca-core/src/said_file.rs over   *)
(* frames.rs.  FrameStore is the table of frames; this module adds where   *)
(* the bytes of every frame are (in the pending buffer, in a compressed    *)
(* block, in the mapped file or .spill), how spilling, compact() and       *)
(* save() move them, and what a crash or a failing write leaves behind.    *)
(*                                                                         *)
(* The payload of a frame is named by the frame's id: every put() stores a *)
(* text of its own.  A file is a sequence of cells of one unit, so an      *)
(* offset is an index and 0, the header, is "not yet written".  A stale    *)
(* offset reads whatever cell is there now.  Junk stands for any bytes     *)
(* that are not the payload of one frame, Missing for a read that fails.   *)
(* The dictionary goes with the blocks that were made with it.             *)
(*                                                                         *)
(* The process runs one operation at a time (the MCP server holds the      *)
(* brain's mutex, a CLI command is one thread); save() is cut at the       *)
(* points where it can fail or the process can die.                        *)
(***************************************************************************)
EXTENDS Naturals, FiniteSets, Sequences

CONSTANTS
  Docs, Cases, None, MaxFrames, MinCompact, KeepCounts, AdminOnSaved,
  Junk, Missing, NoFile, Torn,
  BlockSize,   \* frames to a block (256 in the code)
  LongLived,   \* TRUE: a server that serves reads between compactions;
               \* FALSE: one command to a process, so none follows a read
  Vault,       \* TRUE: the said-vault crate keeps originals in this file
  Spilling,    \* TRUE: `said init`, which sets a budget for the pending buffer
  Swept,       \* TRUE: who restarts the process removes a .spill left behind
  Faults       \* the calls that may fail: "train", "write", "rename", "spill"

ASSUME SizeAssumption == BlockSize \in Nat \ {0} /\ MinCompact \in Nat \ {0}
ASSUME TableAssumption == /\ None \notin Nat /\ KeepCounts \subseteq Nat
                          /\ AdminOnSaved \in BOOLEAN /\ MaxFrames \in Nat
ASSUME FaultAssumption == Faults \subseteq {"train", "write", "rename", "spill"}

VARIABLES
  frame, docMap, nextId, flushed, phase,  \* the table: see FrameStore
  pay,       \* frame id -> encoding, offset, pending bytes
  blocks,    \* block -> its offset
  slot,      \* block_map: frame id -> <<block, place in it>>
  cache,     \* block_cache: block -> its decompressed payloads
  data,      \* the cells of the file as this process has it mapped
  end,       \* spill_offset: where the next spilled frame goes, 0 the header
  vts,       \* vault_tombstones has entries
  out,       \* the cells save() has laid out and not yet made durable
  pc,        \* where the process is
  disk,      \* the .said file
  tmp,       \* the .said.tmp file
  spill      \* the .said.spill file: cells that are in no .said yet

table == <<frame, docMap, nextId, flushed, phase>>
bytes == <<pay, blocks, slot, cache, data, end>>
files == <<disk, tmp, spill>>
vars == <<table, bytes, vts, out, pc, files>>

Table == INSTANCE FrameStore

Ids == Table!Ids
Pending == {i \in Ids : ~Table!Committed(i)}
Live == Table!Undeleted

-----------------------------------------------------------------------------
(***************************************************************************)
(* Cells and where they are read.                                          *)
(***************************************************************************)
Content == 0 .. MaxFrames - 1 \cup {Junk, Missing}
Cell == [packed : BOOLEAN, of : Seq(Content)]
Pay == [enc : {"plain", "block"}, off : Nat, buf : Cell]

\* Frames are numbered; neither mark is a frame's payload, and no file is not
\* a file of some cells.
ASSUME CellAssumption == /\ Junk \notin Nat /\ Missing \notin Nat
                         /\ NoFile \notin Seq(Cell)

Raw(c) == [packed |-> FALSE, of |-> <<c>>]
Packed(s) == [packed |-> TRUE, of |-> s]
Nothing == [packed |-> FALSE, of |-> <<>>]

\* The payload in a cell that is read as raw bytes.
Body(cell) == IF ~cell.packed /\ cell.of # <<>> THEN cell.of[1] ELSE Junk

PlainAt(cells, o) == IF o \in DOMAIN cells THEN Body(cells[o]) ELSE Junk

\* read_block_frame_raw(): decompress the block and take the frame's slice.
PackedAt(cells, offs, place) ==
  LET o == offs[place[1]]
  IN  IF o \in DOMAIN cells /\ cells[o].packed /\ place[2] \in DOMAIN cells[o].of
      THEN cells[o].of[place[2]] ELSE Missing

FromBlock(i) == IF i \in DOMAIN slot THEN PackedAt(data, blocks, slot[i]) ELSE Missing

\* read_block_frame(): the cache answers first.
FromBlockCached(i) ==
  IF /\ i \in DOMAIN slot
     /\ slot[i][1] \in DOMAIN cache
     /\ slot[i][2] \in DOMAIN cache[slot[i][1]]
  THEN cache[slot[i][1]][slot[i][2]]
  ELSE FromBlock(i)

\* read_frame_by_id(), and read_frame() up to its checksum.
Read(i) == IF pay[i].enc = "block" THEN FromBlockCached(i)
           ELSE IF i \in Pending THEN Body(pay[i].buf)
           ELSE PlainAt(data, pay[i].off)

\* The members of S in the order of a table f.
InOrder(S, f) ==
  [n \in 1 .. Cardinality(S) |->
     CHOOSE i \in S : Cardinality({j \in S : f[j].pos < f[i].pos}) = n - 1]

-----------------------------------------------------------------------------
EmptyImage == [cells |-> <<>>, frame |-> [i \in {} |-> None],
               pay |-> [i \in {} |-> None], nextId |-> 0,
               blocks |-> <<>>, slot |-> [i \in {} |-> None], vts |-> FALSE]

\* A created brain that has been saved once, as every command that creates
\* one leaves it.
Init == /\ Table!Init
        /\ pay = [i \in {} |-> None]
        /\ blocks = <<>>
        /\ slot = [i \in {} |-> None]
        /\ cache = [k \in {} |-> None]
        /\ data = <<>> /\ end = 0
        /\ vts = FALSE
        /\ out = <<>>
        /\ pc = "idle"
        /\ disk = EmptyImage
        /\ tmp = NoFile /\ spill = NoFile

\* remember(): a new frame whose text waits in the pending buffer.  Whether
\* the buffer is then over its budget is left open.
Remember(d) ==
  /\ pc = "idle"
  /\ Table!Put(d)
  /\ pay' = [i \in 0 .. nextId |->
               IF i = nextId THEN [enc |-> "plain", off |-> 0, buf |-> Raw(i)]
                             ELSE pay[i]]
  /\ pc' \in {"idle"} \cup (IF Spilling THEN {"spilling"} ELSE {})
  /\ UNCHANGED <<blocks, slot, cache, data, end, vts, out, files>>

\* spill_pending_to_disk(), the end of that remember(): a new .spill is seeded
\* with what is mapped, so that every offset stays what it is; the pending
\* bytes go behind it, their frames are committed, and the process maps the
\* .spill in place of the file.
Seeded == IF spill = NoFile THEN data ELSE spill
Base == IF spill = NoFile THEN Len(data) ELSE end
Drained == InOrder(Pending, frame)
\* What is under that name when the seeding does not come to its end.
HalfSeeded == IF spill = NoFile THEN {NoFile, <<>>, data} ELSE {spill}

Commits ==
  /\ Table!Flush
  /\ pay' = [i \in Ids |->
       IF i \notin Pending THEN pay[i]
       ELSE [pay[i] EXCEPT !.buf = Nothing,
                           !.off = Base + (CHOOSE n \in DOMAIN Drained : Drained[n] = i)]]

Spill ==
  /\ pc = "spilling"
  /\ Commits
  /\ spill' = Seeded \o [n \in DOMAIN Drained |-> pay[Drained[n]].buf]
  /\ data' = spill'
  /\ end' = Base + Len(Drained)
  /\ pc' = "idle"
  /\ UNCHANGED <<blocks, slot, cache, vts, out, disk, tmp>>

\* The error is logged.  Before the frames are committed nothing is lost;
\* after that the append fails and their bytes are gone.
SpillFails ==
  /\ "spill" \in Faults
  /\ pc = "spilling"
  /\ pc' = "idle"
  /\ \/ spill' \in HalfSeeded /\ UNCHANGED <<table, pay, end>>
     \/ /\ Commits
        /\ spill' = Seeded
        /\ end' = Base
  /\ UNCHANGED <<blocks, slot, cache, data, vts, out, disk, tmp>>

\* The operations on the table that touch no bytes: forget(),
\* tombstone_frame(), admin_restore(), legal holds, drop_history(),
\* mark_frame_deleted().
Retag ==
  /\ pc = "idle"
  /\ \/ \E d \in Docs : Table!Delete(d) \/ Table!Tombstone(d) \/ Table!Restore(d)
     \/ \E d \in Docs, c \in Cases : Table!AddHold(d, c) \/ Table!ReleaseHold(d, c)
     \/ Table!DropTombstones
     \/ \E n \in KeepCounts : Table!DropTombstonesKeep(n)
     \/ \E i \in Ids : Table!MarkFrameDeleted(i)
  /\ UNCHANGED <<bytes, vts, out, pc, files>>

\* The vault puts an original into the VAULT_TOMBSTONES section.
VaultPut == /\ Vault
            /\ pc = "idle"
            /\ phase = "ready"
            /\ ~vts
            /\ vts' = TRUE
            /\ UNCHANGED <<table, bytes, out, pc, files>>

\* A read that misses the cache leaves the whole block in it.
Recall(d) ==
  /\ LongLived
  /\ pc = "idle"
  /\ phase = "ready"
  /\ docMap[d] # None
  /\ LET i == docMap[d]
     IN  /\ pay[i].enc = "block"
         /\ i \in DOMAIN slot
         /\ slot[i][1] \notin DOMAIN cache
         /\ FromBlock(i) # Missing
         /\ cache' = [k \in DOMAIN cache \cup {slot[i][1]} |->
                        IF k = slot[i][1] THEN data[blocks[k]].of ELSE cache[k]]
  /\ UNCHANGED <<table, pay, blocks, slot, data, end, vts, out, pc, files>>

-----------------------------------------------------------------------------
(***************************************************************************)
(* compact(): committed payloads are read back into the pending buffer,    *)
(* then everything raw there is packed into blocks.                        *)
(***************************************************************************)
OldBytes(i) == IF pay[i].enc = "block" THEN FromBlock(i)
                                       ELSE PlainAt(data, pay[i].off)

\* Committed frames that can be read move to the pending buffer; Deleted
\* ones stay behind.
Moved == {i \in Live \ Pending : OldBytes(i) # Missing}

Unpacked(i) == IF i \in Moved
               THEN [enc |-> "plain", off |-> 0, buf |-> Raw(OldBytes(i))]
               ELSE pay[i]

\* Only raw pending frames are packed: one that an earlier compact() packed
\* and no save() wrote is passed over.
Eligible == Moved \cup {i \in Live \cap Pending : pay[i].enc = "plain"}

\* Too few frames: the payloads have moved, nothing else happens.
CompactSkips ==
  /\ pc = "idle"
  /\ Cardinality(Eligible) < MinCompact
  /\ Table!CompactTable(Moved, FALSE)
  /\ pay' = [i \in Ids |-> Unpacked(i)]
  /\ UNCHANGED <<blocks, slot, cache, data, end, vts, out, pc, files>>

\* Training the dictionary fails after the bytes were taken out of pending.
TrainingFails ==
  /\ "train" \in Faults
  /\ pc = "idle"
  /\ Cardinality(Eligible) >= MinCompact
  /\ Table!CompactTable(Moved, FALSE)
  /\ pay' = [i \in Ids |-> IF i \in Eligible
                           THEN [Unpacked(i) EXCEPT !.buf = Nothing]
                           ELSE pay[i]]
  /\ UNCHANGED <<blocks, slot, cache, data, end, vts, out, pc, files>>

Packing == InOrder(Eligible, Table!Reordered(Moved))

\* Mutant: the last, short chunk is forgotten.
WholeBlocks == Len(Packing) \div BlockSize
BlockCount == (Len(Packing) + BlockSize - 1) \div BlockSize

Place(n) == <<((n - 1) \div BlockSize) + 1, ((n - 1) % BlockSize) + 1>>
PlaceOf(i) == Place(CHOOSE n \in DOMAIN Packing : Packing[n] = i)

BlockOf(k) ==
  LET last == IF k * BlockSize < Len(Packing) THEN k * BlockSize ELSE Len(Packing)
      chunk == SubSeq(Packing, (k - 1) * BlockSize + 1, last)
  IN  Packed([n \in DOMAIN chunk |-> Body(Unpacked(chunk[n]).buf)])

\* The first frame of a block carries the block's bytes, the others none.
\* The cache of decompressed blocks is not cleared.
CompactPacks ==
  /\ pc = "idle"
  /\ Cardinality(Eligible) >= MinCompact
  /\ Table!CompactTable(Moved, TRUE)
  /\ blocks' = [k \in 1 .. BlockCount |-> 0]
  /\ slot' = [i \in Eligible |-> PlaceOf(i)]
  /\ pay' = [i \in Ids |->
       IF i \notin Eligible THEN pay[i]
       ELSE [enc |-> "block", off |-> 0,
             buf |-> IF PlaceOf(i)[2] = 1 THEN BlockOf(PlaceOf(i)[1]) ELSE Nothing]]
  /\ UNCHANGED <<cache, data, end, vts, out, pc, files>>

-----------------------------------------------------------------------------
(***************************************************************************)
(* save(): lay out the new file and commit the table in memory, write      *)
(* .said.tmp, rename it over .said, map the new file.                      *)
(***************************************************************************)
InFile(o) == o \in DOMAIN data

IsLeader(i, k) == i \in Pending \cap DOMAIN slot /\ slot[i] = <<k, 1>>
HasLeader(k) == \E i \in Ids : IsLeader(i, k)
Leader(k) == CHOOSE i \in Ids : IsLeader(i, k)

\* A block is written from its leader's buffer or copied from the old file.
KeptBlocks == {k \in DOMAIN blocks : HasLeader(k) \/ InFile(blocks[k])}
BlockCell(k) == IF HasLeader(k) THEN pay[Leader(k)].buf ELSE data[blocks[k]]

\* Raw frames to write, pending first when the file has blocks, committed
\* first when it has none.  Mutant: fixed bug 8 of the code, committed
\* inline frames of a file with blocks are not copied forward.
CommittedFirstOnly == {i \in Live \ Pending : InFile(pay[i].off) /\ blocks = <<>>}
KeptCommitted == {i \in Live \ Pending : pay[i].enc = "plain" /\ InFile(pay[i].off)}
RawPending == {i \in Pending : pay[i].enc = "plain"}

RawOrder == IF blocks = <<>>
            THEN InOrder(KeptCommitted, frame) \o InOrder(RawPending, frame)
            ELSE InOrder(RawPending, frame) \o InOrder(KeptCommitted, frame)
RawCell(i) == IF i \in Pending THEN pay[i].buf ELSE data[pay[i].off]

BlockOrder == [n \in 1 .. Cardinality(KeptBlocks) |->
                 CHOOSE k \in KeptBlocks :
                   Cardinality({j \in KeptBlocks : j < k}) = n - 1]

Layout == [n \in DOMAIN BlockOrder |-> BlockCell(BlockOrder[n])]
          \o [n \in DOMAIN RawOrder |-> RawCell(RawOrder[n])]

BlockOffset(k) == IF k \in KeptBlocks
                  THEN CHOOSE n \in DOMAIN BlockOrder : BlockOrder[n] = k
                  ELSE blocks[k]

\* Mutant: the offsets of raw frames are counted as if no block came first.
FromHeader(i) == IF i \in RawPending \cup KeptCommitted
                 THEN CHOOSE n \in DOMAIN RawOrder : RawOrder[n] = i
                 ELSE pay[i].off
RawOffset(i) == IF i \in RawPending \cup KeptCommitted
                THEN Len(BlockOrder)
                     + (CHOOSE n \in DOMAIN RawOrder : RawOrder[n] = i)
                ELSE pay[i].off

SaveLaysOut ==
  /\ pc = "idle"
  /\ Table!Flush
  /\ out' = Layout
  /\ blocks' = [k \in DOMAIN blocks |-> BlockOffset(k)]
  /\ pay' = [i \in Ids |-> [pay[i] EXCEPT !.off = RawOffset(i), !.buf = Nothing]]
  /\ pc' = "flushed"
  /\ UNCHANGED <<slot, cache, data, end, vts, files>>

\* The sections of the file as memory has them now.
Image == [cells |-> out, frame |-> frame, pay |-> pay, nextId |-> nextId,
          blocks |-> blocks, slot |-> slot, vts |-> vts]

SaveWritesTmp ==
  /\ pc = "flushed"
  /\ tmp' = Image
  /\ pc' = "written"
  /\ UNCHANGED <<table, bytes, vts, out, disk, spill>>

SaveRenames ==
  /\ pc = "written"
  /\ disk' = tmp
  /\ tmp' = NoFile
  /\ data' = out
  /\ spill' = NoFile /\ end' = 0
  /\ out' = <<>>
  /\ pc' = "idle"
  /\ UNCHANGED <<table, pay, blocks, slot, cache, vts>>

\* An error from write or rename goes to the caller; what save() did to the
\* table and the offsets is not undone.
SaveWriteFails ==
  /\ "write" \in Faults
  /\ pc = "flushed"
  /\ tmp' = Torn
  /\ out' = <<>>
  /\ pc' = "idle"
  /\ UNCHANGED <<table, bytes, vts, disk, spill>>

SaveRenameFails ==
  /\ "rename" \in Faults
  /\ pc = "written"
  /\ out' = <<>>
  /\ pc' = "idle"
  /\ UNCHANGED <<table, bytes, vts, files>>

\* save_brain_only(): the mapped file with a new BRAN section, written the
\* same way.  The section ends, for this code, where TRGM, SYMS, WIDX or
\* FTOC begins, so VAULT_TOMBSTONES goes with it.  `said init` does not call it.
BrainSaveWritesTmp ==
  /\ pc = "idle"
  /\ phase = "ready"
  /\ end = 0
  /\ tmp' = [disk EXCEPT !.vts = FALSE]
  /\ pc' = "brain"
  /\ UNCHANGED <<table, bytes, vts, out, disk, spill>>

BrainSaveRenames ==
  /\ pc = "brain"
  /\ disk' = tmp
  /\ tmp' = NoFile
  /\ pc' = "idle"
  /\ UNCHANGED <<table, bytes, vts, out, spill>>

BrainSaveFails ==
  /\ pc = "brain"
  /\ pc' = "idle"
  /\ \/ "write" \in Faults /\ tmp' = Torn
     \/ "rename" \in Faults /\ UNCHANGED tmp
  /\ UNCHANGED <<table, bytes, vts, out, disk, spill>>

-----------------------------------------------------------------------------
(***************************************************************************)
(* The process dies; a new one opens the file.                             *)
(***************************************************************************)
\* While .said.tmp is being written the file under that name may be torn; a
\* .spill stays as it is, perhaps just seeded.
Crash ==
  /\ pc # "down"
  /\ pc' = "down"
  /\ tmp' \in {tmp} \cup (IF pc \in {"flushed", "brain"} THEN {Torn} ELSE {})
  /\ frame' = [i \in {} |-> None] /\ docMap' = [d \in Docs |-> None]
  /\ nextId' = 0 /\ flushed' = 0 /\ phase' = "ready"
  /\ pay' = [i \in {} |-> None] /\ blocks' = <<>>
  /\ slot' = [i \in {} |-> None] /\ cache' = [k \in {} |-> None]
  /\ data' = <<>> /\ end' = 0 /\ vts' = FALSE /\ out' = <<>>
  /\ spill' \in IF pc = "spilling" THEN HalfSeeded ELSE {spill}
  /\ UNCHANGED disk

\* Mutant: the crashed write is taken for the newer file.
TmpIfWhole == IF tmp \in {NoFile, Torn} THEN disk ELSE tmp
LastGood == disk

\* Mutant: open() refuses a file whose last write did not finish.
CleanlyDown == pc = "down" /\ tmp = NoFile
CanOpen == pc = "down"

Open ==
  /\ CanOpen
  /\ tmp' = NoFile
  /\ frame' = LastGood.frame
  /\ nextId' = LastGood.nextId
  /\ flushed' = LastGood.nextId
  /\ docMap' = [d \in Docs |->
       LET active == {i \in DOMAIN LastGood.frame :
                        LastGood.frame[i].doc = d /\ LastGood.frame[i].status = "Active"}
       IN  IF active = {} THEN None
           ELSE CHOOSE i \in active : \A j \in active :
                  LastGood.frame[j].pos <= LastGood.frame[i].pos]
  /\ phase' = "ready"
  /\ pay' = LastGood.pay
  /\ blocks' = LastGood.blocks
  /\ slot' = LastGood.slot
  /\ cache' = [k \in {} |-> None]
  /\ data' = LastGood.cells /\ end' = 0
  /\ spill' = IF Swept THEN NoFile ELSE spill
  /\ vts' = LastGood.vts
  /\ pc' = "idle"
  /\ UNCHANGED <<out, disk>>

Spills == Spill \/ SpillFails
Save == SaveLaysOut \/ SaveWritesTmp \/ SaveRenames
SaveFails == SaveWriteFails \/ SaveRenameFails \/ BrainSaveFails
Compact == CompactSkips \/ TrainingFails \/ CompactPacks
BrainSave == BrainSaveWritesTmp \/ BrainSaveRenames

Next ==
  \/ \E d \in Docs : Remember(d) \/ Recall(d)
  \/ Spills
  \/ Retag
  \/ VaultPut
  \/ Compact
  \/ Save \/ SaveFails \/ BrainSave
  \/ Crash \/ Open

Spec == Init /\ [][Next]_vars

\* A save that has begun is carried on or fails, and a process that died is
\* started again.  Nothing makes a client call anything.
Finish == Spills \/ SaveWritesTmp \/ SaveRenames \/ SaveFails \/ BrainSaveRenames \/ Open
FairSpec == Spec /\ WF_vars(Finish)

-----------------------------------------------------------------------------
(***************************************************************************)
(* What the file promises.                                                 *)
(***************************************************************************)
\* The bytes are where some bookkeeping says: every frame has a place, and
\* every block it can be read from is in the block table.
TypeOK ==
  /\ Table!TypeOK
  /\ pay \in [Ids -> Pay]
  /\ blocks \in Seq(Nat)
  /\ DOMAIN slot \subseteq Ids
  /\ \A i \in DOMAIN slot : slot[i] \in (DOMAIN blocks) \X (1 .. BlockSize)
  /\ \A k \in DOMAIN cache : cache[k] \in Seq(Content)
  /\ data \in Seq(Cell) /\ out \in Seq(Cell) /\ end \in 0 .. Len(data)
  /\ spill # NoFile => spill \in Seq(Cell)
  /\ vts \in BOOLEAN
  /\ pc \in {"idle", "flushed", "written", "brain", "spilling", "down"}

\* Every version that has not been purged, current or history, reads back as
\* the bytes that were put, after any sequence of puts, compactions, saves,
\* crashes and reopenings (docs 14.14 "byte-exact"; frames.rs fixes 1 and 8).
AllReadable == pc = "idle" /\ phase = "ready" => \A i \in Live : Read(i) = i

\* "so the final save round-trips unchanged" (said_file.rs:925): what a save
\* wrote reads back from the file, spilled or not.
ReadIn(image, i) ==
  IF image.pay[i].enc # "block" THEN PlainAt(image.cells, image.pay[i].off)
  ELSE IF i \in DOMAIN image.slot THEN PackedAt(image.cells, image.blocks, image.slot[i])
  ELSE Missing
SaveRoundTrips ==
  \A i \in DOMAIN disk.frame : disk.frame[i].status # "Deleted" => ReadIn(disk, i) = i

\* A process is never stuck in a save or in the wreck of one: whatever it was
\* doing when it died, also half-way through .said.tmp, open() works.
BackToWork == []<>(pc = "idle")

(***************************************************************************)
(* The file implements a durable store of versions: DurableVersions.tla.   *)
(***************************************************************************)
HeadIn(f, d) ==
  LET active == {i \in DOMAIN f : f[i].doc = d /\ f[i].status = "Active"}
  IN  IF active = {} THEN None ELSE CHOOSE i \in active : TRUE
PastIn(f, d) == {i \in DOMAIN f : f[i].doc = d /\ f[i].status = "Tombstone"}
HeldIn(f) == {p \in (DOMAIN f) \X Cases :
                f[p[1]].status # "Deleted" /\ p[2] \in f[p[1]].holds}

LiveTable == IF pc = "down" THEN disk.frame ELSE frame

Durable == INSTANCE DurableVersions WITH
  head       <- [d \in Docs |-> HeadIn(LiveTable, d)],
  past       <- [d \in Docs |-> PastIn(LiveTable, d)],
  held       <- HeldIn(LiveTable),
  known      <- Cardinality(DOMAIN LiveTable),
  savedHead  <- [d \in Docs |-> HeadIn(disk.frame, d)],
  savedPast  <- [d \in Docs |-> PastIn(disk.frame, d)],
  savedHeld  <- HeldIn(disk.frame),
  savedKnown <- disk.nextId

\* The rename is the one step that changes what is saved, and it saves
\* exactly the live versions; a crash anywhere brings back the last save
\* (docs 36 "crash-safe"; said_file.rs save, open).
ImplementsDurable == Durable!DurableSpec
=============================================================================
