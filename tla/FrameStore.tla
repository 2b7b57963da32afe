----------------------------- MODULE FrameStore -----------------------------
(***************************************************************************)
(* The frame table of a .said brain: crates/sca-core/src/frames.rs.        *)
(*                                                                         *)
(* FrameStore keeps two vectors of frame metadata, `frames` (committed)    *)
(* and `pending` (not yet flushed), a map from doc_id to the frame that    *)
(* answers for it, and the next frame id.  A frame never leaves the table: *)
(* put() appends, every other operation changes a status, a tag, the map   *)
(* or the order.  So the table is a function of the frame id, and a frame's*)
(* place in `frames` followed by `pending` is its field pos: the code's    *)
(* test old_idx < self.frames.len() is pos < flushed.                      *)
(*                                                                         *)
(* docMap holds frame ids where the code holds indices.  The two name the  *)
(* same frame in every state in which the map is used: only a compact()    *)
(* that returns early moves frames without rebuilding the map, and every   *)
(* caller of compact() calls save() next (phase "mustSave"), which does.   *)
(* created_at is left out: the clock does not run backwards, and all uses  *)
(* of it break ties by id, so its order is the order of the ids.           *)
(* superseded_by is left out too: it is shown to the user and read by no   *)
(* operation.                                                              *)
(***************************************************************************)
EXTENDS Naturals, FiniteSets

CONSTANTS
  Docs,          \* document ids
  Cases,         \* legal-hold case ids
  None,          \* "no frame": an absent map entry
  MaxFrames,     \* bound on the number of put() calls
  MinCompact,    \* fewest frames worth compacting (10 in the code)
  KeepCounts,    \* the keep_per_doc values that are tried
  AdminOnSaved   \* TRUE: the restore, retention and drop-history commands
                 \* find a saved store, as the CLI and the MCP server call
                 \* them; FALSE: any order of calls to the library

ASSUME NoneAssumption == None \notin Nat
ASSUME BoundAssumption == MinCompact \in Nat /\ KeepCounts \subseteq Nat
ASSUME RegimeAssumption == AdminOnSaved \in BOOLEAN

VARIABLES
  frame,     \* frame id -> metadata
  docMap,    \* doc_id_map
  nextId,    \* next_id
  flushed,   \* frames.len()
  phase      \* what the owner of the store may do next

vars == <<frame, docMap, nextId, flushed, phase>>

Ids == 0 .. nextId - 1
Status == {"Active", "Tombstone", "Deleted"}
Frame == [doc : Docs, status : Status, holds : SUBSET Cases, pos : Ids]

(***************************************************************************)
(* Reading the table.                                                      *)
(***************************************************************************)
Of(d) == {i \in Ids : frame[i].doc = d}
\* Mutant: a purged frame counts as history.
NotActive(d) == {i \in Of(d) : frame[i].status # "Active"}
Tombstones(d) == {i \in Of(d) : frame[i].status = "Tombstone"}

Committed(i) == frame[i].pos < flushed

\* is_under_legal_hold(): any case will do.
\* Mutant: only all cases together protect a frame.
HeldByEveryCase(i) == frame[i].holds = Cases
Held(i) == frame[i].holds # {}

\* Every frame is committed and the map knows Active frames only, as after
\* a save.
Settled == /\ \A i \in Ids : Committed(i)
           /\ \A d \in Docs : docMap[d] # None => frame[docMap[d]].status = "Active"

\* Mutant: a command that works on what it has just changed.
AdminAnyTime == phase = "ready"
AdminReady == phase = "ready" /\ (AdminOnSaved => Settled)

\* The map that a pass over table f builds: of the Active frames of a
\* document the one visited last wins.
Rebuilt(f) ==
  [d \in Docs |->
     LET active == {i \in Ids : f[i].doc = d /\ f[i].status = "Active"}
     IN  IF active = {} THEN None
         ELSE CHOOSE i \in active : \A j \in active : f[j].pos <= f[i].pos]

-----------------------------------------------------------------------------
Init == /\ frame = [i \in {} |-> None]
        /\ docMap = [d \in Docs |-> None]
        /\ nextId = 0
        /\ flushed = 0
        /\ phase = "ready"

NewFrame(d) == [doc |-> d, status |-> "Active", holds |-> {}, pos |-> nextId]

\* The map entry is made before the frame is pushed.
\* Mutant: after.
EntryAfterPush == nextId + 1
Entry == nextId

\* Mutant: the old head is left Active.
StillActive(f) == f
Superseded(f) == IF f.status = "Active" THEN [f EXCEPT !.status = "Tombstone"] ELSE f

\* put(): the frame the map names, if still Active, becomes history.
Put(d) ==
  /\ phase = "ready"
  /\ nextId < MaxFrames
  /\ frame' = [i \in 0 .. nextId |->
                 IF i = nextId THEN NewFrame(d)
                 ELSE IF i = docMap[d] THEN Superseded(frame[i])
                 ELSE frame[i]]
  /\ docMap' = [docMap EXCEPT ![d] = Entry]
  /\ nextId' = nextId + 1
  /\ UNCHANGED <<flushed, phase>>

\* delete(): whatever the status of the frame the map names, it becomes a
\* Tombstone, and the map forgets the document.
Delete(d) ==
  /\ phase = "ready"
  /\ docMap[d] # None
  /\ frame' = [frame EXCEPT ![docMap[d]].status = "Tombstone"]
  /\ docMap' = [docMap EXCEPT ![d] = None]
  /\ UNCHANGED <<nextId, flushed, phase>>

\* tombstone(): the same for a source file that is gone, but only for an
\* Active frame, and the map entry stays.
Tombstone(d) ==
  /\ phase = "ready"
  /\ docMap[d] # None
  /\ frame[docMap[d]].status = "Active"
  /\ frame' = [frame EXCEPT ![docMap[d]].status = "Tombstone"]
  /\ UNCHANGED <<docMap, nextId, flushed, phase>>

\* Mutant: the comparison of (created_at, id) the wrong way round.
Eldest(S) == CHOOSE i \in S : \A j \in S : i <= j
Newest(S) == CHOOSE i \in S : \A j \in S : j <= i

\* admin_restore_tombstoned(): the newest Tombstone of the document returns,
\* the current head steps back.  A restored frame that is still pending does
\* not enter the map.
Restore(d) ==
  /\ AdminReady
  /\ Tombstones(d) # {}
  /\ docMap[d] # None => Committed(docMap[d])
  /\ LET best == Newest(Tombstones(d))
         head == docMap[d]
     IN  /\ frame' = [i \in Ids |->
              IF i = best
                THEN [frame[i] EXCEPT !.status = "Active"]
              ELSE IF i = head THEN Superseded(frame[i])
              ELSE frame[i]]
         /\ docMap' = IF Committed(best) THEN [docMap EXCEPT ![d] = best]
                                         ELSE docMap
  /\ UNCHANGED <<nextId, flushed, phase>>

\* The same call when the head is pending: self.frames[active_idx] indexes
\* past the end of `frames` and the process panics.
RestorePanics(d) ==
  /\ AdminReady
  /\ Tombstones(d) # {}
  /\ docMap[d] # None
  /\ ~Committed(docMap[d])
  /\ phase' = "panicked"
  /\ UNCHANGED <<frame, docMap, nextId, flushed>>

\* admin_add_legal_hold() and admin_release_legal_hold(): every frame the
\* document has now, whatever its status.
AddHold(d, c) ==
  /\ phase = "ready"
  /\ frame' = [i \in Ids |-> IF i \in Of(d)
                             THEN [frame[i] EXCEPT !.holds = @ \cup {c}]
                             ELSE frame[i]]
  /\ UNCHANGED <<docMap, nextId, flushed, phase>>

ReleaseHold(d, c) ==
  /\ phase = "ready"
  /\ frame' = [i \in Ids |-> IF i \in Of(d)
                             THEN [frame[i] EXCEPT !.holds = @ \ {c}]
                             ELSE frame[i]]
  /\ UNCHANGED <<docMap, nextId, flushed, phase>>

\* Frames of S that no hold protects become reclaimable.
Reclaim(S) ==
  /\ AdminReady
  /\ frame' = [i \in Ids |-> IF i \in S /\ ~Held(i)
                             THEN [frame[i] EXCEPT !.status = "Deleted"]
                             ELSE frame[i]]
  /\ UNCHANGED <<docMap, nextId, flushed, phase>>

\* drop_tombstones()
DropTombstones == Reclaim(UNION {Tombstones(d) : d \in Docs})

\* The Tombstones of d with at least n newer ones.
Older(d, n) ==
  {i \in Tombstones(d) : Cardinality({j \in Tombstones(d) : i < j}) >= n}

\* drop_tombstones_keep()
DropTombstonesKeep(n) == Reclaim(UNION {Older(d, n) : d \in Docs})

\* mark_frame_deleted(): the retention sweep calls it on Tombstones.
MarkFrameDeleted(i) ==
  /\ frame[i].status # "Deleted"
  /\ AdminOnSaved => frame[i].status = "Tombstone"
  /\ Reclaim({i})

\* compact_block_dict(): the committed frames in `moved` are taken out of
\* `frames` from the last to the first and pushed behind the pending ones.
Reordered(moved) ==
  LET Before(j, i) == IF j \in moved
                      THEN i \in moved /\ frame[i].pos < frame[j].pos
                      ELSE i \in moved \/ frame[j].pos < frame[i].pos
  IN  [i \in Ids |-> [frame[i] EXCEPT
         !.pos = Cardinality({j \in Ids : Before(j, i)})]]

\* The map is rebuilt only when there was enough to compress.
CompactTable(moved, done) ==
  /\ phase = "ready"
  /\ frame' = Reordered(moved)
  /\ docMap' = IF done THEN Rebuilt(frame') ELSE docMap
  /\ flushed' = Cardinality({i \in Ids \ moved : Committed(i)})
  /\ phase' = "mustSave"
  /\ UNCHANGED nextId

Undeleted == {i \in Ids : frame[i].status # "Deleted"}

Compact == CompactTable({i \in Undeleted : Committed(i)},
                        Cardinality(Undeleted) >= MinCompact)

\* flush_pending() and flush_block_pending_with_source(), as save() calls
\* them: everything is committed and the map rebuilt.
Flush ==
  /\ phase \in {"ready", "mustSave"}
  /\ flushed' = nextId
  /\ docMap' = Rebuilt(frame)
  /\ phase' = "ready"
  /\ UNCHANGED <<frame, nextId>>

Next ==
  \/ \E d \in Docs : Put(d) \/ Delete(d) \/ Tombstone(d)
                       \/ Restore(d) \/ RestorePanics(d)
  \/ \E d \in Docs, c \in Cases : AddHold(d, c) \/ ReleaseHold(d, c)
  \/ DropTombstones
  \/ \E n \in KeepCounts : DropTombstonesKeep(n)
  \/ \E i \in Ids : MarkFrameDeleted(i)
  \/ Compact
  \/ Flush

Spec == Init /\ [][Next]_vars

-----------------------------------------------------------------------------
(***************************************************************************)
(* What the table promises.                                                *)
(***************************************************************************)
\* Every operation leaves a well-formed table: the map names frames that
\* exist, and a frame has a place in `frames` or in `pending`.
TypeOK == /\ nextId \in Nat
          /\ frame \in [Ids -> Frame]
          /\ docMap \in [Docs -> Ids \cup {None}]
          /\ flushed \in Nat
          /\ phase \in {"ready", "mustSave", "panicked"}

\* An Active frame is the one its doc_id resolves to: so there is one head
\* per document, put() and delete() reach it, and no forgotten version can
\* come back when save(), compact() or open() rebuilds the map (frames.rs
\* doc_id_map).
HeadMapped == \A i \in Ids : frame[i].status = "Active" => docMap[frame[i].doc] = i

\* The map leads from a document to a frame of that document whose bytes are
\* still kept, whatever reordered, purged or rebuilt in between: so delete()
\* never turns a purged frame back into history.
MapSound == \A d \in Docs : docMap[d] # None => /\ frame[docMap[d]].doc = d
                                               /\ frame[docMap[d]].status # "Deleted"

\* A frame under legal hold is never made reclaimable, whichever of the
\* three retention paths runs and however many holds came and went
\* (drop_tombstones, drop_tombstones_keep, mark_frame_deleted).
HeldStays == \A i \in Ids : frame[i].holds # {} /\ frame[i].status # "Deleted"
                               => frame'[i].status # "Deleted"
HeldNeverReclaimed == [][HeldStays]_vars

\* A purged frame is never offered again: delete(), the recycle bin and
\* restore cannot turn Deleted back into a version whose bytes the next
\* save has dropped.
PurgedStays == \A i \in Ids : frame[i].status = "Deleted"
                                 => frame'[i].status = "Deleted"
DeletedIsFinal == [][PurgedStays]_vars

(***************************************************************************)
(* The table implements a store of versions: VersionStore.tla.             *)
(***************************************************************************)
Head(d) == IF docMap[d] # None /\ frame[docMap[d]].status = "Active"
           THEN docMap[d] ELSE None

Versions == INSTANCE VersionStore WITH
              head  <- [d \in Docs |-> Head(d)],
              past  <- [d \in Docs |-> Tombstones(d)],
              held  <- {p \in Undeleted \X Cases : p[2] \in frame[p[1]].holds},
              known <- nextId

\* put, delete, tombstone and restore move versions between head and
\* history as VersionStore says, and compact() and save() change neither
\* (docs 3.4 and 14.14).
ImplementsVersions == Versions!Spec
=============================================================================
