------------------------- MODULE FrameStore_proofs -------------------------
(***************************************************************************)
(* What FrameStore promises for any number of documents, cases and frames. *)
(*                                                                         *)
(* TypeOK and HeldNeverReclaimed hold in both regimes.  HeadMapped,        *)
(* MapSound and DeletedIsFinal need the commands of the CLI and the MCP    *)
(* server to find a saved store (AdminOnSaved); their inductive invariant  *)
(* is Inv: with HeadMapped a document has at most one Active frame, so     *)
(* every rebuilt map agrees with the one it replaces.                      *)
(***************************************************************************)
EXTENDS FrameStore, FiniteSetTheorems, WellFoundedInduction, TLAPS

-----------------------------------------------------------------------------
(***************************************************************************)
(* The helpers.                                                            *)
(***************************************************************************)
\* A non-empty set of numbers below n has a greatest element.
LEMMA GreatestExists ==
  ASSUME NEW n \in Nat, NEW S \in SUBSET (0 .. n - 1), S # {}
  PROVE  \E i \in S : \A j \in S : j <= i
<1> DEFINE T == {x \in 0 .. n - 1 : n - 1 - x \in S}
<1>1. T \subseteq Nat /\ T # {}
  <2>1. PICK i \in S : TRUE
    OBVIOUS
  <2>2. n - 1 - i \in 0 .. n - 1 /\ n - 1 - (n - 1 - i) = i
    OBVIOUS
  <2>3. n - 1 - i \in T
    BY <2>2
  <2>4. T \subseteq 0 .. n - 1
    OBVIOUS
  <2>5. 0 .. n - 1 \subseteq Nat
    OBVIOUS
  <2> HIDE DEF T
  <2> QED
    BY <2>3, <2>4, <2>5
<1>2. \E x \in T : \A y \in T : ~ (<<y, x>> \in OpToRel(<, Nat))
  BY ONLY <1>1, WFMin, NatLessThanWellFounded
<1>3. PICK x \in T : \A y \in T : ~ (y < x)
  BY <1>1, <1>2 DEF OpToRel
<1>4. ASSUME NEW j \in S
      PROVE  j <= n - 1 - x
  <2>1. n - 1 - j \in T
    OBVIOUS
  <2> QED
    BY <2>1, <1>3
<1> QED
  BY <1>3, <1>4

\* Of frames that have places, one has the last place.
LEMMA LastExists ==
  ASSUME NEW n \in Nat, NEW A \in SUBSET (0 .. n - 1), A # {},
         NEW f, \A i \in A : f[i].pos \in 0 .. n - 1
  PROVE  \E i \in A : \A j \in A : f[j].pos <= f[i].pos
<1> DEFINE P == {f[i].pos : i \in A}
<1>1. P \in SUBSET (0 .. n - 1) /\ P # {}
  OBVIOUS
<1>2. \E p \in P : \A q \in P : q <= p
  BY ONLY <1>1, GreatestExists, n \in Nat
<1> QED
  BY <1>2

\* Newest() finds a frame of the set it is given, and no other is newer.
LEMMA NewestIn ==
  ASSUME nextId \in Nat, NEW S \in SUBSET Ids, S # {}
  PROVE  Newest(S) \in S /\ \A j \in S : j <= Newest(S)
BY GreatestExists DEF Newest, Ids

\* A rebuilt map names Active frames of the right document, and it names
\* the Active frame of a document that has one only.
LEMMA RebuiltSound ==
  ASSUME nextId \in Nat, NEW f \in [Ids -> Frame]
  PROVE  /\ Rebuilt(f) \in [Docs -> Ids \cup {None}]
         /\ \A d \in Docs : Rebuilt(f)[d] # None =>
              f[Rebuilt(f)[d]].doc = d /\ f[Rebuilt(f)[d]].status = "Active"
         /\ \A i \in Ids : f[i].status = "Active" =>
              Rebuilt(f)[f[i].doc] \in Ids
<1> DEFINE Active(d) == {i \in Ids : f[i].doc = d /\ f[i].status = "Active"}
           Last(d) == CHOOSE i \in Active(d) : \A j \in Active(d) : f[j].pos <= f[i].pos
<1>1. ASSUME NEW d \in Docs, Active(d) # {}
      PROVE  Last(d) \in Active(d)
  <2>1. \A i \in Active(d) : f[i].pos \in 0 .. nextId - 1
    BY DEF Frame, Ids
  <2>2. Active(d) \in SUBSET (0 .. nextId - 1)
    BY DEF Ids
  <2>3. \E i \in Active(d) : \A j \in Active(d) : f[j].pos <= f[i].pos
    <3> HIDE DEF Active
    <3> QED
      BY <2>1, <2>2, <1>1, LastExists
  <2> QED
    <3> HIDE DEF Active
    <3> QED
      BY <2>3
<1>2. ASSUME NEW d \in Docs
      PROVE  Rebuilt(f)[d] = IF Active(d) = {} THEN None ELSE Last(d)
  BY DEF Rebuilt
<1>3. \A d \in Docs : Rebuilt(f)[d] \in Active(d) \cup {None}
  BY <1>1, <1>2
<1>4. \A d \in Docs : Active(d) # {} => Rebuilt(f)[d] \in Active(d)
  BY <1>1, <1>2
<1>5. Rebuilt(f) \in [Docs -> Ids \cup {None}]
  BY <1>3 DEF Rebuilt
<1>6. ASSUME NEW i \in Ids, f[i].status = "Active"
      PROVE  Rebuilt(f)[f[i].doc] \in Ids
  <2>1. f[i].doc \in Docs /\ i \in Active(f[i].doc)
    BY <1>6 DEF Frame
  <2> QED
    BY <2>1, <1>4
<1> QED
  BY <1>3, <1>5, <1>6

\* compact() gives every frame a place and changes nothing else of it.
LEMMA ReorderedSound ==
  ASSUME TypeOK, NEW moved \in SUBSET Ids
  PROVE  /\ Reordered(moved) \in [Ids -> Frame]
         /\ \A i \in Ids : /\ Reordered(moved)[i].doc = frame[i].doc
                          /\ Reordered(moved)[i].status = frame[i].status
                          /\ Reordered(moved)[i].holds = frame[i].holds
<1> DEFINE Before(j, i) == IF j \in moved
                           THEN i \in moved /\ frame[i].pos < frame[j].pos
                           ELSE i \in moved \/ frame[j].pos < frame[i].pos
           Rank(i) == Cardinality({j \in Ids : Before(j, i)})
<1>1. nextId \in Nat /\ frame \in [Ids -> Frame]
  BY DEF TypeOK
<1>2. ASSUME NEW i \in Ids
      PROVE  Rank(i) \in Ids
  <2>1. frame[i].pos \in Nat
    BY <1>1 DEF Frame, Ids
  <2>2. ~ Before(i, i)
    BY <2>1
  <2>3. {j \in Ids : Before(j, i)} \in SUBSET (Ids \ {i})
    <3> HIDE DEF Before
    <3> QED
      BY <2>2
  <2>4. IsFiniteSet(Ids) /\ Cardinality(Ids) = nextId
    BY <1>1, FS_Interval DEF Ids
  <2>5. IsFiniteSet(Ids \ {i}) /\ Cardinality(Ids \ {i}) = nextId - 1
    BY <2>4, FS_RemoveElement
  <2>6. Rank(i) \in Nat /\ Rank(i) <= nextId - 1
    <3> HIDE DEF Before
    <3> QED
      BY <2>3, <2>5, FS_Subset, FS_CardinalityType
  <2> QED
    BY <1>1, <2>6 DEF Ids
<1>3. Reordered(moved) = [i \in Ids |-> [frame[i] EXCEPT !.pos = Rank(i)]]
  BY DEF Reordered
<1>4. ASSUME NEW i \in Ids
      PROVE  /\ Reordered(moved)[i] \in Frame
             /\ Reordered(moved)[i].doc = frame[i].doc
             /\ Reordered(moved)[i].status = frame[i].status
             /\ Reordered(moved)[i].holds = frame[i].holds
  <2> HIDE DEF Rank
  <2>1. frame[i] \in Frame
    BY <1>1
  <2>2. Reordered(moved)[i] = [frame[i] EXCEPT !.pos = Rank(i)]
    BY <1>3
  <2> QED
    BY <2>1, <2>2, <1>2 DEF Frame
<1> QED
  BY <1>3, <1>4

\* What compact_block_dict() makes of the table, whatever it moves.
LEMMA CompactTableSound ==
  ASSUME TypeOK, NEW moved \in SUBSET Ids, NEW done \in BOOLEAN,
         CompactTable(moved, done)
  PROVE  /\ TypeOK'
         /\ \A i \in Ids : /\ frame'[i].doc = frame[i].doc
                          /\ frame'[i].status = frame[i].status
                          /\ frame'[i].holds = frame[i].holds
         /\ docMap' = docMap \/ docMap' = Rebuilt(frame)'
<1>1. nextId' = nextId /\ Ids' = Ids /\ Frame' = Frame
  BY DEF CompactTable, Ids, Frame
<1>2. frame' \in [Ids -> Frame]
  BY ReorderedSound DEF CompactTable
<1>3. \A i \in Ids : /\ frame'[i].doc = frame[i].doc
                    /\ frame'[i].status = frame[i].status
                    /\ frame'[i].holds = frame[i].holds
  BY ReorderedSound DEF CompactTable
<1>4. Rebuilt(frame') = Rebuilt(frame)'
  BY <1>1 DEF Rebuilt
<1>5. docMap' \in [Docs -> Ids \cup {None}]
  BY <1>2, RebuiltSound DEF TypeOK, CompactTable
<1>6. flushed' \in Nat
  <2>1. IsFiniteSet(Ids)
    BY FS_Interval DEF TypeOK, Ids
  <2>2. {i \in Ids \ moved : Committed(i)} \in SUBSET Ids
    OBVIOUS
  <2> QED
    BY <2>1, <2>2, FS_Subset, FS_CardinalityType DEF CompactTable
<1> QED
  BY <1>1, <1>2, <1>3, <1>4, <1>5, <1>6 DEF TypeOK, CompactTable

LEMMA CompactSound ==
  ASSUME TypeOK, Compact
  PROVE  /\ TypeOK'
         /\ nextId' = nextId
         /\ \A i \in Ids : /\ frame'[i].doc = frame[i].doc
                          /\ frame'[i].status = frame[i].status
                          /\ frame'[i].holds = frame[i].holds
         /\ docMap' = docMap \/ docMap' = Rebuilt(frame)'
<1> DEFINE moved == {i \in Undeleted : Committed(i)}
           done == Cardinality(Undeleted) >= MinCompact
<1>1. moved \in SUBSET Ids /\ done \in BOOLEAN
  BY DEF Undeleted
<1>2. CompactTable(moved, done)
  BY DEF Compact
<1>3. nextId' = nextId
  BY <1>2 DEF CompactTable
<1> HIDE DEF moved, done
<1> QED
  BY <1>1, <1>2, <1>3, CompactTableSound

-----------------------------------------------------------------------------
(***************************************************************************)
(* One step, either regime.                                                *)
(***************************************************************************)
\* Initially nothing is there to be wrong.
LEMMA InitSound ==
  ASSUME Init
  PROVE  TypeOK /\ HeadMapped /\ MapSound
<1>1. Ids = {}
  BY DEF Init, Ids
<1>2. \A d \in Docs : docMap[d] = None
  BY DEF Init
<1>3. TypeOK
  BY <1>1 DEF Init, TypeOK
<1> QED
  BY <1>1, <1>2, <1>3 DEF HeadMapped, MapSound

\* Every operation keeps the table well-formed.
LEMMA NextType ==
  ASSUME TypeOK, Next
  PROVE  TypeOK'
<1>1. /\ nextId \in Nat /\ flushed \in Nat
      /\ frame \in [Ids -> Frame]
      /\ docMap \in [Docs -> Ids \cup {None}]
      /\ phase \in {"ready", "mustSave", "panicked"}
  BY DEF TypeOK
<1>2. ASSUME nextId' = nextId,
             frame' \in [Ids -> Frame],
             docMap' \in [Docs -> Ids \cup {None}],
             flushed' = flushed,
             phase' \in {phase, "panicked"}
      PROVE  TypeOK'
  <2>1. Ids' = Ids /\ Frame' = Frame
    BY <1>2 DEF Ids, Frame
  <2> QED
    BY <1>1, <1>2, <2>1 DEF TypeOK
<1>3. ASSUME NEW i \in Ids
      PROVE  /\ Superseded(frame[i]) \in Frame
             /\ \A s \in Status : [frame[i] EXCEPT !.status = s] \in Frame
             /\ \A h \in SUBSET Cases : [frame[i] EXCEPT !.holds = h] \in Frame
  BY <1>1 DEF Superseded, Frame, Status
<1>4. \A d \in Docs : docMap[d] # None => docMap[d] \in Ids
  BY <1>1
<1>5. ASSUME NEW d \in Docs, Put(d)
      PROVE  TypeOK'
  <2>1. Ids' = Ids \cup {nextId} /\ Ids' = 0 .. nextId /\ nextId' \in Nat
    BY <1>1, <1>5 DEF Put, Ids
  <2>2. \A f \in Frame : f \in Frame'
    BY <2>1 DEF Frame
  <2>3. NewFrame(d) \in Frame'
    BY <2>1 DEF NewFrame, Frame, Status, Ids
  <2>4. frame' \in [Ids' -> Frame']
    BY <1>1, <1>3, <1>5, <2>1, <2>2, <2>3 DEF Put
  <2>5. docMap' \in [Docs -> Ids' \cup {None}]
    BY <1>1, <1>5, <2>1 DEF Put, Entry
  <2> QED
    BY <1>1, <1>5, <2>1, <2>4, <2>5 DEF Put, TypeOK
<1>6. ASSUME NEW d \in Docs, Delete(d)
      PROVE  TypeOK'
  <2>1. frame' \in [Ids -> Frame]
    BY <1>1, <1>3, <1>4, <1>6 DEF Delete, Status
  <2> QED
    BY <1>1, <1>2, <1>6, <2>1 DEF Delete
<1>7. ASSUME NEW d \in Docs, Tombstone(d)
      PROVE  TypeOK'
  <2>1. frame' \in [Ids -> Frame]
    BY <1>1, <1>3, <1>4, <1>7 DEF Tombstone, Status
  <2> QED
    BY <1>1, <1>2, <1>7, <2>1 DEF Tombstone
<1>8. ASSUME NEW d \in Docs, Restore(d)
      PROVE  TypeOK'
  <2>1. Newest(Tombstones(d)) \in Ids
    BY <1>1, <1>8, NewestIn DEF Restore, Tombstones, Of
  <2>2. frame' \in [Ids -> Frame]
    BY <1>1, <1>3, <1>8 DEF Restore, Status
  <2>3. docMap' \in [Docs -> Ids \cup {None}]
    BY <1>1, <1>8, <2>1 DEF Restore
  <2> QED
    BY <1>2, <1>8, <2>2, <2>3 DEF Restore
<1>9. ASSUME NEW d \in Docs, RestorePanics(d)
      PROVE  TypeOK'
  BY <1>1, <1>2, <1>9 DEF RestorePanics
<1>10. ASSUME NEW d \in Docs, NEW c \in Cases, AddHold(d, c) \/ ReleaseHold(d, c)
       PROVE  TypeOK'
  <2>1. \A i \in Ids : /\ [frame[i] EXCEPT !.holds = @ \cup {c}] \in Frame
                       /\ [frame[i] EXCEPT !.holds = @ \ {c}] \in Frame
    BY <1>1 DEF Frame
  <2>2. frame' \in [Ids -> Frame]
    BY <1>1, <1>10, <2>1 DEF AddHold, ReleaseHold
  <2> QED
    BY <1>1, <1>2, <1>10, <2>2 DEF AddHold, ReleaseHold
<1>11. ASSUME NEW S, Reclaim(S)
       PROVE  TypeOK'
  <2>1. frame' \in [Ids -> Frame]
    BY <1>1, <1>3, <1>11 DEF Reclaim, Status
  <2> QED
    BY <1>1, <1>2, <1>11, <2>1 DEF Reclaim
<1>12. CASE Compact
  BY <1>12, CompactSound
<1>13. CASE Flush
  <2>1. Ids' = Ids /\ Frame' = Frame
    BY <1>13 DEF Flush, Ids, Frame
  <2>2. docMap' \in [Docs -> Ids \cup {None}]
    BY <1>1, <1>13, RebuiltSound DEF Flush
  <2> QED
    BY <1>1, <1>13, <2>1, <2>2 DEF Flush, TypeOK
<1> QED
  BY <1>5, <1>6, <1>7, <1>8, <1>9, <1>10, <1>11, <1>12, <1>13
     DEF Next, DropTombstones, DropTombstonesKeep, MarkFrameDeleted

\* No operation purges a frame under a legal hold.
LEMMA NextHeld ==
  ASSUME TypeOK, Next
  PROVE  HeldStays
<1>1. /\ nextId \in Nat
      /\ frame \in [Ids -> Frame]
      /\ \A d \in Docs : docMap[d] # None => docMap[d] \in Ids
  BY DEF TypeOK
<1> SUFFICES ASSUME NEW i \in Ids, frame[i].holds # {}, frame[i].status # "Deleted"
             PROVE  frame'[i].status # "Deleted"
  BY DEF HeldStays
<1>2. frame[i] \in Frame
  BY <1>1
<1>3. ASSUME NEW d \in Docs, Put(d)
      PROVE  frame'[i].status # "Deleted"
  <2>1. i \in 0 .. nextId /\ i # nextId
    BY <1>1 DEF Ids
  <2> QED
    BY <1>2, <1>3, <2>1 DEF Put, Superseded, Frame
<1>4. ASSUME NEW d \in Docs, Delete(d) \/ Tombstone(d)
      PROVE  frame'[i].status # "Deleted"
  BY <1>1, <1>2, <1>4 DEF Delete, Tombstone, Frame
<1>5. ASSUME NEW d \in Docs, Restore(d) \/ RestorePanics(d)
      PROVE  frame'[i].status # "Deleted"
  BY <1>2, <1>5 DEF Restore, RestorePanics, Superseded, Frame
<1>6. ASSUME NEW d \in Docs, NEW c \in Cases, AddHold(d, c) \/ ReleaseHold(d, c)
      PROVE  frame'[i].status # "Deleted"
  BY <1>2, <1>6 DEF AddHold, ReleaseHold, Frame
<1>7. ASSUME NEW S, Reclaim(S)
      PROVE  frame'[i].status # "Deleted"
  BY <1>7 DEF Reclaim, Held
<1>8. CASE Compact
  BY <1>8, CompactSound
<1>9. CASE Flush
  BY <1>9 DEF Flush
<1> QED
  BY <1>3, <1>4, <1>5, <1>6, <1>7, <1>8, <1>9
     DEF Next, DropTombstones, DropTombstonesKeep, MarkFrameDeleted

-----------------------------------------------------------------------------
(***************************************************************************)
(* One step of the commands, which find a saved store.                     *)
(***************************************************************************)
Inv == TypeOK /\ HeadMapped /\ MapSound

\* A map that names the one Active frame of a document is what a rebuild
\* gives.
LEMMA RebuiltHeads ==
  ASSUME TypeOK, NEW f \in [Ids -> Frame],
         \A i, j \in Ids : /\ f[i].status = "Active" /\ f[j].status = "Active"
                          /\ f[i].doc = f[j].doc
                          => i = j
  PROVE  \A i \in Ids : f[i].status = "Active" => Rebuilt(f)[f[i].doc] = i
<1>1. nextId \in Nat
  BY DEF TypeOK
<1> SUFFICES ASSUME NEW i \in Ids, f[i].status = "Active"
             PROVE  Rebuilt(f)[f[i].doc] = i
  OBVIOUS
<1> DEFINE k == Rebuilt(f)[f[i].doc]
<1>2. k \in Ids /\ f[i].doc \in Docs
  BY <1>1, RebuiltSound DEF Frame
<1>3. k # None
  BY <1>1, <1>2, NoneAssumption DEF Ids
<1>4. f[k].doc = f[i].doc /\ f[k].status = "Active"
  BY <1>1, <1>2, <1>3, RebuiltSound
<1> QED
  BY <1>2, <1>4

\* A step that changes neither document nor status of a frame, and keeps the
\* map or rebuilds it, keeps the map in step.
LEMMA AlikeInv ==
  ASSUME Inv, Ids' = Ids, frame' \in [Ids -> Frame],
         \A i \in Ids : frame'[i].doc = frame[i].doc
                       /\ frame'[i].status = frame[i].status,
         docMap' = docMap \/ docMap' = Rebuilt(frame)'
  PROVE  HeadMapped' /\ MapSound'
<1>1. TypeOK /\ HeadMapped /\ MapSound /\ nextId \in Nat
  BY DEF Inv, TypeOK
<1>2. CASE docMap' = docMap
  BY <1>1, <1>2 DEF TypeOK, HeadMapped, MapSound
<1>3. CASE docMap' = Rebuilt(frame)'
  <2>1. docMap' = Rebuilt(frame')
    BY <1>3 DEF Rebuilt
  <2>2. HeadMapped'
    <3>1. \A i, j \in Ids : /\ frame'[i].status = "Active" /\ frame'[j].status = "Active"
                           /\ frame'[i].doc = frame'[j].doc
                           => i = j
      BY <1>1 DEF HeadMapped
    <3> QED
      BY <1>1, <2>1, <3>1, RebuiltHeads DEF HeadMapped
  <2>3. MapSound'
    BY <1>1, <2>1, RebuiltSound DEF MapSound
  <2> QED
    BY <2>2, <2>3
<1> QED
  BY <1>2, <1>3

\* A compaction of any choice of frames, and a flush.
LEMMA CompactTableInv ==
  ASSUME Inv, NEW moved \in SUBSET Ids, NEW done \in BOOLEAN,
         CompactTable(moved, done)
  PROVE  Inv'
<1>1. TypeOK /\ nextId' = nextId
  BY DEF Inv, CompactTable
<1>2. Ids' = Ids /\ Frame' = Frame
  BY <1>1 DEF Ids, Frame
<1>3. /\ TypeOK'
      /\ \A i \in Ids : frame'[i].doc = frame[i].doc /\ frame'[i].status = frame[i].status
      /\ docMap' = docMap \/ docMap' = Rebuilt(frame)'
  BY <1>1, CompactTableSound
<1>4. HeadMapped' /\ MapSound'
  BY <1>2, <1>3, AlikeInv DEF TypeOK
<1> QED
  BY <1>3, <1>4 DEF Inv

\* A table that is read from a file, with the map its frames give.
OneHead == \A i, j \in Ids : /\ frame[i].status = "Active" /\ frame[j].status = "Active"
                            /\ frame[i].doc = frame[j].doc
                            => i = j

LEMMA OneHeadSound == Inv => OneHead
  BY DEF Inv, HeadMapped, OneHead

LEMMA ReadSound ==
  ASSUME nextId \in Nat, frame \in [Ids -> Frame], flushed \in Nat,
         phase = "ready", docMap = Rebuilt(frame), OneHead
  PROVE  Inv
<1>1. TypeOK
  BY RebuiltSound DEF TypeOK
<1>2. HeadMapped
  BY <1>1, RebuiltHeads DEF OneHead, HeadMapped
<1>3. MapSound
  BY RebuiltSound DEF MapSound
<1> QED
  BY <1>1, <1>2, <1>3 DEF Inv

\* Every command keeps the map in step with the statuses.
LEMMA NextInv ==
  ASSUME AdminOnSaved, Inv, Next
  PROVE  HeadMapped' /\ MapSound'
<1>1. /\ TypeOK /\ HeadMapped /\ MapSound
      /\ nextId \in Nat
      /\ frame \in [Ids -> Frame]
      /\ docMap \in [Docs -> Ids \cup {None}]
  BY DEF Inv, TypeOK
<1>2. \A d \in Docs : docMap[d] # None =>
        /\ docMap[d] \in Ids
        /\ frame[docMap[d]].doc = d
        /\ frame[docMap[d]].status # "Deleted"
  BY <1>1 DEF MapSound
<1>3. \A i \in Ids : frame[i].status = "Active" => docMap[frame[i].doc] = i
  BY <1>1 DEF HeadMapped
<1>4. \A i \in Ids : frame[i] \in Frame /\ frame[i].doc \in Docs
  BY <1>1 DEF Frame
<1>5. \A i \in Ids : i # None
  BY <1>1, NoneAssumption DEF Ids
<1>6. ASSUME NEW d \in Docs, Put(d)
      PROVE  HeadMapped' /\ MapSound'
  <2>1. Ids' = Ids \cup {nextId} /\ nextId \notin Ids /\ nextId # None
    BY <1>1, <1>6, NoneAssumption DEF Put, Ids
  <2>2. frame'[nextId] = NewFrame(d) /\ docMap' = [docMap EXCEPT ![d] = nextId]
    BY <1>1, <1>6 DEF Put, Entry
  <2>3. \A i \in Ids : frame'[i] = IF i = docMap[d] THEN Superseded(frame[i])
                                                    ELSE frame[i]
    BY <1>1, <1>6, <2>1 DEF Put, Ids
  <2>4. \A i \in Ids : /\ Superseded(frame[i]).doc = frame[i].doc
                       /\ Superseded(frame[i]).status # "Active"
                       /\ frame[i].status # "Deleted" =>
                            Superseded(frame[i]).status # "Deleted"
    BY <1>4 DEF Superseded, Frame
  <2>5. ASSUME NEW i \in Ids', frame'[i].status = "Active"
        PROVE  docMap'[frame'[i].doc] = i
    <3>1. CASE i = nextId
      BY <1>1, <2>2, <3>1 DEF NewFrame
    <3>2. CASE i \in Ids
      <4>1. i # docMap[d] /\ frame'[i] = frame[i]
        BY <2>3, <2>4, <2>5, <3>2
      <4>2. docMap[frame[i].doc] = i
        BY <1>3, <2>5, <3>2, <4>1
      <4> QED
        BY <1>1, <1>4, <2>2, <3>2, <4>1, <4>2
    <3> QED
      BY <2>1, <3>1, <3>2
  <2>6. ASSUME NEW e \in Docs, docMap'[e] # None
        PROVE  frame'[docMap'[e]].doc = e /\ frame'[docMap'[e]].status # "Deleted"
    <3>1. CASE e = d
      BY <1>1, <2>2, <3>1 DEF NewFrame
    <3>2. CASE e # d
      BY <1>1, <1>2, <2>2, <2>3, <2>4, <2>6, <3>2
    <3> QED
      BY <3>1, <3>2
  <2> QED
    BY <2>5, <2>6 DEF HeadMapped, MapSound
<1>7. ASSUME NEW d \in Docs, Delete(d)
      PROVE  HeadMapped' /\ MapSound'
  <2>1. Ids' = Ids
    BY <1>7 DEF Delete, Ids
  <2>2. \A i \in Ids : /\ frame'[i].doc = frame[i].doc
                       /\ frame'[i].status = IF i = docMap[d] THEN "Tombstone"
                                             ELSE frame[i].status
    BY <1>1, <1>2, <1>4, <1>7 DEF Delete, Frame
  <2>3. docMap' = [docMap EXCEPT ![d] = None]
    BY <1>7 DEF Delete
  <2>4. ASSUME NEW i \in Ids', frame'[i].status = "Active"
        PROVE  docMap'[frame'[i].doc] = i
    <3>1. i \in Ids /\ i # docMap[d] /\ docMap[frame[i].doc] = i
      BY <1>3, <2>1, <2>2, <2>4
    <3> QED
      BY <1>1, <1>4, <2>2, <2>3, <3>1
  <2>5. ASSUME NEW e \in Docs, docMap'[e] # None
        PROVE  frame'[docMap'[e]].doc = e /\ frame'[docMap'[e]].status # "Deleted"
    BY <1>1, <1>2, <2>2, <2>3, <2>5
  <2> QED
    BY <2>4, <2>5 DEF HeadMapped, MapSound
<1>8. ASSUME NEW d \in Docs, Tombstone(d)
      PROVE  HeadMapped' /\ MapSound'
  <2>1. Ids' = Ids /\ docMap' = docMap
    BY <1>8 DEF Tombstone, Ids
  <2>2. \A i \in Ids : /\ frame'[i].doc = frame[i].doc
                       /\ frame'[i].status = IF i = docMap[d] THEN "Tombstone"
                                             ELSE frame[i].status
    BY <1>1, <1>2, <1>4, <1>8 DEF Tombstone, Frame
  <2> QED
    BY <1>2, <1>3, <2>1, <2>2 DEF HeadMapped, MapSound
<1>9. ASSUME NEW d \in Docs, Restore(d)
      PROVE  HeadMapped' /\ MapSound'
  <2> DEFINE best == Newest(Tombstones(d))
  <2>1. best \in Ids /\ frame[best].doc = d /\ frame[best].status = "Tombstone"
    <3>1. Tombstones(d) \in SUBSET Ids /\ Tombstones(d) # {}
      BY <1>9 DEF Restore, Tombstones, Of
    <3>2. best \in Tombstones(d)
      BY <1>1, <3>1, NewestIn
    <3> QED
      BY <3>2 DEF Tombstones, Of
  <2>2. Ids' = Ids
    BY <1>9 DEF Restore, Ids
  <2>3. docMap' = [docMap EXCEPT ![d] = best]
    BY <1>9, <2>1 DEF Restore, AdminReady, Settled
  <2>4. \A i \in Ids :
          /\ frame'[i].doc = frame[i].doc
          /\ i = best => frame'[i].status = "Active"
          /\ i # best /\ i = docMap[d] => frame'[i].status # "Active"
          /\ i # best /\ i # docMap[d] => frame'[i].status = frame[i].status
    BY <1>1, <1>4, <1>9 DEF Restore, Superseded, Frame
  <2> HIDE DEF best
  <2>5. ASSUME NEW i \in Ids', frame'[i].status = "Active"
        PROVE  docMap'[frame'[i].doc] = i
    <3>1. CASE i = best
      BY <1>1, <2>1, <2>3, <2>4, <3>1
    <3>2. CASE i # best
      <4>1. i \in Ids /\ i # docMap[d] /\ docMap[frame[i].doc] = i
        BY <1>3, <2>2, <2>4, <2>5, <3>2
      <4> QED
        BY <1>1, <1>4, <2>3, <2>4, <4>1
    <3> QED
      BY <3>1, <3>2
  <2>6. ASSUME NEW e \in Docs, docMap'[e] # None
        PROVE  frame'[docMap'[e]].doc = e /\ frame'[docMap'[e]].status # "Deleted"
    <3>1. CASE e = d
      BY <1>1, <2>1, <2>3, <2>4, <3>1
    <3>2. CASE e # d
      BY <1>1, <1>2, <2>3, <2>4, <2>6, <3>2
    <3> QED
      BY <3>1, <3>2
  <2> QED
    BY <2>5, <2>6 DEF HeadMapped, MapSound
<1>10. ASSUME NEW d \in Docs, RestorePanics(d)
       PROVE  HeadMapped' /\ MapSound'
  BY <1>1, <1>10 DEF RestorePanics, HeadMapped, MapSound, Ids
<1>11. ASSUME NEW d \in Docs, NEW c \in Cases, AddHold(d, c) \/ ReleaseHold(d, c)
       PROVE  HeadMapped' /\ MapSound'
  <2>1. Ids' = Ids /\ docMap' = docMap
    BY <1>11 DEF AddHold, ReleaseHold, Ids
  <2>2. \A i \in Ids : frame'[i].doc = frame[i].doc /\ frame'[i].status = frame[i].status
    BY <1>4, <1>11 DEF AddHold, ReleaseHold, Frame
  <2> QED
    BY <1>2, <1>3, <2>1, <2>2 DEF HeadMapped, MapSound
<1>12. ASSUME NEW S, Reclaim(S), \A i \in S : i \in Ids => frame[i].status = "Tombstone"
       PROVE  HeadMapped' /\ MapSound'
  <2>1. Ids' = Ids /\ docMap' = docMap
    BY <1>12 DEF Reclaim, Ids
  <2>2. \A i \in Ids : /\ frame'[i].doc = frame[i].doc
                       /\ \/ frame'[i].status = frame[i].status
                          \/ i \in S /\ frame'[i].status = "Deleted"
    BY <1>4, <1>12 DEF Reclaim, Frame
  <2>3. \A d \in Docs : docMap[d] # None => frame[docMap[d]].status = "Active"
    BY <1>12 DEF Reclaim, AdminReady, Settled
  <2> QED
    BY <1>2, <1>3, <1>12, <2>1, <2>2, <2>3 DEF HeadMapped, MapSound
<1>13. CASE Compact
  <2>1. Ids' = Ids /\ Frame' = Frame
    BY <1>1, <1>13, CompactSound DEF Ids, Frame
  <2>2. /\ frame' \in [Ids -> Frame]
        /\ \A i \in Ids : frame'[i].doc = frame[i].doc /\ frame'[i].status = frame[i].status
        /\ docMap' = docMap \/ docMap' = Rebuilt(frame)'
    BY <1>1, <1>13, <2>1, CompactSound DEF TypeOK
  <2> QED
    BY <2>1, <2>2, AlikeInv
<1>14. CASE Flush
  <2>1. Ids' = Ids /\ docMap' = Rebuilt(frame)' /\ frame' = frame
    BY <1>14 DEF Flush, Ids, Rebuilt
  <2> QED
    BY <1>1, <2>1, AlikeInv
<1>15. CASE DropTombstones
  BY <1>12, <1>15 DEF DropTombstones, Tombstones
<1>16. ASSUME NEW n \in KeepCounts, DropTombstonesKeep(n)
       PROVE  HeadMapped' /\ MapSound'
  BY <1>12, <1>16 DEF DropTombstonesKeep, Older, Tombstones
<1>17. ASSUME NEW i \in Ids, MarkFrameDeleted(i)
       PROVE  HeadMapped' /\ MapSound'
  BY <1>12, <1>17 DEF MarkFrameDeleted
<1> QED
  BY <1>6, <1>7, <1>8, <1>9, <1>10, <1>11, <1>13, <1>14, <1>15, <1>16, <1>17 DEF Next

\* No command turns a purged frame back into a version.
LEMMA NextPurged ==
  ASSUME AdminOnSaved, Inv, Next
  PROVE  PurgedStays
<1>1. /\ TypeOK
      /\ nextId \in Nat
      /\ frame \in [Ids -> Frame]
      /\ \A d \in Docs : docMap[d] # None => frame[docMap[d]].status # "Deleted"
  BY DEF Inv, TypeOK, MapSound
<1> SUFFICES ASSUME NEW i \in Ids, frame[i].status = "Deleted"
             PROVE  frame'[i].status = "Deleted"
  BY DEF PurgedStays
<1>2. frame[i] \in Frame
  BY <1>1
<1>3. ASSUME NEW d \in Docs, Put(d)
      PROVE  frame'[i].status = "Deleted"
  <2>1. i \in 0 .. nextId /\ i # nextId
    BY <1>1 DEF Ids
  <2> QED
    BY <1>2, <1>3, <2>1 DEF Put, Superseded
<1>4. ASSUME NEW d \in Docs, Delete(d) \/ Tombstone(d)
      PROVE  frame'[i].status = "Deleted"
  BY <1>1, <1>4 DEF Delete, Tombstone
<1>5. ASSUME NEW d \in Docs, Restore(d) \/ RestorePanics(d)
      PROVE  frame'[i].status = "Deleted"
  <2>1. CASE Restore(d)
    <3>1. Tombstones(d) \in SUBSET Ids /\ Tombstones(d) # {}
      BY <2>1 DEF Restore, Tombstones, Of
    <3>2. i # Newest(Tombstones(d))
      BY <1>1, <3>1, NewestIn DEF Tombstones
    <3> QED
      BY <2>1, <3>2 DEF Restore, Superseded
  <2>2. CASE RestorePanics(d)
    BY <2>2 DEF RestorePanics
  <2> QED
    BY <1>5, <2>1, <2>2
<1>6. ASSUME NEW d \in Docs, NEW c \in Cases, AddHold(d, c) \/ ReleaseHold(d, c)
      PROVE  frame'[i].status = "Deleted"
  BY <1>2, <1>6 DEF AddHold, ReleaseHold, Frame
<1>7. ASSUME NEW S, Reclaim(S)
      PROVE  frame'[i].status = "Deleted"
  BY <1>2, <1>7 DEF Reclaim, Frame
<1>8. CASE Compact
  BY <1>1, <1>8, CompactSound
<1>9. CASE Flush
  BY <1>9 DEF Flush
<1> QED
  BY <1>3, <1>4, <1>5, <1>6, <1>7, <1>8, <1>9
     DEF Next, DropTombstones, DropTombstonesKeep, MarkFrameDeleted

-----------------------------------------------------------------------------
(***************************************************************************)
(* The theorems.                                                           *)
(***************************************************************************)
\* The table stays well-formed, whatever order the library's operations are
\* called in.
THEOREM TypeCorrect == Spec => []TypeOK
<1>1. Init => TypeOK
  BY InitSound
<1>2. TypeOK /\ [Next]_vars => TypeOK'
  <2> SUFFICES ASSUME TypeOK, [Next]_vars
               PROVE  TypeOK'
    OBVIOUS
  <2>1. CASE Next
    BY <2>1, NextType
  <2>2. CASE UNCHANGED vars
    BY <2>2 DEF TypeOK, vars, Ids, Frame
  <2> QED
    BY <2>1, <2>2
<1> QED
  BY <1>1, <1>2, PTL DEF Spec

\* A legal hold keeps a frame from all three retention paths of frames.rs,
\* whatever order the library's operations are called in.
THEOREM HoldsProtect == Spec => HeldNeverReclaimed
<1>1. TypeOK /\ [Next]_vars => [HeldStays]_vars
  BY NextHeld
<1> QED
  BY <1>1, TypeCorrect, PTL DEF Spec, HeldNeverReclaimed

\* With the commands finding a saved store, the inductive invariant holds.
THEOREM InvHolds == ASSUME AdminOnSaved PROVE Spec => []Inv
<1>1. Init => Inv
  BY InitSound DEF Inv
<1>2. Inv /\ [Next]_vars => Inv'
  <2> SUFFICES ASSUME Inv, [Next]_vars
               PROVE  Inv'
    OBVIOUS
  <2>1. CASE Next
    BY <2>1, AdminOnSaved, NextType, NextInv DEF Inv
  <2>2. CASE UNCHANGED vars
    BY <2>2 DEF Inv, TypeOK, HeadMapped, MapSound, vars, Ids, Frame
  <2> QED
    BY <2>1, <2>2
<1> QED
  BY <1>1, <1>2, PTL DEF Spec

\* Then doc_id_map leads from a document to its one Active frame, for as many
\* puts, deletes, restores, purges, compactions and saves as there may be.
THEOREM HeadsMapped == ASSUME AdminOnSaved PROVE Spec => []HeadMapped
<1>1. Inv => HeadMapped
  BY DEF Inv
<1> QED
  BY <1>1, InvHolds, AdminOnSaved, PTL

\* And it never leads to a purged frame or to another document's.
THEOREM MapsSound == ASSUME AdminOnSaved PROVE Spec => []MapSound
<1>1. Inv => MapSound
  BY DEF Inv
<1> QED
  BY <1>1, InvHolds, AdminOnSaved, PTL

\* And what has been purged is never offered for recovery again.
THEOREM PurgesFinal == ASSUME AdminOnSaved PROVE Spec => DeletedIsFinal
<1>1. Inv /\ [Next]_vars => [PurgedStays]_vars
  BY AdminOnSaved, NextPurged
<1> QED
  BY <1>1, InvHolds, AdminOnSaved, PTL DEF Spec, DeletedIsFinal

-----------------------------------------------------------------------------
(***************************************************************************)
(* FrameStore implements VersionStore: every operation of the frame table  *)
(* is an operation on versions, or changes none.  The argument reads the   *)
(* current version of a document off the statuses alone (HeadSound), so a  *)
(* step need only say what it does to a frame's document, status and       *)
(* holds; reordering frames and rebuilding the map then change nothing.    *)
(***************************************************************************)
\* The current version is the Active frame of the document.
HeadSound ==
  \A d \in Docs : /\ Head(d) \in Ids \cup {None}
                  /\ \A i \in Ids : Head(d) = i <=> /\ frame[i].doc = d
                                                  /\ frame[i].status = "Active"

LEMMA HeadIsActive == Inv => HeadSound
<1> SUFFICES ASSUME Inv, NEW d \in Docs
             PROVE  /\ Head(d) \in Ids \cup {None}
                    /\ \A i \in Ids : Head(d) = i <=> /\ frame[i].doc = d
                                                    /\ frame[i].status = "Active"
  BY DEF HeadSound
<1>1. docMap[d] \in Ids \cup {None}
  BY DEF Inv, TypeOK
<1>2. \A i \in Ids : i # None
  BY NoneAssumption DEF Inv, TypeOK, Ids
<1>3. docMap[d] # None => frame[docMap[d]].doc = d
  BY DEF Inv, MapSound
<1>4. \A i \in Ids : frame[i].status = "Active" => docMap[frame[i].doc] = i
  BY DEF Inv, HeadMapped
<1> QED
  BY <1>1, <1>2, <1>3, <1>4 DEF Head

-----------------------------------------------------------------------------
(***************************************************************************)
(* The versions of a document, and the holds, from the frames.             *)
(***************************************************************************)
HeldPairs == {p \in Undeleted \X Cases : p[2] \in frame[p[1]].holds}

\* A version is a frame that is not Deleted.
LEMMA LineageIsUndeleted ==
  ASSUME Inv, NEW d \in Docs
  PROVE  Versions!Lineage(d) = {i \in Undeleted : frame[i].doc = d}
<1>1. HeadSound
  BY HeadIsActive
<1>2. \A i \in Ids : frame[i].status \in Status
  BY DEF Inv, TypeOK, Frame
<1>3. \A i \in Ids : i # None
  BY NoneAssumption DEF Inv, TypeOK, Ids
<1>4. Versions!Lineage(d) = Tombstones(d) \cup ({Head(d)} \ {None})
  BY DEF Versions!Lineage, Versions!Current
<1> QED
  BY <1>1, <1>2, <1>3, <1>4 DEF HeadSound, Tombstones, Of, Undeleted, Status

\* What a step does to the versions follows from what it does to each frame.
LEMMA HeadSoundNext == Inv' => HeadSound'
BY HeadIsActive, PTL

\* A step that leaves document, status and holds of every frame alone
\* changes no version.
LEMMA FramesAlike ==
  ASSUME Inv, Inv', nextId' = nextId,
         \A i \in Ids : /\ frame'[i].doc = frame[i].doc
                       /\ frame'[i].status = frame[i].status
                       /\ frame'[i].holds = frame[i].holds
  PROVE  UNCHANGED Versions!vars
<1>1. Ids' = Ids
  BY DEF Ids
<1>2. HeadSound /\ HeadSound'
  BY HeadIsActive, HeadSoundNext
<1>3. \A d \in Docs : Tombstones(d)' = Tombstones(d)
  BY <1>1 DEF Tombstones, Of
<1>4. \A d \in Docs : Head(d)' = Head(d)
  BY <1>1, <1>2 DEF HeadSound
<1>5. HeldPairs' = HeldPairs
  BY <1>1 DEF HeldPairs, Undeleted
<1>6. UNCHANGED [d \in Docs |-> Head(d)]
  BY <1>4
<1>7. UNCHANGED [d \in Docs |-> Tombstones(d)]
  BY <1>3
<1> QED
  BY <1>5, <1>6, <1>7 DEF Versions!vars, HeldPairs

-----------------------------------------------------------------------------
(***************************************************************************)
(* The operations.                                                         *)
(***************************************************************************)
LEMMA PutWrites ==
  ASSUME Inv, Inv', NEW d \in Docs, Put(d)
  PROVE  Versions!Write(d)
<1>1. /\ nextId \in Nat /\ frame \in [Ids -> Frame]
      /\ docMap \in [Docs -> Ids \cup {None}]
  BY DEF Inv, TypeOK
<1>2. HeadSound /\ HeadSound'
  BY HeadIsActive, HeadSoundNext
<1>3. Ids' = Ids \cup {nextId} /\ nextId \notin Ids /\ nextId # None
  BY <1>1, NoneAssumption DEF Put, Ids
<1>4. frame'[nextId] = NewFrame(d)
  BY <1>1 DEF Put
<1>5. ASSUME NEW i \in Ids
      PROVE  /\ frame'[i].doc = frame[i].doc
             /\ frame'[i].holds = frame[i].holds
             /\ frame'[i].status = IF i = Head(d) THEN "Tombstone"
                                   ELSE frame[i].status
  <2>1. frame'[i] = IF i = docMap[d] THEN Superseded(frame[i]) ELSE frame[i]
    BY <1>3 DEF Put, Ids
  <2>2. i = Head(d) <=> i = docMap[d] /\ frame[i].status = "Active"
    BY <1>1, NoneAssumption DEF Head, Ids
  <2> QED
    BY <1>1, <2>1, <2>2 DEF Superseded, Frame
<1>6. \A i \in Ids' : i # None
  BY <1>1, <1>3, NoneAssumption DEF Ids
<1>7. \A e \in Docs : Head(e)' = IF e = d THEN nextId ELSE Head(e)
  <2>1. Head(d)' = nextId
    BY <1>2, <1>3, <1>4 DEF HeadSound, NewFrame
  <2>2. ASSUME NEW e \in Docs, e # d
        PROVE  Head(e)' = Head(e)
    <3>1. \A i \in Ids' : Head(e)' = i <=> i \in Ids /\ Head(e) = i
      BY <1>2, <1>3, <1>4, <1>5, <2>2 DEF HeadSound, NewFrame
    <3>2. Head(e)' \in Ids' \cup {None} /\ Head(e) \in Ids \cup {None}
      BY <1>2 DEF HeadSound
    <3> QED
      BY <1>3, <3>1, <3>2
  <2> QED
    BY <2>1, <2>2
<1>8. \A e \in Docs : Tombstones(e)' = IF e = d THEN Tombstones(d) \cup ({Head(d)} \ {None})
                                       ELSE Tombstones(e)
  <2>1. ASSUME NEW e \in Docs
        PROVE  Tombstones(e)' = {i \in Ids : /\ frame[i].doc = e
                                            /\ \/ frame[i].status = "Tombstone"
                                               \/ i = Head(d)}
    BY <1>3, <1>4, <1>5 DEF Tombstones, Of, NewFrame
  <2>2. Head(d) \in Ids => frame[Head(d)].doc = d
    BY <1>2 DEF HeadSound
  <2>3. Head(d) \in Ids \cup {None}
    BY <1>2 DEF HeadSound
  <2> QED
    BY <1>3, <1>6, <2>1, <2>2, <2>3 DEF Tombstones, Of
<1>9. HeldPairs' = HeldPairs
  <2>1. Undeleted' = Undeleted \cup {nextId}
    <3>1. \A i \in Ids : frame'[i].status # "Deleted" <=> frame[i].status # "Deleted"
      BY <1>2, <1>5 DEF HeadSound
    <3> QED
      BY <1>3, <1>4, <3>1 DEF Undeleted, NewFrame
  <2>2. frame'[nextId].holds = {}
    BY <1>4 DEF NewFrame
  <2>3. Undeleted \subseteq Ids
    BY DEF Undeleted
  <2> QED
    BY <1>5, <2>1, <2>2, <2>3 DEF HeldPairs
<1>10. [e \in Docs |-> Head(e)]' = [[e \in Docs |-> Head(e)] EXCEPT ![d] = nextId]
  BY <1>7
<1>11. [e \in Docs |-> Tombstones(e)]' =
         [[e \in Docs |-> Tombstones(e)] EXCEPT ![d] = Tombstones(d) \cup ({Head(d)} \ {None})]
  BY <1>8
<1> QED
  BY <1>9, <1>10, <1>11
     DEF Put, Versions!Write, Versions!Lineage, Versions!Current, HeldPairs

\* A step that turns the head of d into history, and does nothing else to
\* any frame, forgets d.
LEMMA HeadForgotten ==
  ASSUME Inv, Inv', nextId' = nextId, NEW d \in Docs, Head(d) # None,
         \A i \in Ids : /\ frame'[i].doc = frame[i].doc
                       /\ frame'[i].holds = frame[i].holds
                       /\ frame'[i].status = IF i = Head(d) THEN "Tombstone"
                                             ELSE frame[i].status
  PROVE  Versions!Forget(d)
<1>1. Ids' = Ids
  BY DEF Ids
<1>2. HeadSound /\ HeadSound'
  BY HeadIsActive, HeadSoundNext
<1>3. \A i \in Ids : i # None
  BY NoneAssumption DEF Inv, TypeOK, Ids
<1>4. Head(d) \in Ids /\ frame[Head(d)].doc = d
  BY <1>2 DEF HeadSound
<1>5. \A e \in Docs : Head(e)' = IF e = d THEN None ELSE Head(e)
  <2>1. ASSUME NEW e \in Docs
        PROVE  \A i \in Ids : Head(e)' = i <=> e # d /\ Head(e) = i
    BY <1>1, <1>2, <1>4 DEF HeadSound
  <2>2. ASSUME NEW e \in Docs
        PROVE  Head(e)' \in Ids \cup {None} /\ Head(e) \in Ids \cup {None}
    BY <1>1, <1>2 DEF HeadSound
  <2> QED
    BY <2>1, <2>2
<1>6. \A e \in Docs : Tombstones(e)' = IF e = d THEN Tombstones(d) \cup ({Head(d)} \ {None})
                                       ELSE Tombstones(e)
  BY <1>1, <1>3, <1>4 DEF Tombstones, Of
<1>7. HeldPairs' = HeldPairs
  <2>1. \A i \in Ids : frame'[i].status # "Deleted" <=> frame[i].status # "Deleted"
    BY <1>2, <1>4 DEF HeadSound
  <2>2. Undeleted' = Undeleted /\ Undeleted \subseteq Ids
    BY <1>1, <2>1 DEF Undeleted
  <2> QED
    BY <2>2 DEF HeldPairs
<1>8. [e \in Docs |-> Head(e)]' = [[e \in Docs |-> Head(e)] EXCEPT ![d] = None]
  BY <1>5
<1>9. [e \in Docs |-> Tombstones(e)]' =
        [[e \in Docs |-> Tombstones(e)] EXCEPT ![d] = Tombstones(d) \cup ({Head(d)} \ {None})]
  BY <1>6
<1> QED
  BY <1>7, <1>8, <1>9
     DEF Versions!Forget, Versions!Lineage, Versions!Current, HeldPairs

\* delete() of a document whose source is gone already changes no version.
LEMMA DeleteForgets ==
  ASSUME Inv, Inv', NEW d \in Docs, Delete(d) \/ Tombstone(d)
  PROVE  Versions!Forget(d) \/ UNCHANGED Versions!vars
<1>1. /\ frame \in [Ids -> Frame]
      /\ docMap \in [Docs -> Ids \cup {None}]
      /\ \A i \in Ids : i # None
  BY NoneAssumption DEF Inv, TypeOK, Ids
<1>2. /\ docMap[d] \in Ids
      /\ nextId' = nextId
      /\ frame' = [frame EXCEPT ![docMap[d]].status = "Tombstone"]
  BY <1>1 DEF Delete, Tombstone
<1>3. \A i \in Ids : /\ frame'[i].doc = frame[i].doc
                    /\ frame'[i].holds = frame[i].holds
                    /\ frame'[i].status = IF i = docMap[d] THEN "Tombstone"
                                          ELSE frame[i].status
  BY <1>1, <1>2 DEF Frame
<1>4. CASE Head(d) # None
  <2>1. Head(d) = docMap[d]
    BY <1>4 DEF Head
  <2> QED
    BY <1>2, <1>3, <1>4, <2>1, HeadForgotten
<1>5. CASE Head(d) = None
  <2>1. frame[docMap[d]].status # "Active" /\ frame[docMap[d]].status # "Deleted"
    BY <1>1, <1>2, <1>5 DEF Head, Inv, MapSound
  <2>2. frame[docMap[d]].status = "Tombstone"
    BY <1>1, <1>2, <2>1 DEF Frame, Status
  <2> QED
    BY <1>2, <1>3, <2>2, FramesAlike
<1> QED
  BY <1>4, <1>5

LEMMA RestoreRestores ==
  ASSUME AdminOnSaved, Inv, Inv', NEW d \in Docs, Restore(d)
  PROVE  Versions!Restore(d)
<1> DEFINE best == Newest(Tombstones(d))
<1>1. /\ nextId \in Nat /\ frame \in [Ids -> Frame]
      /\ docMap \in [Docs -> Ids \cup {None}]
      /\ \A i \in Ids : i # None
  BY NoneAssumption DEF Inv, TypeOK, Ids
<1>2. HeadSound /\ HeadSound'
  BY HeadIsActive, HeadSoundNext
<1>3. /\ Ids' = Ids
      /\ Tombstones(d) \in SUBSET Ids
      /\ Tombstones(d) # {}
  BY DEF Restore, Ids, Tombstones, Of
<1>4. /\ best \in Tombstones(d)
      /\ \A j \in Tombstones(d) : j <= best
  BY <1>1, <1>3, NewestIn
<1>5. best \in Ids /\ frame[best].doc = d /\ frame[best].status = "Tombstone"
  BY <1>4 DEF Tombstones, Of
<1>6. ASSUME NEW i \in Ids
      PROVE  /\ frame'[i].doc = frame[i].doc
             /\ frame'[i].holds = frame[i].holds
             /\ frame'[i].status = IF i = best THEN "Active"
                                   ELSE IF i = Head(d) THEN "Tombstone"
                                   ELSE frame[i].status
  <2>1. frame'[i] = IF i = best THEN [frame[i] EXCEPT !.status = "Active"]
                    ELSE IF i = docMap[d] THEN Superseded(frame[i])
                    ELSE frame[i]
    BY <1>1 DEF Restore
  <2>2. i = Head(d) <=> i = docMap[d] /\ frame[i].status = "Active"
    BY <1>1 DEF Head
  <2> QED
    BY <1>1, <2>1, <2>2 DEF Superseded, Frame
<1> HIDE DEF best
<1>7. Head(d) \in Ids \cup {None} /\ (Head(d) \in Ids => frame[Head(d)].doc = d)
  BY <1>2 DEF HeadSound
<1>8. best # Head(d)
  BY <1>2, <1>5 DEF HeadSound
<1>9. \A e \in Docs : Head(e)' = IF e = d THEN best ELSE Head(e)
  <2>1. Head(d)' = best
    BY <1>2, <1>3, <1>5, <1>6 DEF HeadSound
  <2>2. ASSUME NEW e \in Docs, e # d
        PROVE  Head(e)' = Head(e)
    <3>1. \A i \in Ids : Head(e)' = i <=> Head(e) = i
      BY <1>2, <1>3, <1>5, <1>6, <1>7, <2>2 DEF HeadSound
    <3>2. Head(e)' \in Ids \cup {None} /\ Head(e) \in Ids \cup {None}
      BY <1>2, <1>3 DEF HeadSound
    <3> QED
      BY <3>1, <3>2
  <2> QED
    BY <2>1, <2>2
<1>10. \A e \in Docs : Tombstones(e)' =
         IF e = d THEN (Tombstones(d) \cup ({Head(d)} \ {None})) \ {best}
         ELSE Tombstones(e)
  BY <1>1, <1>3, <1>5, <1>6, <1>7, <1>8 DEF Tombstones, Of
<1>11. HeldPairs' = HeldPairs
  <2>1. \A i \in Ids : frame'[i].status # "Deleted" <=> frame[i].status # "Deleted"
    BY <1>2, <1>5, <1>6 DEF HeadSound
  <2>2. Undeleted' = Undeleted /\ Undeleted \subseteq Ids
    BY <1>3, <2>1 DEF Undeleted
  <2> QED
    BY <1>6, <2>2 DEF HeldPairs
<1>12. [e \in Docs |-> Head(e)]' = [[e \in Docs |-> Head(e)] EXCEPT ![d] = best]
  BY <1>9
<1>13. [e \in Docs |-> Tombstones(e)]' =
         [[e \in Docs |-> Tombstones(e)] EXCEPT
            ![d] = (Tombstones(d) \cup ({Head(d)} \ {None})) \ {best}]
  BY <1>10
<1>14. nextId' = nextId
  BY DEF Restore
<1> QED
  BY <1>4, <1>11, <1>12, <1>13, <1>14
     DEF Versions!Restore, Versions!Lineage, Versions!Current, HeldPairs

\* Steps that leave every document and status alone leave the versions alone.
LEMMA VersionsAlike ==
  ASSUME Inv, Inv', nextId' = nextId,
         \A i \in Ids : /\ frame'[i].doc = frame[i].doc
                       /\ frame'[i].status = frame[i].status
  PROVE  /\ Ids' = Ids /\ Undeleted' = Undeleted
         /\ UNCHANGED [d \in Docs |-> Head(d)]
         /\ UNCHANGED [d \in Docs |-> Tombstones(d)]
<1>1. Ids' = Ids
  BY DEF Ids
<1>2. HeadSound /\ HeadSound'
  BY HeadIsActive, HeadSoundNext
<1>3. \A d \in Docs : Tombstones(d)' = Tombstones(d)
  BY <1>1 DEF Tombstones, Of
<1>4. \A d \in Docs : Head(d)' = Head(d)
  BY <1>1, <1>2 DEF HeadSound
<1>5. Undeleted' = Undeleted
  BY <1>1 DEF Undeleted
<1> QED
  BY <1>1, <1>3, <1>4, <1>5

\* Sets of pairs are equal that have the same pairs.
LEMMA PairsEqual ==
  ASSUME NEW U, NEW V, NEW A \in SUBSET (U \X V), NEW B \in SUBSET (U \X V),
         \A u \in U, v \in V : <<u, v>> \in A <=> <<u, v>> \in B
  PROVE  A = B
<1>1. \A p \in U \X V : p = <<p[1], p[2]>> /\ p[1] \in U /\ p[2] \in V
  OBVIOUS
<1>2. \A p \in U \X V : p \in A <=> p \in B
  BY <1>1
<1> QED
  BY <1>2

LEMMA AddHoldHolds ==
  ASSUME Inv, Inv', NEW d \in Docs, NEW c \in Cases, AddHold(d, c)
  PROVE  Versions!Hold(d, c)
<1>1. frame \in [Ids -> Frame]
  BY DEF Inv, TypeOK
<1>2. /\ nextId' = nextId
      /\ \A i \in Ids : /\ frame'[i].doc = frame[i].doc
                        /\ frame'[i].status = frame[i].status
                        /\ frame'[i].holds = IF frame[i].doc = d
                                             THEN frame[i].holds \cup {c}
                                             ELSE frame[i].holds
  BY <1>1 DEF AddHold, Frame, Of
<1>3. /\ Undeleted' = Undeleted /\ Undeleted \subseteq Ids
      /\ UNCHANGED [e \in Docs |-> Head(e)]
      /\ UNCHANGED [e \in Docs |-> Tombstones(e)]
  BY <1>2, VersionsAlike DEF Undeleted
<1>4. Versions!Lineage(d) = {i \in Undeleted : frame[i].doc = d}
  BY LineageIsUndeleted
<1>5. HeldPairs' = HeldPairs \cup (Versions!Lineage(d) \X {c})
  <2> DEFINE Target == HeldPairs \cup (Versions!Lineage(d) \X {c})
  <2>1. /\ HeldPairs' \in SUBSET (Undeleted \X Cases)
        /\ HeldPairs \in SUBSET (Undeleted \X Cases)
    BY <1>3 DEF HeldPairs
  <2>2. Target \in SUBSET (Undeleted \X Cases)
    BY <1>4, <2>1
  <2>3. ASSUME NEW i \in Undeleted, NEW x \in Cases
        PROVE  <<i, x>> \in HeldPairs' <=> <<i, x>> \in Target
    <3>1. <<i, x>> \in HeldPairs' <=> x \in frame'[i].holds
      BY <1>3 DEF HeldPairs
    <3>2. <<i, x>> \in HeldPairs <=> x \in frame[i].holds
      BY DEF HeldPairs
    <3>3. <<i, x>> \in Versions!Lineage(d) \X {c} <=> frame[i].doc = d /\ x = c
      BY <1>4
    <3> QED
      BY <1>2, <1>3, <3>1, <3>2, <3>3
  <2>4. HeldPairs' = Target
    <3> HIDE DEF Target
    <3> QED
      BY ONLY <2>1, <2>2, <2>3, PairsEqual
  <2> QED
    BY <2>4
<1> QED
  BY <1>2, <1>3, <1>5 DEF Versions!Hold, HeldPairs

LEMMA ReleaseHoldReleases ==
  ASSUME Inv, Inv', NEW d \in Docs, NEW c \in Cases, ReleaseHold(d, c)
  PROVE  Versions!Release(d, c)
<1>1. frame \in [Ids -> Frame]
  BY DEF Inv, TypeOK
<1>2. /\ nextId' = nextId
      /\ \A i \in Ids : /\ frame'[i].doc = frame[i].doc
                        /\ frame'[i].status = frame[i].status
                        /\ frame'[i].holds = IF frame[i].doc = d
                                             THEN frame[i].holds \ {c}
                                             ELSE frame[i].holds
  BY <1>1 DEF ReleaseHold, Frame, Of
<1>3. /\ Undeleted' = Undeleted /\ Undeleted \subseteq Ids
      /\ UNCHANGED [e \in Docs |-> Head(e)]
      /\ UNCHANGED [e \in Docs |-> Tombstones(e)]
  BY <1>2, VersionsAlike DEF Undeleted
<1>4. Versions!Lineage(d) = {i \in Undeleted : frame[i].doc = d}
  BY LineageIsUndeleted
<1>5. HeldPairs' = HeldPairs \ (Versions!Lineage(d) \X {c})
  <2> DEFINE Target == HeldPairs \ (Versions!Lineage(d) \X {c})
  <2>1. /\ HeldPairs' \in SUBSET (Undeleted \X Cases)
        /\ HeldPairs \in SUBSET (Undeleted \X Cases)
    BY <1>3 DEF HeldPairs
  <2>2. Target \in SUBSET (Undeleted \X Cases)
    BY <1>4, <2>1
  <2>3. ASSUME NEW i \in Undeleted, NEW x \in Cases
        PROVE  <<i, x>> \in HeldPairs' <=> <<i, x>> \in Target
    <3>1. <<i, x>> \in HeldPairs' <=> x \in frame'[i].holds
      BY <1>3 DEF HeldPairs
    <3>2. <<i, x>> \in HeldPairs <=> x \in frame[i].holds
      BY DEF HeldPairs
    <3>3. <<i, x>> \in Versions!Lineage(d) \X {c} <=> frame[i].doc = d /\ x = c
      BY <1>4
    <3> QED
      BY <1>2, <1>3, <3>1, <3>2, <3>3
  <2>4. HeldPairs' = Target
    <3> HIDE DEF Target
    <3> QED
      BY ONLY <2>1, <2>2, <2>3, PairsEqual
  <2> QED
    BY <2>4
<1> QED
  BY <1>2, <1>3, <1>5 DEF Versions!Release, HeldPairs

\* The three retention paths only take history away, and no held version.
LEMMA ReclaimPurges ==
  ASSUME Inv, Inv', NEW S, Reclaim(S),
         \A i \in S : i \in Ids => frame[i].status = "Tombstone"
  PROVE  Versions!Purge
<1>1. /\ frame \in [Ids -> Frame]
      /\ Ids' = Ids /\ nextId' = nextId
  BY DEF Inv, TypeOK, Reclaim, Ids
<1>2. ASSUME NEW i \in Ids
      PROVE  /\ frame'[i].doc = frame[i].doc
             /\ frame'[i].holds = frame[i].holds
             /\ frame'[i].status = IF i \in S /\ frame[i].holds = {}
                                   THEN "Deleted" ELSE frame[i].status
  BY <1>1 DEF Reclaim, Held, Frame
<1>3. HeadSound /\ HeadSound'
  BY HeadIsActive, HeadSoundNext
<1>4. UNCHANGED [e \in Docs |-> Head(e)]
  <2>1. \A i \in Ids : frame'[i].status = "Active" <=> frame[i].status = "Active"
    BY <1>2
  <2>2. \A e \in Docs : Head(e)' = Head(e)
    BY <1>1, <1>2, <1>3, <2>1 DEF HeadSound
  <2> QED
    BY <2>2
<1>5. \A e \in Docs : Tombstones(e)' \subseteq Tombstones(e)
  BY <1>1, <1>2 DEF Tombstones, Of
<1>6. \A e \in Docs : \A v \in Tombstones(e) \ Tombstones(e)' : frame[v].holds = {}
  BY <1>1, <1>2 DEF Tombstones, Of
<1>7. HeldPairs' = HeldPairs
  BY <1>1, <1>2 DEF HeldPairs, Undeleted
<1>8. \A e \in Docs : \A v \in Tombstones(e) \ Tombstones(e)', c \in Cases :
        <<v, c>> \notin HeldPairs
  BY <1>6 DEF HeldPairs
<1> QED
  BY <1>1, <1>4, <1>5, <1>7, <1>8 DEF Versions!Purge, HeldPairs

-----------------------------------------------------------------------------
(***************************************************************************)
(* Every step maps to a step or a stutter.                                 *)
(***************************************************************************)
LEMMA StepMaps ==
  ASSUME AdminOnSaved, Inv, Inv', [Next]_vars
  PROVE  [Versions!Next]_(Versions!vars)
<1>1. ASSUME NEW d \in Docs, Put(d)
      PROVE  Versions!Next
  BY <1>1, PutWrites DEF Versions!Next
<1>2. ASSUME NEW d \in Docs, Delete(d) \/ Tombstone(d)
      PROVE  [Versions!Next]_(Versions!vars)
  BY <1>2, DeleteForgets DEF Versions!Next
<1>3. ASSUME NEW d \in Docs, Restore(d)
      PROVE  Versions!Next
  BY <1>3, AdminOnSaved, RestoreRestores DEF Versions!Next
<1>4. ASSUME NEW d \in Docs, RestorePanics(d)
      PROVE  UNCHANGED Versions!vars
  BY <1>4, FramesAlike DEF RestorePanics
<1>5. ASSUME NEW d \in Docs, NEW c \in Cases, AddHold(d, c) \/ ReleaseHold(d, c)
      PROVE  Versions!Next
  BY <1>5, AddHoldHolds, ReleaseHoldReleases DEF Versions!Next
<1>6. ASSUME NEW S, Reclaim(S), \A i \in S : i \in Ids => frame[i].status = "Tombstone"
      PROVE  Versions!Next
  BY <1>6, ReclaimPurges DEF Versions!Next
<1>7. CASE DropTombstones
  BY <1>6, <1>7 DEF DropTombstones, Tombstones
<1>8. ASSUME NEW n \in KeepCounts, DropTombstonesKeep(n)
      PROVE  Versions!Next
  BY <1>6, <1>8 DEF DropTombstonesKeep, Older, Tombstones
<1>9. ASSUME NEW i \in Ids, MarkFrameDeleted(i)
      PROVE  Versions!Next
  BY <1>6, <1>9, AdminOnSaved DEF MarkFrameDeleted
<1>10. CASE Compact
  BY <1>10, CompactSound, FramesAlike DEF Inv
<1>11. CASE Flush
  BY <1>11, FramesAlike DEF Flush
<1>12. CASE UNCHANGED vars
  BY <1>12, FramesAlike DEF vars
<1> QED
  BY <1>1, <1>2, <1>3, <1>4, <1>5, <1>7, <1>8, <1>9, <1>10, <1>11, <1>12 DEF Next

LEMMA InitMaps ==
  ASSUME Init
  PROVE  Versions!Init
<1>1. Ids = {}
  BY DEF Init, Ids
<1>2. \A d \in Docs : Head(d) = None /\ Tombstones(d) = {}
  BY <1>1 DEF Init, Head, Tombstones, Of
<1>3. HeldPairs = {}
  BY <1>1 DEF HeldPairs, Undeleted
<1> QED
  BY <1>2, <1>3 DEF Init, Versions!Init, HeldPairs

\* With the commands finding a saved store, the frame table implements the
\* store of versions: no version is lost or revived by put, delete, restore,
\* retention, compaction or save, for any number of documents and frames.
THEOREM VersionsImplemented == ASSUME AdminOnSaved PROVE Spec => ImplementsVersions
<1>1. Init => Versions!Init
  BY InitMaps
<1>2. Inv /\ Inv' /\ [Next]_vars => [Versions!Next]_(Versions!vars)
  BY AdminOnSaved, StepMaps
<1> QED
  BY <1>1, <1>2, InvHolds, AdminOnSaved, PTL
     DEF Spec, Versions!Spec, ImplementsVersions
=============================================================================
