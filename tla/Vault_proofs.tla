---------------------------- MODULE Vault_proofs ----------------------------
(***************************************************************************)
(* What Vault promises for any documents, however they share their parts,  *)
(* any rules and a log of any length: its invariants and the refinement of *)
(* VaultContract.                                                          *)
(*                                                                         *)
(* A process that ends goes on from what was saved, so nothing about the   *)
(* vault is inductive unless the same is said of `saved`.  That is IInv:   *)
(* both are well formed, complete and registered.                          *)
(***************************************************************************)
EXTENDS Vault, TLAPS

\* What has the types of the vault's seven parts.
WellFormed(m, a, h, o, r, c, l) ==
  /\ m \in [Docs -> Tier \cup {None}]
  /\ a \subseteq Parts /\ h \subseteq Parts
  /\ o \subseteq Docs
  /\ r \in [Docs -> Rule \cup {None}]
  /\ c \in [Docs -> Certificate \cup {None}]
  /\ l \in Seq(Event) /\ Len(l) <= MaxEvents

\* A document that is there has its parts, a part that is there has its
\* document, and so has an original.
Complete(m, a, o) ==
  /\ \A d \in Docs : m[d] # None => PartsOf[d] \subseteq a
  /\ a \subseteq UNION {PartsOf[d] : d \in {e \in Docs : m[e] # None}}
  /\ o = {d \in Docs : m[d] = "legal"}

\* The last a log has of a document that went is its certified erasure.
MentionsIn(l, d) == {e \in 1 .. Len(l) : l[e].doc = d}
Registered(m, c, l) ==
  \A d \in Docs : m[d] = None =>
    \A e \in MentionsIn(l, d) : (\A f \in MentionsIn(l, d) : f <= e) =>
      l[e].what = "delete" /\ c[d] = l[e].seal

AllWell(m, a, h, o, r, c, l) ==
  WellFormed(m, a, h, o, r, c, l) /\ Complete(m, a, o) /\ Registered(m, c, l)

Here == AllWell(manifest, active, history, original, record, cert, log)
OnDisk == AllWell(saved[1], saved[2], saved[3], saved[4], saved[5], saved[6], saved[7])

IInv == Here /\ OnDisk /\ now \in 0 .. MaxTime

-----------------------------------------------------------------------------
(***************************************************************************)
(* Lemmas.                                                                 *)
(***************************************************************************)
\* The vault starts empty and saved.
LEMMA InitWell ==
  ASSUME Init PROVE IInv
<1>1. WellFormed(manifest, active, history, original, record, cert, log)
  BY BoundAssumption DEF Init, WellFormed
<1>2. Complete(manifest, active, original)
  BY NoneAssumption DEF Init, Complete
<1>3. Registered(manifest, cert, log)
  BY DEF Init, Registered, MentionsIn
<1>4. Here
  BY <1>1, <1>2, <1>3 DEF Here, AllWell
<1>5. OnDisk
  BY <1>4 DEF Init, OnDisk, Here, contents
<1> QED
  BY <1>4, <1>5, BoundAssumption DEF Init, IInv

\* One more event keeps a register true, if what it is about either is there
\* or was erased under the seal of the event.
LEMMA OneMoreEvent ==
  ASSUME NEW l \in Seq(Event), NEW ev \in Event,
         NEW m, NEW c, Registered(m, c, l), NEW m2, NEW c2,
         \A e \in Docs \ {ev.doc} : m2[e] = None => m[e] = None /\ c2[e] = c[e],
         m2[ev.doc] = None => ev.what = "delete" /\ c2[ev.doc] = ev.seal
  PROVE  Registered(m2, c2, Append(l, ev))
<1> DEFINE k == Append(l, ev)
<1>1. Len(k) = Len(l) + 1 /\ k[Len(l) + 1] = ev /\ \A i \in 1 .. Len(l) : k[i] = l[i]
  OBVIOUS
<1>2. Len(l) \in Nat
  OBVIOUS
<1> SUFFICES ASSUME NEW d \in Docs, m2[d] = None,
                    NEW e \in MentionsIn(k, d), \A f \in MentionsIn(k, d) : f <= e
             PROVE  k[e].what = "delete" /\ c2[d] = k[e].seal
  BY DEF Registered
<1>3. CASE d = ev.doc
  <2>1. Len(l) + 1 \in MentionsIn(k, d)
    BY <1>1, <1>2, <1>3 DEF MentionsIn
  <2>2. e = Len(l) + 1
    BY <1>1, <1>2, <2>1 DEF MentionsIn
  <2> QED
    BY <1>1, <1>3, <2>2
<1>4. CASE d # ev.doc
  <2>1. MentionsIn(k, d) = MentionsIn(l, d)
    BY <1>1, <1>2, <1>4 DEF MentionsIn
  <2>2. l[e].what = "delete" /\ c[d] = l[e].seal
    BY <1>4, <2>1 DEF Registered
  <2> QED
    BY <1>1, <1>4, <2>1, <2>2 DEF MentionsIn
<1> QED
  BY <1>3, <1>4

\* A document that is taken in brings its parts, and a legal one its original.
LEMMA StoreComplete ==
  ASSUME IInv, NEW d \in Docs, NEW tier \in Tier, StoreDocument(d, tier)
  PROVE  /\ WellFormed(manifest', active', history', original', record', cert', log)
         /\ Complete(manifest', active', original')
         /\ \A e \in Docs : manifest'[e] = None => e # d /\ manifest[e] = None
<1>1. WellFormed(manifest, active, history, original, record, cert, log)
  BY DEF IInv, Here, AllWell
<1>2. Complete(manifest, active, original)
  BY DEF IInv, Here, AllWell
<1>3. None \notin Tier
  BY NoneAssumption DEF Tier
<1>4. manifest' = [manifest EXCEPT ![d] = tier] /\ manifest[d] = None
  BY DEF StoreDocument
<1>5. \A e \in Docs : manifest'[e] = IF e = d THEN tier ELSE manifest[e]
  BY <1>1, <1>4 DEF WellFormed
<1>6. manifest' \in [Docs -> Tier \cup {None}]
  BY <1>1, <1>4 DEF WellFormed
<1>7. active' = active \cup PartsOf[d] /\ PartsOf[d] \subseteq Parts
  BY PartsAssumption DEF StoreDocument
<1>8. original' = {e \in Docs : manifest'[e] = "legal"}
  BY <1>2, <1>3, <1>4, <1>5 DEF StoreDocument, Complete, Tier
<1>9. \A e \in Docs : manifest'[e] # None => PartsOf[e] \subseteq active'
  BY <1>2, <1>5, <1>7 DEF Complete
<1>10. active' \subseteq UNION {PartsOf[e] : e \in {f \in Docs : manifest'[f] # None}}
  BY <1>2, <1>3, <1>4, <1>5, <1>7 DEF Complete
<1>11. Complete(manifest', active', original')
  BY <1>8, <1>9, <1>10 DEF Complete
<1>12. WellFormed(manifest', active', history', original', record', cert', log)
  BY <1>1, <1>6, <1>7, <1>8 DEF WellFormed, StoreDocument
<1> QED
  BY <1>3, <1>5, <1>11, <1>12

\* ops::ingest_docx() of a document.
LEMMA IngestWell ==
  ASSUME IInv, NEW d \in Docs, NEW tier \in Tier, Ingest(d, tier)
  PROVE  Here'
<1> DEFINE ev == [what |-> "ingest", doc |-> d, seal |-> None]
<1>1. WellFormed(manifest, active, history, original, record, cert, log)
  BY DEF IInv, Here, AllWell
<1>2. /\ WellFormed(manifest', active', history', original', record', cert', log)
      /\ Complete(manifest', active', original')
      /\ \A e \in Docs : manifest'[e] = None => e # d /\ manifest[e] = None
  BY StoreComplete DEF Ingest
<1>3. ev \in Event /\ ev.doc = d
  BY DEF Event
<1>4. log' = Append(log, ev) /\ log \in Seq(Event) /\ Len(log) < MaxEvents
  BY <1>1 DEF WellFormed, Ingest, Logged
<1>5. log' \in Seq(Event) /\ Len(log') <= MaxEvents
  BY <1>3, <1>4, BoundAssumption
<1>6. WellFormed(manifest', active', history', original', record', cert', log')
  BY <1>2, <1>5 DEF WellFormed
<1>7. Registered(manifest, cert, log) /\ cert' = cert
  BY DEF IInv, Here, AllWell, Ingest, StoreDocument
<1>8. Registered(manifest', cert', log')
  <2> HIDE DEF ev
  <2> QED
    BY <1>2, <1>3, <1>4, <1>7, OneMoreEvent
<1> QED
  BY <1>2, <1>6, <1>8 DEF Here, AllWell

\* SaidVault::ingest() of a document.
LEMMA IngestOwnedWell ==
  ASSUME IInv, NEW d \in Docs, NEW tier \in Tier, IngestOwned(d, tier)
  PROVE  Here' /\ OnDisk'
<1>1. /\ WellFormed(manifest', active', history', original', record', cert', log)
      /\ Complete(manifest', active', original')
      /\ \A e \in Docs : manifest'[e] = None => e # d /\ manifest[e] = None
  BY StoreComplete DEF IngestOwned
<1>2. log' = log /\ cert' = cert
  BY DEF IngestOwned, StoreDocument
<1>3. Registered(manifest', cert', log')
  BY <1>1, <1>2 DEF IInv, Here, AllWell, Registered
<1>4. Here'
  BY <1>1, <1>2, <1>3 DEF Here, AllWell
<1> QED
  BY <1>4 DEF IngestOwned, OnDisk, Here, contents

\* A part of the erased document that another lists stays, and every part
\* that stays is listed.
LEMMA DeleteComplete ==
  ASSUME IInv, NEW d \in Docs, DeleteDocument(d)
  PROVE  Complete(manifest', active', original')
<1>1. WellFormed(manifest, active, history, original, record, cert, log)
  BY DEF IInv, Here, AllWell
<1>2. Complete(manifest, active, original)
  BY DEF IInv, Here, AllWell
<1>3. \A e \in Docs : manifest'[e] = IF e = d THEN None ELSE manifest[e]
  BY <1>1 DEF WellFormed, DeleteDocument
<1>4. active' = active \ OwnParts(d)
  BY DEF DeleteDocument
<1>5. ASSUME NEW e \in Docs, manifest'[e] # None
      PROVE  PartsOf[e] \subseteq active'
  <2>1. e # d /\ manifest[e] # None
    BY <1>3, <1>5
  <2>2. PartsOf[e] \subseteq Elsewhere(d)
    BY <2>1 DEF Elsewhere
  <2> QED
    BY <1>2, <1>4, <2>1, <2>2 DEF Complete, OwnParts
<1>6. ASSUME NEW p \in active'
      PROVE  p \in UNION {PartsOf[e] : e \in {f \in Docs : manifest'[f] # None}}
  <2>1. p \in active /\ p \notin OwnParts(d)
    BY <1>4, <1>6
  <2>2. PICK e \in Docs : manifest[e] # None /\ p \in PartsOf[e]
    BY <1>2, <2>1 DEF Complete
  <2>3. \E f \in Docs \ {d} : manifest[f] # None /\ p \in PartsOf[f]
    BY <2>1, <2>2 DEF OwnParts, Elsewhere
  <2> QED
    BY <1>3, <2>3
<1>7. original' = {e \in Docs : manifest'[e] = "legal"}
  BY <1>2, <1>3, NoneAssumption DEF Complete, DeleteDocument
<1> QED
  BY <1>5, <1>6, <1>7 DEF Complete

\* ops::delete_document() keeps the vault well.
LEMMA DeleteWell ==
  ASSUME IInv, NEW d \in Docs, DeleteDocument(d)
  PROVE  Here'
<1> DEFINE ev == [what |-> "delete", doc |-> d, seal |-> Removed(d)]
<1>1. WellFormed(manifest, active, history, original, record, cert, log)
  BY DEF IInv, Here, AllWell
<1>2. Removed(d) \in Certificate
  BY <1>1 DEF Removed, Certificate, OwnParts, WellFormed
<1>3. ev \in Event /\ ev.doc = d /\ ev.what = "delete" /\ ev.seal = Removed(d)
  BY <1>2 DEF Event
<1>4. log' = Append(log, ev) /\ log \in Seq(Event) /\ Len(log) < MaxEvents
  BY <1>1 DEF WellFormed, DeleteDocument, Logged
<1>5. log' \in Seq(Event) /\ Len(log') <= MaxEvents
  <2> HIDE DEF ev
  <2> QED
    BY <1>3, <1>4, BoundAssumption
<1>6. cert' = [cert EXCEPT ![d] = Removed(d)]
  BY DEF DeleteDocument, NewestStays
<1>7. \A e \in Docs : /\ cert'[e] = IF e = d THEN Removed(d) ELSE cert[e]
                     /\ manifest'[e] = IF e = d THEN None ELSE manifest[e]
  BY <1>1, <1>6 DEF WellFormed, DeleteDocument
<1>8. /\ manifest' \in [Docs -> Tier \cup {None}]
      /\ record' \in [Docs -> Rule \cup {None}]
      /\ active' \subseteq Parts /\ history' \subseteq Parts /\ original' \subseteq Docs
  BY <1>1 DEF WellFormed, DeleteDocument, OwnParts
<1>9. cert' \in [Docs -> Certificate \cup {None}]
  BY <1>1, <1>2, <1>6 DEF WellFormed
<1>10. WellFormed(manifest', active', history', original', record', cert', log')
  BY <1>5, <1>8, <1>9 DEF WellFormed
<1>11. Registered(manifest, cert, log)
  BY DEF IInv, Here, AllWell
<1>12. Registered(manifest', cert', log')
  <2> HIDE DEF ev
  <2> QED
    BY <1>3, <1>4, <1>7, <1>11, OneMoreEvent
<1> QED
  BY <1>10, <1>12, DeleteComplete DEF Here, AllWell

\* A rule is set for one document; nothing else changes.
LEMMA SetRecordWell ==
  ASSUME IInv, NEW d \in Ruled, NEW hold \in BOOLEAN, NEW due \in Dates,
         SetRecord(d, hold, due)
  PROVE  Here'
<1>1. [hold |-> hold, due |-> due] \in Rule
  BY DEF Rule
<1>2. WellFormed(manifest', active', history', original', record', cert', log')
  BY <1>1 DEF IInv, Here, AllWell, WellFormed, SetRecord
<1>3. Complete(manifest', active', original') /\ Registered(manifest', cert', log')
  BY DEF IInv, Here, AllWell, SetRecord
<1> QED
  BY <1>2, <1>3 DEF Here, AllWell

\* What a rule keeps from the one before it.
LEMMA RuleTypes ==
  ASSUME IInv, NEW d \in Ruled
  PROVE  Held(d) \in BOOLEAN /\ Due(d) \in Dates /\ Due(d) \in Nat
<1>1. d \in Docs /\ record \in [Docs -> Rule \cup {None}]
  BY RuleAssumption DEF IInv, Here, AllWell, WellFormed
<1>2. record[d] # None => record[d] \in Rule
  BY <1>1
<1>3. Held(d) \in BOOLEAN
  BY DEF Held
<1>4. Due(d) \in Dates
  BY <1>2, RuleAssumption DEF Due, Known, Rule
<1> QED
  BY <1>3, <1>4, RuleAssumption

\* Every step keeps the vault and what was saved of it well.
LEMMA NextWell == IInv /\ [Next]_vars => IInv'
<1> SUFFICES ASSUME IInv, [Next]_vars
             PROVE  IInv'
  OBVIOUS
<1>1. ASSUME NEW d \in Docs, NEW tier \in {"slim", "legal"}, Ingest(d, tier)
      PROVE  IInv'
  <2>1. Here'
    BY <1>1, IngestWell DEF Tier
  <2>2. UNCHANGED <<saved, now>>
    BY <1>1 DEF Ingest, StoreDocument
  <2> QED
    BY <2>1, <2>2 DEF IInv, OnDisk
<1>2. ASSUME NEW d \in Docs, NEW tier \in {"slim", "legal"}, IngestOwned(d, tier)
      PROVE  IInv'
  <2>1. Here' /\ OnDisk'
    BY <1>2, IngestOwnedWell DEF Tier
  <2> QED
    BY <1>2, <2>1 DEF IInv, IngestOwned, StoreDocument
<1>3. ASSUME NEW d \in Ruled, NEW due \in Dates, SetRetention(d, due)
      PROVE  IInv'
  <2>1. Here'
    BY <1>3, RuleTypes, SetRecordWell DEF SetRetention
  <2> QED
    BY <1>3, <2>1 DEF IInv, OnDisk, SetRetention, SetRecord
<1>4. ASSUME NEW d \in Ruled, NEW hold \in BOOLEAN, SetHold(d, hold)
      PROVE  IInv'
  <2>1. Here'
    BY <1>4, RuleTypes, SetRecordWell DEF SetHold
  <2> QED
    BY <1>4, <2>1 DEF IInv, OnDisk, SetHold, SetRecord
<1>5. ASSUME NEW d \in Docs, DeleteDocument(d)
      PROVE  IInv'
  <2>1. Here'
    BY <1>5, DeleteWell
  <2> QED
    BY <1>5, <2>1 DEF IInv, OnDisk, DeleteDocument
<1>6. CASE Purge
  <2>1. Here'
    BY <1>6 DEF Purge, IInv, Here, AllWell, WellFormed
  <2> QED
    BY <1>6, <2>1 DEF Purge, IInv, OnDisk, Here, contents
<1>7. CASE Save
  BY <1>7 DEF Save, IInv, OnDisk, Here, contents
<1>8. CASE Reopen
  BY <1>8 DEF Reopen, IInv, OnDisk, Here
<1>9. CASE Tick
  <2>1. now' \in 0 .. MaxTime
    BY <1>9, BoundAssumption DEF Tick, IInv
  <2> QED
    BY <1>9, <2>1 DEF Tick, IInv, OnDisk, Here, contents
<1>10. CASE UNCHANGED vars
  BY <1>10 DEF vars, contents, IInv, OnDisk, Here
<1> QED
  BY <1>1, <1>2, <1>3, <1>4, <1>5, <1>6, <1>7, <1>8, <1>9, <1>10 DEF Next

-----------------------------------------------------------------------------
(***************************************************************************)
(* The invariants.                                                         *)
(***************************************************************************)
\* The vault and what was saved of it are well formed, complete and
\* registered at every moment, across every crash.
THEOREM VaultWell == Spec => []IInv
<1>1. Init => IInv
  BY InitWell
<1> QED
  BY <1>1, NextWell, PTL DEF Spec

\* Every variable has its type.
THEOREM VaultTypes == Spec => []TypeOK
<1>1. IInv => TypeOK
  BY DEF IInv, Here, AllWell, WellFormed, TypeOK
<1> QED
  BY <1>1, VaultWell, PTL

\* Whichever documents share parts and whichever is erased first, no part and
\* no original outlives the documents it belongs to (ops.rs delete_document).
THEOREM NothingOrphaned == Spec => []NoOrphans
<1>1. IInv => NoOrphans
  BY DEF IInv, Here, AllWell, Complete, NoOrphans
<1> QED
  BY <1>1, VaultWell, PTL

\* The last the log has of a document that went is its erasure, and the
\* certificate carries its seal (ops.rs delete_document, list_certificates).
THEOREM EveryErasureCertified == Spec => []Certified
<1>1. IInv => Certified
  BY DEF IInv, Here, AllWell, Registered, MentionsIn, Certified, Mentions
<1> QED
  BY <1>1, VaultWell, PTL

-----------------------------------------------------------------------------
(***************************************************************************)
(* The refinement of VaultContract.                                        *)
(***************************************************************************)
\* A document that has a manifest can be rebuilt, a legal one restored.
LEMMA AllKept ==
  ASSUME IInv
  PROVE  /\ Rebuildable = {d \in Docs : manifest[d] # None}
         /\ Restorable = {d \in Docs : manifest[d] = "legal"}
         /\ Restorable = original
BY DEF IInv, Here, AllWell, Complete, Rebuildable, Restorable

\* So it is after the step.
LEMMA AllKeptNext ==
  ASSUME IInv'
  PROVE  /\ Rebuildable' = {d \in Docs : manifest'[d] # None}
         /\ Restorable' = {d \in Docs : manifest'[d] = "legal"}
         /\ Restorable' = original'
BY DEF IInv, Here, AllWell, Complete, Rebuildable, Restorable

\* Taking a document in adds it, and its original if it is legal.
LEMMA StoreTakes ==
  ASSUME IInv, IInv', NEW d \in Docs, NEW tier \in Tier, StoreDocument(d, tier)
  PROVE  /\ d \notin Rebuildable
         /\ Rebuildable' = Rebuildable \cup {d}
         /\ Restorable' \in {Restorable, Restorable \cup {d}}
         /\ Locked(record)' = Locked(record)
<1>1. \A e \in Docs : manifest'[e] = IF e = d THEN tier ELSE manifest[e]
  BY DEF IInv, Here, AllWell, WellFormed, StoreDocument
<1>2. manifest[d] = None /\ tier # None
  BY NoneAssumption DEF Tier, StoreDocument
<1>3. original' \in {original, original \cup {d}}
  BY DEF StoreDocument
<1>4. Locked(record)' = Locked(record)
  BY DEF StoreDocument, Locked
<1>5. Restorable' \in {Restorable, Restorable \cup {d}}
  BY <1>3, AllKept, AllKeptNext
<1>6. Rebuildable' = Rebuildable \cup {d} /\ d \notin Rebuildable
  BY <1>1, <1>2, AllKept, AllKeptNext
<1> QED
  BY <1>4, <1>5, <1>6

LEMMA IngestMaps ==
  ASSUME IInv, IInv', NEW d \in Docs, NEW tier \in Tier, Ingest(d, tier)
  PROVE  Promise!Take(d)
<1>1. saved' = saved /\ now' = now /\ StoreDocument(d, tier)
  BY DEF Ingest, StoreDocument
<1>2. Locked(saved[5])' = Locked(saved[5])
  BY <1>1 DEF Locked
<1> QED
  BY <1>1, <1>2, StoreTakes DEF Promise!Take

LEMMA IngestOwnedMaps ==
  ASSUME IInv, IInv', NEW d \in Docs, NEW tier \in Tier, IngestOwned(d, tier)
  PROVE  Promise!TakeAndSave(d)
<1>1. saved' = contents' /\ StoreDocument(d, tier)
  BY DEF IngestOwned
<1>2. /\ {e \in Docs : saved[1][e] # None /\ PartsOf[e] \subseteq saved[2]}' = Rebuildable'
      /\ {e \in Docs : saved[1][e] = "legal" /\ e \in saved[4]}' = Restorable'
      /\ Locked(saved[5])' = Locked(record)'
  BY <1>1 DEF contents, Rebuildable, Restorable, Locked
<1> QED
  BY <1>1, <1>2, StoreTakes DEF Promise!TakeAndSave, Promise!vault

\* A rule locks its document, or unlocks it.
LEMMA SetRecordMaps ==
  ASSUME IInv, IInv', NEW d \in Ruled, NEW hold \in BOOLEAN, NEW due \in Dates,
         SetRecord(d, hold, due)
  PROVE  Promise!Lock(d) \/ Promise!Unlock(d)
<1>1. d \in Docs
  BY RuleAssumption
<1>2. /\ saved' = saved /\ now' = now /\ manifest' = manifest
      /\ active' = active /\ original' = original
      /\ record' = [record EXCEPT ![d] = [hold |-> hold, due |-> due]]
  BY DEF SetRecord
<1>3. \A e \in Docs : e # d => record'[e] = record[e]
  BY <1>2 DEF IInv, Here, AllWell, WellFormed
<1>4. Locked(saved[5])' = Locked(saved[5])
  BY <1>2 DEF Locked
<1>5. \A e \in Docs : e # d => (e \in Locked(record)' <=> e \in Locked(record))
  BY <1>2, <1>3 DEF Locked
<1>6. Locked(record) \subseteq Docs /\ Locked(record)' \subseteq Docs
  BY DEF Locked
<1>7. Locked(record)' = Locked(record) \cup {d} \/ Locked(record)' = Locked(record) \ {d}
  <2>1. CASE d \in Locked(record)'
    BY <2>1, <1>1, <1>5, <1>6
  <2>2. CASE d \notin Locked(record)'
    BY <2>2, <1>1, <1>5, <1>6
  <2> QED
    BY <2>1, <2>2
<1>8. Rebuildable' = Rebuildable /\ Restorable' = Restorable
  BY <1>2 DEF Rebuildable, Restorable
<1> QED
  BY <1>2, <1>4, <1>7, <1>8 DEF Promise!Lock, Promise!Unlock

\* An erasure takes one document, and none that is locked.
LEMMA DeleteMaps ==
  ASSUME IInv, IInv', NEW d \in Docs, DeleteDocument(d)
  PROVE  Promise!Erase(d)
<1>1. \A e \in Docs : /\ manifest'[e] = IF e = d THEN None ELSE manifest[e]
                     /\ record'[e] = IF e = d THEN None ELSE record[e]
  BY DEF IInv, Here, AllWell, WellFormed, DeleteDocument
<1>2. saved' = saved /\ now' = now
  BY DEF DeleteDocument
<1>3. d \notin Locked(record)
  <2>1. CASE record[d] = None
    BY <2>1 DEF Locked
  <2>2. CASE record[d] # None
    <3>1. record[d] \in Rule /\ now \in Nat
      BY <2>2, BoundAssumption DEF IInv, Here, AllWell, WellFormed
    <3>2. record[d].due \in Nat
      BY <3>1, RuleAssumption DEF Rule
    <3>3. ~ record[d].hold /\ (record[d].due # 0 => now >= record[d].due)
      BY <2>2 DEF DeleteDocument, Deletable, Held, Due, Known
    <3>4. ~ (now < record[d].due)
      BY <3>1, <3>2, <3>3
    <3> QED
      BY <3>3, <3>4 DEF Locked
  <2> QED
    BY <2>1, <2>2
<1>4. Locked(record)' = Locked(record)
  BY <1>1, <1>2, <1>3 DEF Locked
<1>5. Locked(saved[5])' = Locked(saved[5])
  BY <1>2 DEF Locked
<1>6. Rebuildable' = Rebuildable \ {d} /\ d \in Rebuildable
  BY <1>1, AllKept, AllKeptNext DEF DeleteDocument
<1>7. Restorable' = Restorable \ {d}
  BY <1>1, NoneAssumption, AllKept, AllKeptNext
<1> QED
  BY <1>2, <1>3, <1>4, <1>5, <1>6, <1>7 DEF Promise!Erase

\* A date that passes unlocks; it locks nothing.
LEMMA TickMaps ==
  ASSUME IInv, Tick
  PROVE  Promise!TimePasses
<1>1. now' = now + 1 /\ now \in Nat
  BY BoundAssumption DEF Tick, IInv
<1>2. UNCHANGED <<manifest, active, original, record, saved>>
  BY DEF Tick, contents
<1>3. ASSUME NEW r, r \in [Docs -> Rule \cup {None}], NEW d \in Docs, r[d] # None,
             now + 1 < r[d].due
      PROVE  now < r[d].due
  <2>1. r[d].due \in Nat
    BY <1>3, RuleAssumption DEF Rule
  <2> QED
    BY <1>1, <1>3, <2>1
<1>4. Locked(record)' \subseteq Locked(record)
  <2>1. record \in [Docs -> Rule \cup {None}]
    BY DEF IInv, Here, AllWell, WellFormed
  <2> QED
    BY <1>1, <1>2, <1>3, <2>1 DEF Locked
<1>5. Locked(saved[5])' \subseteq Locked(saved[5])
  <2>1. saved[5] \in [Docs -> Rule \cup {None}]
    BY DEF IInv, OnDisk, AllWell, WellFormed
  <2> QED
    BY <1>1, <1>2, <1>3, <2>1 DEF Locked
<1>6. Rebuildable' = Rebuildable /\ Restorable' = Restorable
  BY <1>2 DEF Rebuildable, Restorable
<1> QED
  BY <1>2, <1>4, <1>5, <1>6 DEF Promise!TimePasses

\* What is saved is the vault as it is.
LEMMA SaveMaps ==
  ASSUME saved' = contents',
         UNCHANGED <<manifest, active, original, record, now>>
  PROVE  Promise!Save
<1>1. Rebuildable' = Rebuildable /\ Restorable' = Restorable /\ Locked(record)' = Locked(record)
  BY DEF Rebuildable, Restorable, Locked
<1>2. /\ {e \in Docs : saved[1][e] # None /\ PartsOf[e] \subseteq saved[2]}' = Rebuildable
      /\ {e \in Docs : saved[1][e] = "legal" /\ e \in saved[4]}' = Restorable
      /\ Locked(saved[5])' = Locked(record)
  BY DEF contents, Rebuildable, Restorable, Locked
<1> QED
  BY <1>1, <1>2 DEF Promise!Save, Promise!vault

LEMMA ReopenMaps ==
  ASSUME Reopen
  PROVE  Promise!Crash
<1>1. saved' = saved /\ now' = now
  BY DEF Reopen
<1>2. /\ Rebuildable' = {e \in Docs : saved[1][e] # None /\ PartsOf[e] \subseteq saved[2]}
      /\ Restorable' = {e \in Docs : saved[1][e] = "legal" /\ e \in saved[4]}
      /\ Locked(record)' = Locked(saved[5])
  BY DEF Reopen, Rebuildable, Restorable, Locked
<1>3. Locked(saved[5])' = Locked(saved[5])
  BY <1>1 DEF Locked
<1> QED
  BY <1>1, <1>2, <1>3 DEF Promise!Crash

\* Every step of the vault is a step of the contract.
LEMMA StepMaps ==
  ASSUME IInv, IInv', [Next]_vars
  PROVE  [Promise!Step]_(<<Promise!vault,
            << {d \in Docs : saved[1][d] # None /\ PartsOf[d] \subseteq saved[2]},
               {d \in Docs : saved[1][d] = "legal" /\ d \in saved[4]},
               Locked(saved[5]) >> >>)
<1>1. ASSUME NEW d \in Docs, NEW tier \in {"slim", "legal"}, Ingest(d, tier)
      PROVE  Promise!Step
  BY <1>1, IngestMaps DEF Tier, Promise!Step
<1>2. ASSUME NEW d \in Docs, NEW tier \in {"slim", "legal"}, IngestOwned(d, tier)
      PROVE  Promise!Step
  BY <1>2, IngestOwnedMaps DEF Tier, Promise!Step
<1>3. ASSUME NEW d \in Ruled, NEW due \in Dates, SetRetention(d, due)
      PROVE  Promise!Step
  BY <1>3, RuleTypes, SetRecordMaps, RuleAssumption DEF SetRetention, Promise!Step
<1>4. ASSUME NEW d \in Ruled, NEW hold \in BOOLEAN, SetHold(d, hold)
      PROVE  Promise!Step
  BY <1>4, RuleTypes, SetRecordMaps, RuleAssumption DEF SetHold, Promise!Step
<1>5. ASSUME NEW d \in Docs, DeleteDocument(d)
      PROVE  Promise!Step
  BY <1>5, DeleteMaps DEF Promise!Step
<1>6. ASSUME Purge PROVE Promise!Step
  BY <1>6, SaveMaps DEF Purge, Promise!Step
<1>7. ASSUME Save PROVE Promise!Step
  <2>1. saved' = contents' /\ UNCHANGED <<manifest, active, original, record, now>>
    BY <1>7 DEF Save, contents
  <2> QED
    BY <2>1, SaveMaps DEF Promise!Step
<1>8. ASSUME Reopen PROVE Promise!Step
  BY <1>8, ReopenMaps DEF Promise!Step
<1>9. ASSUME Tick PROVE Promise!Step
  BY <1>9, TickMaps DEF Promise!Step
<1>10. CASE UNCHANGED vars
  BY <1>10 DEF vars, contents, Promise!vault, Rebuildable, Restorable, Locked
<1> QED
  BY <1>1, <1>2, <1>3, <1>4, <1>5, <1>6, <1>7, <1>8, <1>9, <1>10 DEF Next

LEMMA StartMaps ==
  ASSUME Init
  PROVE  Promise!Start
<1>1. Rebuildable = {} /\ Restorable = {} /\ Locked(record) = {}
  BY DEF Init, Rebuildable, Restorable, Locked
<1>2. /\ {d \in Docs : saved[1][d] # None /\ PartsOf[d] \subseteq saved[2]} = {}
      /\ {d \in Docs : saved[1][d] = "legal" /\ d \in saved[4]} = {}
      /\ Locked(saved[5]) = {}
  BY DEF Init, contents, Locked
<1> QED
  BY <1>1, <1>2 DEF Promise!Start, Promise!vault

\* The vault does what its contract says: of the documents that share parts
\* each is rebuilt whole and a legal one byte for byte until it is erased
\* itself, and none is erased under a hold or before its date (ops.rs,
\* retention.rs), whatever crash comes between.
THEOREM PromiseKept == Spec => KeepsPromise
<1>1. Init => Promise!Start
  BY StartMaps
<1>2. IInv /\ IInv' /\ [Next]_vars =>
        [Promise!Step]_(<<Promise!vault,
            << {d \in Docs : saved[1][d] # None /\ PartsOf[d] \subseteq saved[2]},
               {d \in Docs : saved[1][d] = "legal" /\ d \in saved[4]},
               Locked(saved[5]) >> >>)
  BY StepMaps
<1> QED
  BY <1>1, <1>2, VaultWell, PTL DEF Spec, KeepsPromise, Promise!Contract
=============================================================================
