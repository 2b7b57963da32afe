-------------------------------- MODULE Vault --------------------------------
(***************************************************************************)
(* The document vault: crates/said-vault/src (ops, retention, audit,       *)
(* vault, store), all of it kept as frames of one brain.                   *)
(*                                                                         *)
(* A document is taken apart into parts that are stored once by content,   *)
(* so documents share parts.  A manifest lists the parts; beside it are    *)
(* the byte-exact original (legal tier), a retention record, deletion      *)
(* certificates and a log.  Frames behave as FrameStore says: what is      *)
(* forgotten becomes history.  An operation is one step, since it has the  *)
(* brain for itself; it is durable when the caller saves.                  *)
(***************************************************************************)
EXTENDS Naturals, Sequences, FiniteSets

CONSTANTS
  Docs, Parts, None,
  PartsOf,    \* the parts a document is parsed into
  Ruled,      \* documents that retention rules are set for
  Dates,      \* disposition dates, 0 is none
  MaxTime,    \* the clock stops there
  MaxEvents   \* bound on the log

ASSUME PartsAssumption == PartsOf \in [Docs -> SUBSET Parts]
ASSUME RuleAssumption == Ruled \subseteq Docs /\ Dates \subseteq Nat /\ 0 \in Dates
ASSUME NoneAssumption ==
         None \notin {"slim", "legal"} \cup [hold : BOOLEAN, due : Dates]
ASSUME BoundAssumption == MaxTime \in Nat \ {0} /\ MaxEvents \in Nat

VARIABLES
  manifest,   \* doc -> "slim", "legal" or None
  active,     \* parts with an Active frame
  history,    \* parts with a forgotten frame that has not been purged
  original,   \* the VAULT_TOMBSTONES section: docs with their original
  record,     \* doc -> retention record or None
  cert,       \* doc -> the certificate of its erasure, or None
  log,        \* the audit events; an erasure's carries the seal
  now,        \* the clock
  saved       \* all of it but the clock, as last saved

contents == <<manifest, active, history, original, record, cert, log>>
vars == <<contents, now, saved>>

Init == /\ manifest = [d \in Docs |-> None]
        /\ active = {} /\ history = {}
        /\ original = {}
        /\ record = [d \in Docs |-> None]
        /\ cert = [d \in Docs |-> None]
        /\ log = <<>>
        /\ now = 1
        /\ saved = contents

-----------------------------------------------------------------------------
(***************************************************************************)
(* Taking documents in.                                                    *)
(***************************************************************************)
\* audit::append(): the number of an event, and with it its frame, is the
\* number of the events there are, so an event never replaces another.
Logged(what, d, seal) == Append(log, [what |-> what, doc |-> d, seal |-> seal])

\* put_object(): a part that is there is not stored again.  A document that
\* has a manifest is not parsed again, of whatever tier the call is.
StoreDocument(d, tier) ==
  /\ manifest[d] = None
  /\ active' = active \cup PartsOf[d]
  /\ original' = IF tier = "legal" THEN original \cup {d} ELSE original
  /\ manifest' = [manifest EXCEPT ![d] = tier]
  /\ UNCHANGED <<history, record, cert, now>>

\* ops::ingest_docx(): on a borrowed brain, logged, saved by the caller.
Ingest(d, tier) ==
  /\ Len(log) < MaxEvents
  /\ StoreDocument(d, tier)
  /\ log' = Logged("ingest", d, None)
  /\ UNCHANGED saved

\* SaidVault::ingest(): on a brain of its own, saved, not logged.
IngestOwned(d, tier) ==
  /\ StoreDocument(d, tier)
  /\ UNCHANGED log
  /\ saved' = contents'

-----------------------------------------------------------------------------
(***************************************************************************)
(* Retention and erasure.                                                  *)
(***************************************************************************)
Known(d) == record[d] # None
Held(d) == Known(d) /\ record[d].hold
\* Mutant: a missing date is not taken for zero.
DateOrNone(d) == IF Known(d) THEN record[d].due ELSE None
Due(d) == IF Known(d) THEN record[d].due ELSE 0

SetRecord(d, hold, due) ==
  /\ record' = [record EXCEPT ![d] = [hold |-> hold, due |-> due]]
  /\ UNCHANGED <<manifest, active, history, original, cert, log, now, saved>>

\* set_retention() keeps the hold, set_hold() the date.
SetRetention(d, due) == SetRecord(d, Held(d), due)
SetHold(d, hold) == SetRecord(d, hold, Due(d))

\* deletable(): the hold first, then the date.  Mutant: a date that has
\* passed is looked at first and settles it.
DateDecides(d) == IF Due(d) # 0 THEN now >= Due(d) ELSE ~Held(d)
Deletable(d) == ~Held(d) /\ (Due(d) # 0 => now >= Due(d))

\* The parts that other documents' manifests list.  Mutant: also the parts
\* of documents that are not there.
ElsewhereEver(d) == UNION {PartsOf[e] : e \in Docs \ {d}}
Elsewhere(d) == UNION {PartsOf[e] : e \in {f \in Docs \ {d} : manifest[f] # None}}

\* Mutant: every part of the document goes.
AllParts(d) == PartsOf[d] \cap active
OwnParts(d) == (PartsOf[d] \ Elsewhere(d)) \cap active

\* What the certificate says of the erasure; its seal is the hash of that.
Removed(d) == [parts |-> OwnParts(d), original |-> manifest[d] = "legal"]

\* The newest certificate of a document is the one that stays.  Mutant: a
\* certificate is stored once, as a part is.
FirstStays(d, new) == IF cert[d] = None THEN new ELSE cert[d]
NewestStays(d, new) == new

\* ops::delete_document(): parts of its own, original, manifest and record
\* are forgotten, a certificate and an event are written.
DeleteDocument(d) ==
  /\ Len(log) < MaxEvents
  /\ Deletable(d)
  /\ manifest[d] # None
  /\ active' = active \ OwnParts(d)
  /\ history' = history \cup OwnParts(d)
  /\ original' = IF manifest[d] = "legal" THEN original \ {d} ELSE original
  /\ manifest' = [manifest EXCEPT ![d] = None]
  /\ record' = [record EXCEPT ![d] = None]
  /\ cert' = [cert EXCEPT ![d] = NewestStays(d, Removed(d))]
  /\ log' = Logged("delete", d, Removed(d))
  /\ UNCHANGED <<now, saved>>

-----------------------------------------------------------------------------
\* A retention sweep of the brain and the compact and save that follow it.
Purge == /\ history' = {}
         /\ UNCHANGED <<manifest, active, original, record, cert, log, now>>
         /\ saved' = contents'

Save == /\ saved' = contents
        /\ UNCHANGED <<contents, now>>

\* The process ends, by itself or not; the next one opens what was saved.
Reopen == /\ manifest' = saved[1] /\ active' = saved[2] /\ history' = saved[3]
          /\ original' = saved[4] /\ record' = saved[5] /\ cert' = saved[6]
          /\ log' = saved[7]
          /\ UNCHANGED <<now, saved>>

Tick == now < MaxTime /\ now' = now + 1 /\ UNCHANGED <<contents, saved>>

Next ==
  \/ \E d \in Docs, tier \in {"slim", "legal"} : Ingest(d, tier) \/ IngestOwned(d, tier)
  \/ \E d \in Ruled, due \in Dates : SetRetention(d, due)
  \/ \E d \in Ruled, hold \in BOOLEAN : SetHold(d, hold)
  \/ \E d \in Docs : DeleteDocument(d)
  \/ Purge \/ Save \/ Reopen \/ Tick

Spec == Init /\ [][Next]_vars

-----------------------------------------------------------------------------
Tier == {"slim", "legal"}
Rule == [hold : BOOLEAN, due : Dates]
Certificate == [parts : SUBSET Parts, original : BOOLEAN]
Event == [what : {"ingest", "delete"}, doc : Docs, seal : Certificate \cup {None}]

TypeOK ==
  /\ manifest \in [Docs -> Tier \cup {None}]
  /\ active \subseteq Parts /\ history \subseteq Parts
  /\ original \subseteq Docs
  /\ record \in [Docs -> Rule \cup {None}]
  /\ cert \in [Docs -> Certificate \cup {None}]
  /\ log \in Seq(Event) /\ Len(log) <= MaxEvents
  /\ now \in 0 .. MaxTime

\* The register and the log account for every document that went: the last
\* the log has of it is its erasure, and the certificate is the one of that
\* erasure, however often it was taken in again and erased, and whatever a
\* crash took back (ops.rs delete_document, list_certificates).
Mentions(d) == {e \in 1 .. Len(log) : log[e].doc = d}
Certified ==
  \A d \in Docs : manifest[d] = None =>
    \A e \in Mentions(d) : (\A f \in Mentions(d) : f <= e) =>
      log[e].what = "delete" /\ cert[d] = log[e].seal

\* An erasure leaves no part that no document lists and no original without
\* its legal document, whichever documents shared the parts and whichever of
\* them went first (ops.rs delete_document).
NoOrphans ==
  /\ active \subseteq UNION {PartsOf[d] : d \in {e \in Docs : manifest[e] # None}}
  /\ original = {d \in Docs : manifest[d] = "legal"}

\* What a user can do with the documents is what VaultContract says: parts
\* may be shared and forgotten in any order, but every document that was not
\* erased can be rebuilt, a legal one restored byte for byte, and none is
\* erased under a hold or before its date (ops.rs, retention.rs).
Rebuildable == {d \in Docs : manifest[d] # None /\ PartsOf[d] \subseteq active}
Restorable == {d \in Docs : manifest[d] = "legal" /\ d \in original}
Locked(rules) == {d \in Docs : rules[d] # None
                                 /\ (rules[d].hold \/ now < rules[d].due)}

Promise == INSTANCE VaultContract WITH
  kept   <- Rebuildable,
  exact  <- Restorable,
  locked <- Locked(record),
  disk   <- << {d \in Docs : saved[1][d] # None /\ PartsOf[d] \subseteq saved[2]},
               {d \in Docs : saved[1][d] = "legal" /\ d \in saved[4]},
               Locked(saved[5]) >>

KeepsPromise == Promise!Contract
=============================================================================
