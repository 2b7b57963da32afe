--------------------------- MODULE VaultContract ----------------------------
(***************************************************************************)
(* What the document vault promises its users: a set of documents, some    *)
(* with their byte-exact original, some locked against erasure.  Erasing   *)
(* one document touches no other; what is not saved is lost in a crash.    *)
(***************************************************************************)
CONSTANTS Docs

VARIABLES
  kept,    \* documents that can be rebuilt
  exact,   \* documents whose original can be restored byte for byte
  locked,  \* documents under a hold or before their date
  disk     \* the three as they were last saved

vault == <<kept, exact, locked>>

Start == kept = {} /\ exact = {} /\ locked = {} /\ disk = vault

Take(d) == /\ d \notin kept
           /\ kept' = kept \cup {d}
           /\ exact' \in {exact, exact \cup {d}}
           /\ UNCHANGED <<locked, disk>>

Erase(d) == /\ d \in kept \ locked
            /\ kept' = kept \ {d}
            /\ exact' = exact \ {d}
            /\ UNCHANGED <<locked, disk>>

\* Any document can be locked, also one that is not there yet.
Lock(d) == locked' = locked \cup {d} /\ UNCHANGED <<kept, exact, disk>>
Unlock(d) == locked' = locked \ {d} /\ UNCHANGED <<kept, exact, disk>>

\* Dates pass for several documents at once, also for what is on disk.
TimePasses == /\ locked' \subseteq locked
              /\ \E still \in SUBSET disk[3] : disk' = <<disk[1], disk[2], still>>
              /\ UNCHANGED <<kept, exact>>

Save == disk' = vault /\ UNCHANGED vault

\* A document is taken in and saved in one call.
TakeAndSave(d) == /\ d \notin kept
                  /\ kept' = kept \cup {d}
                  /\ exact' \in {exact, exact \cup {d}}
                  /\ UNCHANGED locked
                  /\ disk' = vault'

\* Back to what was saved.
Crash == /\ kept' = disk[1] /\ exact' = disk[2] /\ locked' = disk[3]
         /\ UNCHANGED disk

Step == \/ \E d \in Docs : \/ Take(d) \/ Erase(d) \/ TakeAndSave(d)
                           \/ Lock(d) \/ Unlock(d)
        \/ TimePasses \/ Save \/ Crash

Contract == Start /\ [][Step]_<<vault, disk>>
=============================================================================
