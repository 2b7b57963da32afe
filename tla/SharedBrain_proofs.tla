------------------------- MODULE SharedBrain_proofs -------------------------
(***************************************************************************)
(* What the file system leaves of a brain under any number of commands,    *)
(* which open, save, die and clear each other's .said.tmp in any order.    *)
(* There is no hypothesis: several may save at a time, and the invariant   *)
(* says what holds as long as none have (Apart) and as long as no save has *)
(* undone another either (Lossless).                                       *)
(***************************************************************************)
EXTENDS SharedBrain, FiniteSetTheorems, TLAPS

States == {"off", "starting", "reading", "open", "writing", "written", "done"}
Process == [pc : States, mem : SUBSET Texts, base : Image, buf : SUBSET Texts,
            fd : Inodes \cup {None}]

\* Who holds a descriptor: the processes in a save, and those may save.
Descriptors == \A p \in Procs :
  IF Saves(p) THEN p \in Writers \cup Askers /\ proc[p].fd \in Inodes
              ELSE proc[p].fd = None

\* What a process opened it knows, and what it knows it saves.
Knowing == \A p \in Procs : proc[p].base # Torn =>
  /\ proc[p].pc = "open" => proc[p].mem = proc[p].base
  /\ Saves(p) => proc[p].base \subseteq proc[p].buf

\* A saver that is alone has an inode of its own, which .said.tmp names if it
\* names any, torn until the image is in it.
Saver(p) ==
  /\ proc[p].fd # name.said
  /\ name.tmp \in {None, proc[p].fd}
  /\ inode[proc[p].fd] = IF proc[p].pc = "written" THEN proc[p].buf ELSE Torn

\* As long as no two saves have overlapped .said names a whole image, and so
\* has everybody opened one.
Apart == "saves" \notin clash =>
  /\ \A p, q \in Procs : Saves(p) /\ Saves(q) => p = q
  /\ \A p \in Procs : Saves(p) => Saver(p)
  /\ \A p \in Procs : proc[p].pc = "open" => proc[p].base \in SUBSET Texts
  /\ inode[name.said] \in SUBSET Texts

\* As long as no save has undone another either .said holds what was told.
Lossless == clash = {} => told \subseteq inode[name.said]

Distinct == name.tmp # name.said

IInv == TypeOK /\ Descriptors /\ Knowing /\ Apart /\ Lossless /\ Distinct

-----------------------------------------------------------------------------
(***************************************************************************)
(* Lemmas.                                                                 *)
(***************************************************************************)
\* A process that is not in a save finds an inode that is not in use when
\* .said.tmp names none.
LEMMA FreeInode ==
  ASSUME TypeOK, Descriptors, name.tmp = None,
         NEW p \in Writers \cup Askers, p \in Procs, ~ Saves(p)
  PROVE  \E i \in Inodes : i \notin InUse
<1> DEFINE W == Writers \cup Askers
           S == W \ {p}
           F == {proc[q].fd : q \in S}
           f == [q \in S |-> proc[q].fd]
           U == F \cup {name.said}
<1>1. /\ IsFiniteSet(W) /\ IsFiniteSet(Inodes) /\ None \notin Inodes
      /\ Cardinality(Inodes) > Cardinality(W)
      /\ Cardinality(Inodes) \in Nat /\ Cardinality(W) \in Nat
  BY InodeAssumption, FS_CardinalityType
<1>2. IsFiniteSet(S) /\ Cardinality(S) = Cardinality(W) - 1
  BY <1>1, FS_RemoveElement
<1>3. f \in Surjection(S, F)
  BY DEF Surjection
<1> HIDE DEF f
<1>4. IsFiniteSet(F) /\ Cardinality(F) <= Cardinality(S)
  <2> HIDE DEF S, F
  <2> QED
    BY <1>2, <1>3, FS_Surjection
<1>5. IsFiniteSet(U) /\ Cardinality(U) <= Cardinality(F) + 1
  <2> HIDE DEF F
  <2>1. Cardinality(F) \in Nat
    BY <1>4, FS_CardinalityType
  <2>2. /\ IsFiniteSet(F \cup {name.said})
        /\ Cardinality(F \cup {name.said}) =
             IF name.said \in F THEN Cardinality(F) ELSE Cardinality(F) + 1
    BY <1>4, FS_AddElement
  <2> QED
    BY <2>1, <2>2
<1>6. Cardinality(U) <= Cardinality(W) /\ Cardinality(U) \in Nat
  <2>1. Cardinality(U) \in Nat /\ Cardinality(F) \in Nat /\ Cardinality(S) \in Nat
    BY <1>2, <1>4, <1>5, FS_CardinalityType
  <2> HIDE DEF U, F, S, W
  <2> QED
    BY <1>1, <1>2, <1>4, <1>5, <2>1
<1>7. ~ (Inodes \subseteq U)
  <2>1. ASSUME Inodes \subseteq U
        PROVE  Cardinality(Inodes) <= Cardinality(U)
    <3> HIDE DEF U
    <3> QED
      BY <1>5, <2>1, FS_Subset
  <2> HIDE DEF U, W
  <2> QED
    BY <1>1, <1>6, <2>1
<1>8. PICK i \in Inodes : i \notin U
  BY <1>7
<1>9. i \notin InUse
  <2> SUFFICES ASSUME NEW q \in Procs, i = proc[q].fd
               PROVE  FALSE
    BY <1>1, <1>8 DEF InUse
  <2>1. Saves(q)
    BY <1>1 DEF Descriptors
  <2>2. q \in S
    BY <2>1 DEF Descriptors
  <2> QED
    BY <1>8, <2>2
<1> QED
  BY <1>9

\* At the beginning nobody is at work and the brain is empty.
LEMMA InitSound == Init => IInv
<1> SUFFICES ASSUME Init
             PROVE  IInv
  OBVIOUS
<1>1. name.said \in Inodes /\ name.tmp = None /\ None \notin Inodes
  <2>1. Inodes # {}
    BY InodeAssumption, FS_EmptySet, FS_CardinalityType
  <2> QED
    BY <2>1, InodeAssumption DEF Init
<1>2. \A p \in Procs : proc[p] = Off
  BY DEF Init
<1>3. TypeOK
  BY <1>1, <1>2 DEF Init, TypeOK, Off, Image
<1>4. Descriptors /\ Knowing
  BY <1>2 DEF Descriptors, Knowing, Saves, Off
<1>5. Apart
  <2>1. inode[name.said] = {}
    BY <1>1 DEF Init
  <2> QED
    BY <1>2, <2>1 DEF Apart, Saves, Off
<1>6. Lossless /\ Distinct
  BY <1>1 DEF Init, Lossless, Distinct
<1> QED
  BY <1>3, <1>4, <1>5, <1>6 DEF IInv

\* A process goes on without touching a file, and is not saving then.
LEMMA OwnStep ==
  ASSUME IInv, NEW p \in Procs, NEW r \in Process, proc' = [proc EXCEPT ![p] = r],
         inode' = inode, told' = told, clash' = clash,
         name' \in {name, [name EXCEPT !.tmp = None]},
         r.pc \notin {"writing", "written"}, r.fd = None,
         r.pc = "open" /\ r.base # Torn => r.mem = r.base,
         r.pc = "open" /\ "saves" \notin clash => r.base \in SUBSET Texts
  PROVE  IInv'
<1>1. \A q \in Procs : proc'[q] = IF q = p THEN r ELSE proc[q]
  BY DEF IInv, TypeOK
<1>2. name'.said = name.said /\ name'.tmp \in {name.tmp, None}
  BY DEF IInv, TypeOK
<1>3. TypeOK'
  BY DEF IInv, TypeOK, Process, States
<1>4. \A q \in Procs : Saves(q)' => q # p /\ Saves(q) /\ proc'[q] = proc[q]
  BY <1>1 DEF Saves
<1>5. Descriptors'
  BY <1>1 DEF IInv, Descriptors, Saves
<1>6. Knowing'
  BY <1>1 DEF IInv, Knowing, Saves
<1>7. Apart'
  <2> SUFFICES ASSUME "saves" \notin clash
               PROVE  /\ \A q, s \in Procs : Saves(q)' /\ Saves(s)' => q = s
                      /\ \A q \in Procs : Saves(q)' => Saver(q)'
                      /\ \A q \in Procs : proc'[q].pc = "open" => proc'[q].base \in SUBSET Texts
                      /\ inode'[name'.said] \in SUBSET Texts
    BY DEF Apart
  <2>1. \A q, s \in Procs : Saves(q)' /\ Saves(s)' => q = s
    BY <1>4 DEF IInv, Apart
  <2>2. \A q \in Procs : Saves(q)' => Saver(q)'
    BY <1>2, <1>4 DEF IInv, Apart, Saver
  <2>3. \A q \in Procs : proc'[q].pc = "open" => proc'[q].base \in SUBSET Texts
    BY <1>1 DEF IInv, Apart
  <2>4. inode'[name'.said] \in SUBSET Texts
    BY <1>2 DEF IInv, Apart
  <2> QED
    BY <2>1, <2>2, <2>3, <2>4
<1>8. Lossless' /\ Distinct'
  <2>1. name.said # None
    BY InodeAssumption DEF IInv, TypeOK
  <2> QED
    BY <1>2, <2>1 DEF IInv, Lossless, Distinct
<1> QED
  BY <1>3, <1>5, <1>6, <1>7, <1>8 DEF IInv

LEMMA StartSound ==
  ASSUME IInv, NEW p \in Procs, Start(p)
  PROVE  IInv'
<1> DEFINE r == [proc[p] EXCEPT !.pc = "starting"]
<1>1. proc[p] \in Process /\ proc[p].pc = "off"
  BY DEF IInv, TypeOK, Process, States, Start
<1>2. r \in Process /\ r.pc = "starting" /\ r.fd = None
  BY <1>1 DEF Process, States, IInv, Descriptors, Saves
<1>3. proc' = [proc EXCEPT ![p] = r]
  BY DEF Start
<1>4. inode' = inode /\ name' = name /\ told' = told /\ clash' = clash
  BY DEF Start
<1> HIDE DEF r
<1> QED
  BY <1>2, <1>3, <1>4, OwnStep

LEMMA OpenClearsTmpSound ==
  ASSUME IInv, NEW p \in Procs, OpenClearsTmp(p)
  PROVE  IInv'
<1> DEFINE r == [proc[p] EXCEPT !.pc = "reading"]
<1>1. proc[p] \in Process /\ proc[p].pc = "starting"
  BY DEF IInv, TypeOK, Process, States, OpenClearsTmp
<1>2. r \in Process /\ r.pc = "reading" /\ r.fd = None
  BY <1>1 DEF Process, States, IInv, Descriptors, Saves
<1>3. proc' = [proc EXCEPT ![p] = r]
  BY DEF OpenClearsTmp
<1>4. /\ inode' = inode /\ name' = [name EXCEPT !.tmp = None]
      /\ told' = told /\ clash' = clash
  BY DEF OpenClearsTmp
<1> HIDE DEF r
<1> QED
  BY <1>2, <1>3, <1>4, OwnStep

LEMMA OpenReadsSound ==
  ASSUME IInv, NEW p \in Procs, OpenReads(p)
  PROVE  IInv'
<1> DEFINE image == inode[name.said]
           r == [Off EXCEPT !.pc = "open", !.mem = image, !.base = image]
<1>1. image \in SUBSET Texts
  BY DEF IInv, TypeOK, Image, OpenReads
<1>2. Off \in Process /\ Off.fd = None
  BY DEF Off, Process, States, Image
<1>3. r \in Process
  BY <1>1, <1>2 DEF Process, States, Image
<1>4. r.pc = "open" /\ r.fd = None /\ r.mem = image /\ r.base = image
  BY <1>2 DEF Process
<1>5. proc' = [proc EXCEPT ![p] = r]
  BY DEF OpenReads
<1>6. inode' = inode /\ name' = name /\ told' = told /\ clash' = clash
  BY DEF OpenReads
<1> HIDE DEF r, image
<1> QED
  BY <1>1, <1>3, <1>4, <1>5, <1>6, OwnStep

\* A process is gone, by itself, with an error or killed.
LEMMA OffSound ==
  ASSUME IInv, NEW p \in Procs, proc' = [proc EXCEPT ![p] = Off],
         inode' = inode, name' = name, told' = told, clash' = clash
  PROVE  IInv'
<1>1. Off \in Process /\ Off.pc = "off" /\ Off.fd = None
  BY DEF Off, Process, States, Image
<1> QED
  BY <1>1, OwnStep

\* Only after saves have overlapped is there a torn file to go on from.
LEMMA OpenRefusesSound ==
  ASSUME IInv, NEW p \in Procs, OpenRefuses(p)
  PROVE  IInv'
<1> DEFINE r == [Off EXCEPT !.pc = "open", !.base = Torn]
<1>1. "saves" \in clash
  BY TornAssumption DEF IInv, Apart, OpenRefuses
<1>2. r \in Process /\ r.pc = "open" /\ r.fd = None /\ r.base = Torn
  BY DEF Off, Process, States, Image
<1>3. inode' = inode /\ name' = name /\ told' = told /\ clash' = clash
  BY DEF OpenRefuses
<1>4. \/ proc' = [proc EXCEPT ![p] = Off]
      \/ proc' = [proc EXCEPT ![p] = r]
  BY DEF OpenRefuses
<1> HIDE DEF r
<1>5. CASE proc' = [proc EXCEPT ![p] = Off]
  BY <1>3, <1>5, OffSound
<1>6. CASE proc' = [proc EXCEPT ![p] = r]
  BY <1>1, <1>2, <1>3, <1>6, OwnStep
<1> QED
  BY <1>4, <1>5, <1>6

\* fs::write() takes an inode that .said does not name.
LEMMA TruncateSound ==
  ASSUME IInv, NEW p \in Writers \cup Askers, p \in Procs, proc[p].pc = "open",
         NEW buf \in SUBSET Texts, proc[p].base # Torn => proc[p].base \subseteq buf,
         Truncate(p, buf), told' = told
  PROVE  IInv'
<1> DEFINE i == IF name[WriteTo] = None THEN CHOOSE n \in Inodes : n \notin InUse
                                        ELSE name[WriteTo]
           r == [proc[p] EXCEPT !.pc = "writing", !.fd = i, !.buf = buf, !.mem = {}]
<1>1. proc[p] \in Process /\ ~ Saves(p)
  BY DEF IInv, TypeOK, Process, States, Saves
<1>2. name.said \in Inodes /\ name.tmp \in Inodes \cup {None} /\ None \notin Inodes
  BY InodeAssumption DEF IInv, TypeOK
<1>3. i \in Inodes /\ i # name.said
  <2>1. CASE name.tmp = None
    <3>1. \E n \in Inodes : n \notin InUse
      BY <1>1, <2>1, FreeInode DEF IInv
    <3>2. i = CHOOSE n \in Inodes : n \notin InUse
      BY <2>1 DEF WriteTo
    <3>3. name.said \in InUse
      BY DEF InUse
    <3> HIDE DEF i
    <3> QED
      BY <3>1, <3>2, <3>3
  <2>2. CASE name.tmp # None
    BY <1>2, <2>2 DEF WriteTo, IInv, Distinct
  <2> QED
    BY <2>1, <2>2
<1>4. /\ inode' = [n \in Inodes |-> IF n = i THEN Torn
                                     ELSE IF n \in InUse THEN inode[n] ELSE {}]
      /\ name' = [name EXCEPT !.tmp = i]
      /\ proc' = [proc EXCEPT ![p] = r]
  BY DEF Truncate, WriteTo, IInv, TypeOK
<1>5. clash' = IF \E q \in Procs \ {p} : Saves(q) THEN clash \cup {"saves"} ELSE clash
  BY DEF Truncate
<1> HIDE DEF i
<1>6. /\ r \in Process /\ r.pc = "writing" /\ r.fd = i /\ r.buf = buf
      /\ r.base = proc[p].base
  BY <1>1, <1>3 DEF Process, States, Image
<1> HIDE DEF r
<1>7. \A q \in Procs : proc'[q] = IF q = p THEN r ELSE proc[q]
  BY <1>4 DEF IInv, TypeOK
<1>8. name'.said = name.said /\ name'.tmp = i
  BY <1>4 DEF IInv, TypeOK
<1>9. inode'[name'.said] = inode[name.said] /\ inode'[i] = Torn
  BY <1>2, <1>3, <1>4, <1>8 DEF InUse
<1>10. TypeOK'
  <2>1. inode' \in [Inodes -> Image]
    BY <1>4 DEF IInv, TypeOK, Image
  <2>2. proc' \in [Procs -> Process]
    BY <1>4, <1>6 DEF IInv, TypeOK, Process, States
  <2>3. name' \in [said : Inodes, tmp : Inodes \cup {None}]
    BY <1>3, <1>4 DEF IInv, TypeOK
  <2>4. clash' \subseteq {"saves", "updates"}
    BY <1>5 DEF IInv, TypeOK
  <2> QED
    BY <2>1, <2>2, <2>3, <2>4 DEF IInv, TypeOK, Process, States
<1>11. Descriptors'
  BY <1>3, <1>6, <1>7 DEF IInv, Descriptors, Saves
<1>12. Knowing'
  BY <1>6, <1>7 DEF IInv, Knowing, Saves
<1>13. Apart'
  <2> SUFFICES ASSUME "saves" \notin clash'
               PROVE  /\ \A q, s \in Procs : Saves(q)' /\ Saves(s)' => q = s
                      /\ \A q \in Procs : Saves(q)' => Saver(q)'
                      /\ \A q \in Procs : proc'[q].pc = "open" => proc'[q].base \in SUBSET Texts
                      /\ inode'[name'.said] \in SUBSET Texts
    BY DEF Apart
  <2>1. "saves" \notin clash /\ \A q \in Procs : q # p => ~ Saves(q)
    BY <1>5
  <2>2. \A q \in Procs : Saves(q)' => q = p
    BY <1>7, <2>1 DEF Saves
  <2>3. Saver(p)'
    BY <1>3, <1>6, <1>7, <1>8, <1>9 DEF Saver
  <2>4. \A q \in Procs : proc'[q].pc = "open" => proc'[q].base \in SUBSET Texts
    BY <1>6, <1>7, <2>1 DEF IInv, Apart
  <2>5. inode'[name'.said] \in SUBSET Texts
    BY <1>9, <2>1 DEF IInv, Apart
  <2> QED
    BY <2>2, <2>3, <2>4, <2>5
<1>14. Lossless' /\ Distinct'
  BY <1>3, <1>5, <1>8, <1>9 DEF IInv, Lossless, Distinct
<1> QED
  BY <1>10, <1>11, <1>12, <1>13, <1>14 DEF IInv

\* The bytes reach the inode the saver truncated; when it is alone .said does
\* not name that, and nobody else has written to it.
LEMMA SaveWritesSound ==
  ASSUME IInv, NEW p \in Procs, SaveWrites(p)
  PROVE  IInv'
<1> DEFINE r == [proc[p] EXCEPT !.pc = "written"]
<1>1. proc[p] \in Process /\ proc[p].pc = "writing" /\ Saves(p) /\ proc[p].fd \in Inodes
  BY DEF IInv, TypeOK, Process, States, SaveWrites, Descriptors, Saves
<1>2. PICK image \in {proc[p].buf} \cup Left(p) :
        inode' = [inode EXCEPT ![proc[p].fd] = image]
  BY DEF SaveWrites
<1>3. /\ proc' = [proc EXCEPT ![p] = r]
      /\ name' = name /\ told' = told /\ clash' = clash
  BY DEF SaveWrites
<1>4. /\ r \in Process /\ r.pc = "written" /\ r.fd = proc[p].fd
      /\ r.buf = proc[p].buf /\ r.base = proc[p].base
  BY <1>1 DEF Process, States
<1> HIDE DEF r
<1>5. \A q \in Procs : proc'[q] = IF q = p THEN r ELSE proc[q]
  BY <1>3 DEF IInv, TypeOK
<1>6. \A q \in Procs : Saves(q)' <=> Saves(q)
  BY <1>1, <1>4, <1>5 DEF Saves
<1>7. \A i \in Inodes : inode'[i] = IF i = proc[p].fd THEN image ELSE inode[i]
  BY <1>2 DEF IInv, TypeOK
<1>8. TypeOK'
  <2>1. image \in Image
    BY <1>1, <1>2 DEF Left, Image, Process
  <2> QED
    BY <1>2, <1>3, <1>4, <2>1 DEF IInv, TypeOK, Process, States
<1>9. Descriptors'
  BY <1>4, <1>5, <1>6 DEF IInv, Descriptors
<1>10. Knowing'
  BY <1>1, <1>4, <1>5, <1>6 DEF IInv, Knowing
<1>11. ASSUME "saves" \notin clash
       PROVE  /\ image = proc[p].buf /\ Saver(p)
              /\ \A q \in Procs : Saves(q) => q = p
              /\ inode'[name.said] = inode[name.said]
  <2>1. Saver(p) /\ \A q \in Procs : Saves(q) => q = p
    BY <1>1, <1>11 DEF IInv, Apart
  <2>2. image = proc[p].buf
    BY <1>1, <1>2, <2>1 DEF Saver, Left
  <2>3. name.said \in Inodes /\ name.said # proc[p].fd
    BY <2>1 DEF IInv, TypeOK, Saver
  <2> QED
    BY <1>7, <2>1, <2>2, <2>3
<1>12. Apart'
  <2> SUFFICES ASSUME "saves" \notin clash
               PROVE  /\ \A q, s \in Procs : Saves(q)' /\ Saves(s)' => q = s
                      /\ \A q \in Procs : Saves(q)' => Saver(q)'
                      /\ \A q \in Procs : proc'[q].pc = "open" => proc'[q].base \in SUBSET Texts
                      /\ inode'[name'.said] \in SUBSET Texts
    BY <1>3 DEF Apart
  <2>1. \A q \in Procs : Saves(q)' => q = p
    BY <1>6, <1>11
  <2>2. Saver(p)'
    <3>1. /\ proc'[p] = r /\ name' = name /\ inode'[proc[p].fd] = proc[p].buf
          /\ Saver(p)
      BY <1>1, <1>3, <1>5, <1>7, <1>11
    <3> QED
      BY <1>4, <3>1 DEF Saver
  <2>3. \A q \in Procs : proc'[q].pc = "open" => proc'[q].base \in SUBSET Texts
    BY <1>4, <1>5 DEF IInv, Apart
  <2>4. inode'[name'.said] \in SUBSET Texts
    BY <1>3, <1>11 DEF IInv, Apart
  <2> QED
    BY <2>1, <2>2, <2>3, <2>4
<1>13. Lossless' /\ Distinct'
  BY <1>3, <1>11 DEF IInv, Lossless, Distinct
<1> QED
  BY <1>8, <1>9, <1>10, <1>12, <1>13 DEF IInv

\* The rename: what a lone saver puts under the name .said is what it wrote,
\* and that holds what was told if what it opened is still there.
LEMMA SaveRenamesSound ==
  ASSUME IInv, NEW p \in Procs, SaveRenames(p)
  PROVE  IInv'
<1> DEFINE r == [Off EXCEPT !.pc = "done"]
<1>1. /\ proc[p] \in Process /\ proc[p].pc = "written" /\ Saves(p)
      /\ name.tmp # None /\ name.tmp \in Inodes
  BY DEF IInv, TypeOK, Process, States, SaveRenames, RenameSucceeds, Saves
<1>2. /\ inode' = inode
      /\ name' = [said |-> name.tmp, tmp |-> None]
      /\ proc' = [proc EXCEPT ![p] = r]
      /\ told' = told \cup proc[p].buf
      /\ clash' = IF inode[name.said] # proc[p].base THEN clash \cup {"updates"}
                                                     ELSE clash
  BY DEF SaveRenames
<1>3. r \in Process /\ r.pc = "done" /\ r.fd = None
  BY DEF Process, States, Off, Image
<1> HIDE DEF r
<1>4. \A q \in Procs : proc'[q] = IF q = p THEN r ELSE proc[q]
  BY <1>2 DEF IInv, TypeOK
<1>5. \A q \in Procs : Saves(q)' => q # p /\ Saves(q)
  BY <1>3, <1>4 DEF Saves
<1>6. Descriptors'
  BY <1>3, <1>4 DEF IInv, Descriptors, Saves
<1>7. Knowing'
  BY <1>3, <1>4 DEF IInv, Knowing, Saves
<1>8. ASSUME "saves" \notin clash
      PROVE  /\ inode'[name'.said] = proc[p].buf /\ proc[p].buf \in SUBSET Texts
             /\ \A q \in Procs : ~ Saves(q)'
             /\ inode[name.said] \in SUBSET Texts
  <2>1. Saver(p) /\ \A q \in Procs : Saves(q) => q = p
    BY <1>1, <1>8 DEF IInv, Apart
  <2>2. name'.said = proc[p].fd
    BY <1>1, <1>2, <2>1 DEF Saver
  <2>3. inode[proc[p].fd] = proc[p].buf
    BY <1>1, <2>1 DEF Saver
  <2>4. proc[p].buf \in SUBSET Texts
    BY <1>1 DEF Process
  <2>5. \A q \in Procs : ~ Saves(q)'
    BY <1>5, <2>1
  <2> QED
    BY <1>2, <1>8, <2>2, <2>3, <2>4, <2>5 DEF IInv, Apart
<1>9. "saves" \in clash <=> "saves" \in clash'
  BY <1>2
<1>10. Apart'
  <2> SUFFICES ASSUME "saves" \notin clash
               PROVE  /\ \A q, s \in Procs : Saves(q)' /\ Saves(s)' => q = s
                      /\ \A q \in Procs : Saves(q)' => Saver(q)'
                      /\ \A q \in Procs : proc'[q].pc = "open" => proc'[q].base \in SUBSET Texts
                      /\ inode'[name'.said] \in SUBSET Texts
    BY <1>9 DEF Apart
  <2>1. \A q \in Procs : proc'[q].pc = "open" => proc'[q].base \in SUBSET Texts
    BY <1>3, <1>4 DEF IInv, Apart
  <2> QED
    BY <1>8, <2>1
<1>11. Lossless'
  <2> SUFFICES ASSUME clash' = {}
               PROVE  told \cup proc[p].buf \subseteq inode'[name'.said]
    BY <1>2 DEF Lossless
  <2>1. clash = {} /\ inode[name.said] = proc[p].base
    BY <1>2
  <2>2. /\ inode'[name'.said] = proc[p].buf
        /\ inode[name.said] \in SUBSET Texts
    BY <1>8, <2>1
  <2>3. proc[p].base \subseteq proc[p].buf
    BY <1>1, <2>1, <2>2, TornAssumption DEF IInv, Knowing
  <2> QED
    BY <2>1, <2>2, <2>3 DEF IInv, Lossless
<1>12. TypeOK'
  <2>1. name' \in [said : Inodes, tmp : Inodes \cup {None}]
    BY <1>1, <1>2
  <2>2. proc' \in [Procs -> Process]
    BY <1>2, <1>3 DEF IInv, TypeOK, Process, States
  <2>3. clash' \subseteq {"saves", "updates"}
    BY <1>2 DEF IInv, TypeOK
  <2>4. told' \subseteq Texts
    BY <1>2 DEF IInv, TypeOK
  <2> QED
    BY <1>2, <2>1, <2>2, <2>3, <2>4 DEF IInv, TypeOK, Process, States
<1>13. Distinct'
  BY <1>1, <1>2 DEF Distinct
<1> QED
  BY <1>6, <1>7, <1>10, <1>11, <1>12, <1>13 DEF IInv

LEMMA NextSound == IInv /\ [Next]_vars => IInv'
<1> SUFFICES ASSUME IInv, [Next]_vars
             PROVE  IInv'
  OBVIOUS
<1>1. ASSUME NEW p \in Procs,
             Start(p) \/ OpenClearsTmp(p) \/ OpenReads(p) \/ OpenRefuses(p)
      PROVE  IInv'
  BY <1>1, StartSound, OpenClearsTmpSound, OpenReadsSound, OpenRefusesSound
<1>2. ASSUME NEW p \in Procs, Exit(p) \/ Crash(p) \/ SaveRenameFails(p)
      PROVE  IInv'
  BY <1>2, OffSound DEF Exit, Crash, SaveRenameFails, NotSaved
<1>3. ASSUME NEW p \in Procs, NEW t \in Texts, Remember(p, t)
      PROVE  IInv'
  <2>1. /\ p \in Writers /\ proc[p].pc = "open" /\ told' = told
        /\ Truncate(p, proc[p].mem \cup {t})
    BY <1>3 DEF Remember
  <2>2. proc[p].mem \cup {t} \in SUBSET Texts
    BY DEF IInv, TypeOK
  <2>3. proc[p].base # Torn => proc[p].base \subseteq proc[p].mem \cup {t}
    BY <2>1 DEF IInv, Knowing
  <2> QED
    BY <2>1, <2>2, <2>3, TruncateSound
<1>4. ASSUME NEW p \in Procs, Ask(p)
      PROVE  IInv'
  <2>1. /\ p \in Askers /\ proc[p].pc = "open" /\ told' = told
        /\ proc[p].base # Torn /\ Truncate(p, proc[p].base)
    BY <1>4 DEF Ask
  <2>2. proc[p].base \in SUBSET Texts
    BY <2>1 DEF IInv, TypeOK, Image
  <2> QED
    BY <2>1, <2>2, TruncateSound
<1>5. ASSUME NEW p \in Procs, SaveWrites(p) \/ SaveRenames(p)
      PROVE  IInv'
  BY <1>5, SaveWritesSound, SaveRenamesSound
<1>6. CASE UNCHANGED vars
  BY <1>6 DEF vars, IInv, TypeOK, Descriptors, Knowing, Apart, Saver, Saves,
              Lossless, Distinct
<1> QED
  BY <1>1, <1>2, <1>3, <1>4, <1>5, <1>6 DEF Next, Run

-----------------------------------------------------------------------------
(***************************************************************************)
(* The invariants.                                                         *)
(***************************************************************************)
\* What holds while commands start, save, die and clear each other's
\* .said.tmp.
THEOREM SharingSound == Spec => []IInv
<1> QED
  BY InitSound, NextSound, PTL DEF Spec

\* Every variable has its type: there is an inode to write to for any number
\* of savers at a time.
THEOREM SharedTypes == Spec => []TypeOK
<1>1. IInv => TypeOK
  BY DEF IInv
<1> QED
  BY <1>1, SharingSound, PTL

\* For any number of commands only two saves that overlap can leave a torn
\* file under the name .said (said_file.rs save, save_brain_only, open).
THEOREM TornOnlyByTwoSavers == Spec => []SaidWhole
<1>1. IInv => SaidWhole
  BY TornAssumption DEF IInv, Apart, SaidWhole
<1> QED
  BY <1>1, SharingSound, PTL

\* For any number of commands a text whose save was reported as done is lost
\* only by overlapping saves or by a save that had not read it (said_file.rs
\* save, save_brain_only, open).
THEOREM LostOnlyByARace == Spec => []SavedStays
<1>1. IInv => SavedStays
  BY DEF IInv, Lossless, SavedStays
<1> QED
  BY <1>1, SharingSound, PTL
=============================================================================
