-------------------------- MODULE McpServer_proofs --------------------------
(***************************************************************************)
(* What the MCP server keeps for any number of brains, lenses and items,   *)
(* with no hypothesis on what its clients call or on when the writers      *)
(* beside it run.                                                          *)
(*                                                                         *)
(* The two properties need each other: a save writes what the server holds *)
(* and has to find there all that the file owes.  Where the file is what   *)
(* the server has mapped, that follows from OneCopy; the other two parts   *)
(* of IInv say where files are written and where lenses can be.            *)
(***************************************************************************)
EXTENDS McpServer, FiniteSetTheorems, TLAPS

\* A server that runs has a brain attached.
Attaches == path # None => at \in Paths

\* What it holds are the bytes it has mapped, until a brain is made in memory.
OneCopy == mapped # NoFile => mem = mapped

\* Only a lens file holds a lens: nothing saves one.
LensPlaces == \A p \in Paths : disk[p] = Lens => p \in DOMAIN ParentOf

\* A writer works on a file.
WriterHasFile == job.verb # "none" \/ job.step # "none" => job.file \in Paths

IInv == /\ TypeOK /\ NothingLost /\ ServerIsCurrent
        /\ Attaches /\ OneCopy /\ LensPlaces /\ WriterHasFile

-----------------------------------------------------------------------------
(***************************************************************************)
(* Lemmas.                                                                 *)
(***************************************************************************)
\* A job that is over has no file.
LEMMA NoJobHasFile == job' = NoJob => WriterHasFile'
BY DEF NoJob, WriterHasFile

LEMMA NoJobIsWriter == NoJob \in Writer
BY DEF NoJob, Writer, Image

\* What is read from a file that opens is a brain.
LEMMA BrainIsItems ==
  ASSUME TypeOK, NEW p \in Paths, Opens(p)
  PROVE  disk[p] \in SUBSET Items
BY DEF TypeOK, Image, Opens

\* A brain is neither a missing file nor a lens.
LEMMA ItemsOpen ==
  ASSUME NEW image \in SUBSET Items
  PROVE  image # NoFile /\ image # Lens
BY ImageAssumption

\* The brain that a placeholder gives way to is one of the brains.
LEMMA PromotedIsPath == ASSUME NEW p \in Paths PROVE Promoted(p) \in Paths
<1>1. CASE (p \in Reserved \/ Pristine(p)) /\ Cardinality(Populated \ {p}) = 1
  <2>1. Populated \ {p} # {}
    BY <1>1, FS_EmptySet
  <2>2. Promoted(p) \in Populated
    BY <1>1, <2>1 DEF Promoted
  <2> QED
    BY <2>2 DEF Populated
<1>2. CASE ~ ((p \in Reserved \/ Pristine(p)) /\ Cardinality(Populated \ {p}) = 1)
  BY <1>2 DEF Promoted
<1> QED
  BY <1>1, <1>2

\* A name leads to a brain or to nothing, never to a lens on a lens.
LEMMA AttachedIsBrain ==
  ASSUME TypeOK, LensPlaces, NEW p \in Paths
  PROVE  Attached(p) \in Paths /\ disk[Attached(p)] # Lens
BY LensAssumption DEF Attached, LensPlaces

LEMMA InitSound == Init => IInv
<1> SUFFICES ASSUME Init
             PROVE  IInv
  OBVIOUS
<1>1. {} # NoFile /\ {} # Lens
  BY ItemsOpen
<1>2. TypeOK
  BY <1>1, NoJobIsWriter DEF Init, TypeOK, Image
<1>3. NothingLost
  BY DEF Init, NothingLost
<1>4. LensPlaces
  BY ImageAssumption DEF Init, LensPlaces
<1> QED
  BY <1>2, <1>3, <1>4 DEF Init, IInv, ServerIsCurrent, Attaches, OneCopy, WriterHasFile, NoJob

-----------------------------------------------------------------------------
(***************************************************************************)
(* Saves by the server.                                                    *)
(***************************************************************************)
\* A save that finds the file as it was mapped writes what the file owes,
\* since the server holds all of it; `k` is what is owed afterwards.
LEMMA HoldsWhatIsOwed ==
  ASSUME IInv, path # None, Aligned
  PROVE  kept[at] \subseteq mem
<1>1. at \in Paths /\ disk[at] = mapped
  BY DEF IInv, Attaches, Aligned
<1>2. CASE kept[at] = {}
  BY <1>2
<1>3. CASE kept[at] # {}
  BY <1>1, <1>3 DEF IInv, NothingLost, Opens, OneCopy
<1> QED
  BY <1>2, <1>3

LEMMA SaveSound ==
  ASSUME IInv, path # None, NEW image \in SUBSET Items, SaveAs(image),
         ephemeral' \subseteq Paths,
         NEW k \in SUBSET Items, Owes(k), Aligned => k \subseteq image
  PROVE  IInv'
<1>1. at \in Paths /\ path \in Paths /\ image # NoFile /\ image # Lens
  BY ItemsOpen DEF IInv, TypeOK, Attaches
<1>2. /\ mem' = image /\ mapped' = image /\ path' = path /\ at' = at /\ job' = job
      /\ disk' = [disk EXCEPT ![at] = image]
      /\ behind' = (at # Attached(path))
  BY DEF SaveAs
<1>3. PICK owed \in SUBSET Items : /\ owed \subseteq image
                                   /\ kept' = [kept EXCEPT ![at] = owed]
  BY <1>2 DEF Owes
<1>4. \A p \in Paths : /\ disk'[p] = IF p = at THEN image ELSE disk[p]
                      /\ kept'[p] = IF p = at THEN owed ELSE kept[p]
  BY <1>2, <1>3 DEF IInv, TypeOK
<1>5. TypeOK'
  <2>1. disk' \in [Paths -> Image] /\ kept' \in [Paths -> SUBSET Items]
    BY <1>2, <1>3 DEF IInv, TypeOK, Image
  <2>2. behind' \in BOOLEAN
    BY <1>2
  <2> QED
    BY <1>1, <1>2, <2>1, <2>2 DEF IInv, TypeOK
<1>6. NothingLost'
  BY <1>1, <1>3, <1>4 DEF IInv, NothingLost, Opens
<1>7. ServerIsCurrent'
  <2>1. at = Attached(path) => Attached(path)' = at
    BY <1>1, <1>2, <1>4 DEF Attached
  <2> QED
    BY <1>1, <1>2, <1>4, <2>1 DEF ServerIsCurrent
<1>8. LensPlaces'
  BY <1>1, <1>4 DEF IInv, LensPlaces
<1> QED
  BY <1>2, <1>5, <1>6, <1>7, <1>8 DEF IInv, Attaches, OneCopy, WriterHasFile

LEMMA StoreSound ==
  ASSUME IInv, NEW x \in Items, NEW marks \in BOOLEAN, Store(x, marks)
  PROVE  IInv'
<1>1. /\ path # None /\ SaveAs(mem \cup {x}) /\ Owes(kept[at] \cup {x})
      /\ at \in Paths
  BY DEF Store, IInv, Attaches
<1>2. mem \cup {x} \in SUBSET Items /\ kept[at] \cup {x} \in SUBSET Items
  BY <1>1 DEF IInv, TypeOK
<1>3. Aligned => kept[at] \cup {x} \subseteq mem \cup {x}
  BY <1>1, HoldsWhatIsOwed
<1>4. ephemeral' \subseteq Paths
  BY DEF Store, IInv, TypeOK
<1> QED
  BY <1>1, <1>2, <1>3, <1>4, SaveSound

LEMMA DeleteToolSound ==
  ASSUME IInv, NEW x \in Items, DeleteTool(x)
  PROVE  IInv'
<1>1. /\ path # None /\ SaveAs(mem \ {x}) /\ Owes(kept[at] \ {x})
      /\ at \in Paths
  BY DEF DeleteTool, IInv, Attaches
<1>2. mem \ {x} \in SUBSET Items /\ kept[at] \ {x} \in SUBSET Items
  BY <1>1 DEF IInv, TypeOK
<1>3. Aligned => kept[at] \ {x} \subseteq mem \ {x}
  BY <1>1, HoldsWhatIsOwed
<1>4. ephemeral' \subseteq Paths
  BY DEF DeleteTool, IInv, TypeOK
<1> QED
  BY <1>1, <1>2, <1>3, <1>4, SaveSound

\* save_brain_only() writes back what it mapped, which is what it holds.
LEMMA SearchToolSound ==
  ASSUME IInv, SearchTool
  PROVE  IInv'
<1>1. path # None /\ Owes(kept[at]) /\ at \in Paths
  BY DEF SearchTool, IInv, Attaches
<1>2. SaveAs(mem)
  BY DEF SearchTool, IInv, OneCopy
<1>3. mem \in SUBSET Items /\ kept[at] \in SUBSET Items
  BY <1>1 DEF IInv, TypeOK
<1>4. Aligned => kept[at] \subseteq mem
  BY <1>1, HoldsWhatIsOwed
<1>5. ephemeral' \subseteq Paths
  BY DEF SearchTool, IInv, TypeOK
<1> QED
  BY <1>1, <1>2, <1>3, <1>4, <1>5, SaveSound

-----------------------------------------------------------------------------
(***************************************************************************)
(* Starting, attaching, creating.                                          *)
(***************************************************************************)
LEMMA StartServerSound ==
  ASSUME IInv, NEW p \in Paths, StartServer(p)
  PROVE  IInv'
<1> DEFINE q == Promoted(p)
           b == Attached(q)
           image == IF disk[b] = NoFile THEN Placeholder ELSE disk[b]
<1>1. q \in Paths /\ b \in Paths /\ disk[b] # Lens
  BY PromotedIsPath, AttachedIsBrain DEF IInv
<1>2. image \in SUBSET Items /\ image # NoFile /\ image # Lens
  BY <1>1, ImageAssumption DEF IInv, TypeOK, Image, Placeholder
<1>3. /\ path' = q /\ disk' = [disk EXCEPT ![b] = image]
      /\ job' = job /\ kept' = kept /\ ~behind'
      /\ at' = b /\ mem' = disk'[b] /\ mapped' = disk'[b]
      /\ ephemeral' = IF Exists(q) THEN {} ELSE {q}
  BY <1>1 DEF StartServer, Holds, IInv, TypeOK
<1>4. behind' = FALSE
  BY DEF StartServer
<1>5. kept[b] # {} => image = disk[b]
  BY <1>1 DEF IInv, NothingLost, Opens
<1>6. b # q => disk[q] = Lens /\ q \in DOMAIN ParentOf /\ b = ParentOf[q]
  BY DEF Attached
<1>7. b = q => disk[q] # Lens
  BY <1>1
<1> HIDE DEF q, b, image
<1>8. \A r \in Paths : disk'[r] = IF r = b THEN image ELSE disk[r]
  BY <1>1, <1>3 DEF IInv, TypeOK
<1>9. TypeOK'
  <2>1. disk' \in [Paths -> Image]
    BY <1>2, <1>3 DEF IInv, TypeOK, Image
  <2>2. mem' # NoFile /\ mem' \subseteq Items /\ mapped' \in SUBSET Items
    BY <1>1, <1>2, <1>3, <1>8
  <2> QED
    BY <1>1, <1>3, <1>4, <2>1, <2>2 DEF IInv, TypeOK
<1>10. NothingLost'
  BY <1>1, <1>3, <1>5, <1>8 DEF IInv, NothingLost, Opens
<1>11. LensPlaces'
  BY <1>1, <1>2, <1>8 DEF IInv, LensPlaces
<1>12. ServerIsCurrent'
  <2>1. Attached(path)' = b
    BY <1>1, <1>2, <1>3, <1>6, <1>8 DEF Attached
  <2> QED
    BY <1>3, <2>1 DEF ServerIsCurrent
<1> QED
  BY <1>1, <1>3, <1>9, <1>10, <1>11, <1>12 DEF IInv, Attaches, OneCopy, WriterHasFile

LEMMA StopServerSound ==
  ASSUME IInv, StopServer
  PROVE  IInv'
<1>1. {} # NoFile /\ {} # Lens
  BY ItemsOpen
<1>2. /\ path' = None /\ at' = None /\ mem' = {} /\ mapped' = NoFile
      /\ ephemeral' = {} /\ behind' = FALSE /\ disk' = disk /\ kept' = kept
      /\ job' = NoJob \/ job' = [job EXCEPT !.waits = FALSE]
  BY DEF StopServer
<1>3. TypeOK' /\ WriterHasFile'
  <2>1. CASE job' = NoJob
    BY <1>1, <1>2, <2>1, NoJobIsWriter DEF IInv, TypeOK, NoJob, WriterHasFile
  <2>2. CASE job' = [job EXCEPT !.waits = FALSE]
    <3>1. /\ job'.verb = job.verb /\ job'.step = job.step /\ job'.file = job.file
          /\ job' \in Writer
      BY <2>2 DEF IInv, TypeOK, Writer
    <3> QED
      BY <1>1, <1>2, <3>1 DEF IInv, TypeOK, WriterHasFile
  <2> QED
    BY <1>2, <2>1, <2>2
<1> QED
  BY <1>2, <1>3 DEF IInv, NothingLost, Opens, ServerIsCurrent, Attaches, OneCopy, LensPlaces

\* The attached file is opened again, and its brain held.
LEMMA ReloadsSound ==
  ASSUME IInv, NEW always \in BOOLEAN, Reloads(always)
  PROVE  IInv'
<1>1. path \in Paths /\ disk[path] \in SUBSET Items
  BY BrainIsItems DEF Reloads, IInv, TypeOK
<1>2. /\ at' = path /\ mem' = disk[path] /\ mapped' = disk[path] /\ behind' = FALSE
      /\ UNCHANGED <<disk, path, ephemeral, job, kept>>
  BY DEF Reloads, Holds
<1>3. disk[path] # NoFile /\ disk[path] # Lens
  BY DEF Reloads, Opens
<1>4. TypeOK'
  BY <1>1, <1>2, <1>3 DEF IInv, TypeOK, Image
<1>5. ServerIsCurrent'
  BY <1>2, <1>3 DEF ServerIsCurrent, Attached
<1> QED
  BY <1>1, <1>2, <1>4, <1>5
     DEF IInv, NothingLost, Opens, Attaches, OneCopy, LensPlaces, WriterHasFile

\* Opening another brain makes a file at most and removes at most an empty
\* placeholder, which owes nothing.
LEMMA OpenToolSound ==
  ASSUME IInv, NEW q \in Paths, OpenTool(q)
  PROVE  IInv'
<1> DEFINE made == IF Exists(q) THEN {} ELSE {q}
           left == IF LeavesPlaceholder(q) THEN {path} ELSE {}
<1>1. disk[q] # Lens
  BY DEF OpenTool
<1>2. /\ disk' = [p \in Paths |-> IF p \in made THEN Placeholder
                                  ELSE IF p \in left THEN NoFile ELSE disk[p]]
      /\ ephemeral' = (ephemeral \ left) \cup made
      /\ path' = q /\ job' = job /\ kept' = kept /\ behind' = FALSE
      /\ at' = q /\ mem' = disk'[q] /\ mapped' = disk'[q]
  BY DEF OpenTool, Holds
<1>3. q \notin left /\ made \subseteq {q}
  BY DEF LeavesPlaceholder
<1>4. \A p \in left : p \in Paths => disk[p] = {}
  BY DEF LeavesPlaceholder, Pristine
<1>5. q \notin made => disk[q] # NoFile
  BY DEF Exists
<1>6. q \in made => disk[q] = NoFile
  BY DEF Exists
<1> HIDE DEF made, left
<1>7. {} # NoFile /\ {} # Lens
  BY ItemsOpen
<1>8. disk'[q] \in SUBSET Items /\ disk'[q] # NoFile /\ disk'[q] # Lens
  BY <1>1, <1>2, <1>3, <1>5, <1>7 DEF IInv, TypeOK, Image, Placeholder
<1>9. TypeOK'
  <2>1. disk' \in [Paths -> Image]
    BY <1>2 DEF IInv, TypeOK, Image, Placeholder
  <2>2. ephemeral' \subseteq Paths
    BY <1>2, <1>3 DEF IInv, TypeOK
  <2> QED
    BY <1>2, <1>8, <2>1, <2>2 DEF IInv, TypeOK
<1>10. NothingLost'
  <2> SUFFICES ASSUME NEW p \in Paths, kept[p] # {}
               PROVE  disk'[p] \notin {NoFile, Lens} /\ kept[p] \subseteq disk'[p]
    BY <1>2 DEF NothingLost, Opens
  <2>1. disk[p] \notin {NoFile, Lens} /\ kept[p] \subseteq disk[p]
    BY DEF IInv, NothingLost, Opens
  <2>2. p \notin left
    BY <1>4, <2>1
  <2>3. p \notin made
    BY <1>3, <1>6, <2>1
  <2> QED
    BY <1>2, <2>1, <2>2, <2>3
<1>11. LensPlaces'
  <2> SUFFICES ASSUME NEW p \in Paths, disk'[p] = Lens
               PROVE  p \in DOMAIN ParentOf
    BY DEF LensPlaces
  <2>1. disk[p] = Lens
    BY <1>2, <1>7, ImageAssumption DEF Placeholder
  <2> QED
    BY <2>1 DEF IInv, LensPlaces
<1>12. ServerIsCurrent'
  BY <1>2, <1>8 DEF ServerIsCurrent, Attached
<1> QED
  BY <1>2, <1>9, <1>10, <1>11, <1>12 DEF IInv, Attaches, OneCopy, WriterHasFile

\* The server takes over file p, or goes on with what it holds; in either
\* case it knows of every change to the attached file but those of `behind`.
LEMMA TakesOverSound ==
  ASSUME IInv, NEW p \in Paths, TakesOver(p), path' = path,
         disk' \in [Paths -> Image],
         \A r \in Paths : r # p => disk'[r] = disk[r]
  PROVE  /\ at' \in Paths \cup {None} /\ mem' # NoFile /\ mem' \subseteq Items
         /\ mapped' \in (SUBSET Items) \cup {NoFile} /\ behind' \in BOOLEAN
         /\ Attaches' /\ OneCopy' /\ ServerIsCurrent'
<1>1. CASE /\ disk'[p] \notin {NoFile, Lens}
           /\ at' = p /\ mem' = Reloaded(p) /\ mapped' = Reloaded(p)
           /\ behind' = (p # path)
  <2>1. disk'[p] \in SUBSET Items /\ mem' = disk'[p] /\ mapped' = disk'[p]
    BY <1>1 DEF Image, Reloaded
  <2>2. ServerIsCurrent'
    BY <1>1, <2>1 DEF ServerIsCurrent, Attached
  <2> QED
    BY <1>1, <2>1, <2>2 DEF Attaches, OneCopy
<1>2. CASE /\ behind' = (behind \/ disk'[p] # disk[p])
           /\ UNCHANGED <<mem, at, mapped>>
  <2>1. ServerIsCurrent'
    <3> SUFFICES ASSUME path # None, ~behind'
                 PROVE  (at = Attached(path) /\ disk[at] = mem /\ mapped = mem)'
      BY DEF ServerIsCurrent
    <3>1. \A r \in Paths : disk'[r] = disk[r]
      BY <1>2
    <3>2. at = Attached(path) /\ disk[at] = mem /\ mapped = mem
      BY <1>2 DEF IInv, ServerIsCurrent
    <3>3. path \in Paths /\ at \in Paths
      BY DEF IInv, TypeOK, Attaches
    <3> QED
      BY <1>2, <3>1, <3>2, <3>3 DEF Attached
  <2> QED
    BY <1>2, <2>1 DEF IInv, TypeOK, Attaches, OneCopy
<1> QED
  BY <1>1, <1>2 DEF TakesOver

\* A job that ends with the server taking over its file, which stays as it is.
LEMMA TakenOver ==
  ASSUME IInv, NEW p \in Paths, TakesOver(p), UNCHANGED <<disk, path, kept>>,
         job' = NoJob, ephemeral' \subseteq Paths
  PROVE  IInv'
<1>1. disk' \in [Paths -> Image] /\ path' = path /\ \A r \in Paths : disk'[r] = disk[r]
  BY DEF IInv, TypeOK
<1>2. /\ at' \in Paths \cup {None} /\ mem' # NoFile /\ mem' \subseteq Items
      /\ mapped' \in (SUBSET Items) \cup {NoFile} /\ behind' \in BOOLEAN
      /\ Attaches' /\ OneCopy' /\ ServerIsCurrent'
  BY <1>1, TakesOverSound
<1>3. TypeOK'
  BY <1>2, NoJobIsWriter DEF IInv, TypeOK
<1>4. NothingLost' /\ LensPlaces'
  BY DEF IInv, NothingLost, Opens, LensPlaces
<1> QED
  BY <1>2, <1>3, <1>4, NoJobHasFile DEF IInv

\* create starts a file anew, which then owes nothing.
LEMMA CreateToolSound ==
  ASSUME IInv, NEW q \in Paths, CreateTool(q)
  PROVE  IInv'
<1>1. /\ path # None /\ path \in Paths /\ at \in Paths
      /\ disk' = [disk EXCEPT ![q] = {}] /\ kept' = [kept EXCEPT ![q] = {}]
      /\ path' = path /\ ephemeral' = ephemeral /\ job' = job
  BY DEF CreateTool, IInv, TypeOK, Attaches
<1>2. \A p \in Paths : /\ disk'[p] = IF p = q THEN {} ELSE disk[p]
                      /\ kept'[p] = IF p = q THEN {} ELSE kept[p]
  BY <1>1 DEF IInv, TypeOK
<1>3. {} # NoFile /\ {} # Lens
  BY ItemsOpen
<1>4. disk' \in [Paths -> Image] /\ kept' \in [Paths -> SUBSET Items]
  BY <1>1 DEF IInv, TypeOK, Image
<1>5. NothingLost' /\ LensPlaces'
  BY <1>2, <1>3 DEF IInv, NothingLost, Opens, LensPlaces
<1>6. /\ at' \in Paths \cup {None} /\ mem' # NoFile /\ mem' \subseteq Items
      /\ mapped' \in (SUBSET Items) \cup {NoFile} /\ behind' \in BOOLEAN
      /\ Attaches' /\ OneCopy' /\ ServerIsCurrent'
  <2>1. CASE q = path
    BY <1>1, <1>2, <1>4, <2>1, TakesOverSound DEF CreateTool
  <2>2. CASE q # path
    <3>1. behind' = (behind \/ q = at) /\ UNCHANGED <<mem, at, mapped>>
      BY <2>2 DEF CreateTool
    <3>2. Attached(path)' = Attached(path)
      BY <1>1, <1>2, <2>2 DEF Attached
    <3>3. ServerIsCurrent'
      BY <1>1, <1>2, <3>1, <3>2 DEF IInv, ServerIsCurrent
    <3> QED
      BY <1>1, <3>1, <3>3 DEF IInv, TypeOK, Attaches, OneCopy
  <2> QED
    BY <2>1, <2>2
<1>7. TypeOK'
  BY <1>1, <1>4, <1>6 DEF IInv, TypeOK
<1> QED
  BY <1>1, <1>5, <1>6, <1>7 DEF IInv, WriterHasFile

-----------------------------------------------------------------------------
(***************************************************************************)
(* Writers beside the server.                                              *)
(***************************************************************************)
\* A step of a writer on its own job disturbs nothing else.
LEMMA JobStepSound ==
  ASSUME IInv, UNCHANGED <<disk, server, behind, kept>>, job' \in Writer, WriterHasFile'
  PROVE  IInv'
BY DEF IInv, TypeOK, NothingLost, Opens, ServerIsCurrent, Attached, Attaches, OneCopy,
       LensPlaces, server

LEMMA WriterStartsSound ==
  ASSUME IInv, NEW verb \in {"init", "sync"}, NEW p \in Paths, WriterStarts(verb, p)
  PROVE  IInv'
<1>1. /\ UNCHANGED <<disk, server, behind, kept>>
      /\ job' = [NoJob EXCEPT !.verb = verb, !.step = "run", !.file = p, !.waits = TRUE]
  BY DEF WriterStarts, Spawn
<1>2. job' \in Writer /\ job'.file = p
  BY <1>1, NoJobIsWriter DEF Writer
<1> QED
  BY <1>1, <1>2, JobStepSound DEF WriterHasFile

LEMMA WriterOpensSound ==
  ASSUME IInv, WriterOpens
  PROVE  IInv'
<1>1. /\ UNCHANGED <<disk, server, behind, kept>> /\ job.step = "run"
      /\ job' = [job EXCEPT !.step = "read", !.base = disk[job.file]]
  BY DEF WriterOpens
<1>2. job.file \in Paths /\ job \in Writer /\ disk[job.file] \in Image
  BY <1>1 DEF IInv, TypeOK, WriterHasFile
<1>3. job' \in Writer /\ job'.file = job.file
  BY <1>1, <1>2 DEF Writer
<1> QED
  BY <1>1, <1>2, <1>3, JobStepSound DEF WriterHasFile

LEMMA WriterSavesSound ==
  ASSUME IInv, NEW x \in Items, WriterSaves(x)
  PROVE  IInv'
<1> DEFINE f == job.file
           image == (IF job.base \in {NoFile, Lens} THEN {} ELSE job.base) \cup {x}
           owed == IF disk[f] = job.base THEN kept[f] \cup {x} ELSE image
<1>1. f \in Paths /\ job \in Writer
  BY DEF WriterSaves, IInv, TypeOK, WriterHasFile
<1>2. image \in SUBSET Items
  BY <1>1 DEF Writer, Image
<1>3. image # NoFile /\ image # Lens
  BY <1>2, ItemsOpen
<1>4. owed \subseteq image
  BY <1>1 DEF IInv, NothingLost, Opens
<1>5. /\ disk' = [disk EXCEPT ![f] = image] /\ kept' = [kept EXCEPT ![f] = owed]
      /\ behind' = (behind \/ f \in {path, at})
      /\ job' = [job EXCEPT !.step = "saved"]
      /\ UNCHANGED server
  BY <1>1 DEF WriterSaves, IInv, TypeOK
<1>6. job' \in Writer /\ job'.file = f
  BY <1>1, <1>5 DEF Writer
<1> HIDE DEF f, image, owed
<1>7. \A p \in Paths : /\ disk'[p] = IF p = f THEN image ELSE disk[p]
                      /\ kept'[p] = IF p = f THEN owed ELSE kept[p]
  BY <1>5 DEF IInv, TypeOK
<1>8. disk' \in [Paths -> Image] /\ kept' \in [Paths -> SUBSET Items]
  BY <1>2, <1>4, <1>5 DEF IInv, TypeOK, Image
<1>9. TypeOK'
  BY <1>5, <1>6, <1>8 DEF IInv, TypeOK, server
<1>10. NothingLost' /\ LensPlaces'
  BY <1>1, <1>3, <1>4, <1>7 DEF IInv, NothingLost, Opens, LensPlaces
<1>11. ServerIsCurrent'
  <2> SUFFICES ASSUME path' # None, ~behind'
               PROVE  (at = Attached(path) /\ disk[at] = mem /\ mapped = mem)'
    BY DEF ServerIsCurrent
  <2>1. path \in Paths /\ at \in Paths /\ f \notin {path, at} /\ ~behind
    BY <1>5 DEF IInv, TypeOK, Attaches, server
  <2>2. at = Attached(path) /\ disk[at] = mem /\ mapped = mem
    BY <1>5, <2>1 DEF IInv, ServerIsCurrent, server
  <2> QED
    BY <1>5, <1>7, <2>1, <2>2 DEF Attached, server
<1> QED
  BY <1>1, <1>5, <1>6, <1>9, <1>10, <1>11
     DEF IInv, Attaches, OneCopy, WriterHasFile, server

LEMMA InitSucceedsSound ==
  ASSUME IInv, InitSucceeds
  PROVE  IInv'
<1>1. /\ job.verb = "init" /\ job' = NoJob /\ UNCHANGED <<disk, path, kept>>
      /\ TakesOver(job.file) /\ ephemeral' = ephemeral \ {path}
  BY DEF InitSucceeds
<1>2. job.file \in Paths
  BY <1>1 DEF IInv, WriterHasFile
<1>3. ephemeral' \subseteq Paths
  BY <1>1 DEF IInv, TypeOK
<1> QED
  BY <1>1, <1>2, <1>3, TakenOver

LEMMA WriterEndsSound ==
  ASSUME IInv, WriterEnds \/ CleanEndsUnread
  PROVE  IInv'
<1>1. UNCHANGED <<disk, server, behind, kept>> /\ job' = NoJob
  BY DEF WriterEnds, CleanEndsUnread
<1> QED
  BY <1>1, NoJobIsWriter, NoJobHasFile, JobStepSound

LEMMA CleanDropsBrainSound ==
  ASSUME IInv, NEW dry \in BOOLEAN, CleanDropsBrain(dry)
  PROVE  IInv'
<1> DEFINE step == IF dry THEN "dry" ELSE "run"
<1>1. path # None /\ path \in Paths
  BY DEF CleanDropsBrain, Spawn, IInv, TypeOK
<1>2. /\ job' = [NoJob EXCEPT !.verb = "clean", !.step = step, !.file = path, !.waits = TRUE]
      /\ mem' = {} /\ at' = path /\ mapped' = NoFile /\ behind' = TRUE
      /\ UNCHANGED <<disk, path, ephemeral, kept>>
  BY DEF CleanDropsBrain, Spawn
<1>3. job' \in Writer /\ job'.file = path
  BY <1>1, <1>2, NoJobIsWriter DEF Writer
<1>4. TypeOK'
  BY <1>1, <1>2, <1>3, ItemsOpen DEF IInv, TypeOK
<1> QED
  BY <1>1, <1>2, <1>3, <1>4
     DEF IInv, NothingLost, Opens, ServerIsCurrent, Attaches, OneCopy, LensPlaces, WriterHasFile

LEMMA CleanRunsSound ==
  ASSUME IInv, CleanRuns
  PROVE  IInv'
<1>1. /\ job' = [job EXCEPT !.step = "saved"] /\ UNCHANGED server
      /\ job.verb = "clean"
  BY DEF CleanRuns
<1>2. PICK gone \in {{}, Paths} \cup {{q} : q \in Paths} :
        /\ disk' = [p \in Paths |-> IF p \in gone THEN NoFile ELSE disk[p]]
        /\ kept' = [p \in Paths |-> IF p \in gone THEN {} ELSE kept[p]]
        /\ behind' = (behind \/ {path, at} \cap gone # {})
  BY DEF CleanRuns
<1>3. job' \in Writer /\ job'.file = job.file /\ job.file \in Paths
  BY <1>1 DEF Writer, IInv, TypeOK, WriterHasFile
<1>4. disk' \in [Paths -> Image] /\ kept' \in [Paths -> SUBSET Items]
  BY <1>2 DEF IInv, TypeOK, Image
<1>5. TypeOK'
  BY <1>1, <1>2, <1>3, <1>4 DEF IInv, TypeOK, server
<1>6. NothingLost' /\ LensPlaces'
  BY <1>2, ImageAssumption DEF IInv, NothingLost, Opens, LensPlaces
<1>7. ServerIsCurrent'
  <2> SUFFICES ASSUME path' # None, ~behind'
               PROVE  (at = Attached(path) /\ disk[at] = mem /\ mapped = mem)'
    BY DEF ServerIsCurrent
  <2>1. path \in Paths /\ at \in Paths /\ path \notin gone /\ at \notin gone /\ ~behind
    BY <1>1, <1>2 DEF IInv, TypeOK, Attaches, server
  <2>2. at = Attached(path) /\ disk[at] = mem /\ mapped = mem
    BY <1>1, <2>1 DEF IInv, ServerIsCurrent, server
  <2> QED
    BY <1>1, <1>2, <2>1, <2>2 DEF Attached, server
<1> QED
  BY <1>1, <1>3, <1>5, <1>6, <1>7
     DEF IInv, Attaches, OneCopy, WriterHasFile, server

\* The server opens what the command left, or makes a placeholder.
LEMMA CleanEndsSound ==
  ASSUME IInv, CleanEnds
  PROVE  IInv'
<1> DEFINE f == job.file
<1>1. /\ f \in Paths /\ job' = NoJob /\ path' = path /\ kept' = kept
  BY DEF CleanEnds, IInv, WriterHasFile
<1>2. CASE /\ ~Exists(f)
           /\ disk' = [disk EXCEPT ![f] = Placeholder]
           /\ Holds(f)
           /\ behind' = (f # path)
           /\ ephemeral' = ephemeral \cup {f}
  <2>1. \A p \in Paths : disk'[p] = IF p = f THEN {} ELSE disk[p]
    BY <1>2 DEF IInv, TypeOK, Placeholder
  <2>2. {} # NoFile /\ {} # Lens
    BY ItemsOpen
  <2>3. at' = f /\ mem' = {} /\ mapped' = {}
    BY <1>1, <1>2, <2>1 DEF Holds
  <2>4. TypeOK'
    <3>1. disk' \in [Paths -> Image]
      BY <1>2 DEF IInv, TypeOK, Image, Placeholder
    <3> QED
      BY <1>1, <1>2, <2>2, <2>3, <3>1, NoJobIsWriter DEF IInv, TypeOK
  <2>5. NothingLost' /\ LensPlaces'
    BY <1>1, <1>2, <2>1, <2>2 DEF IInv, NothingLost, Opens, Exists, LensPlaces
  <2>6. ServerIsCurrent'
    BY <1>1, <1>2, <2>1, <2>2, <2>3 DEF ServerIsCurrent, Attached
  <2> QED
    BY <1>1, <2>3, <2>4, <2>5, <2>6, NoJobHasFile DEF IInv, Attaches, OneCopy
<1>3. CASE UNCHANGED <<disk, ephemeral>> /\ TakesOver(f)
  <2>1. ephemeral' \subseteq Paths
    BY <1>3 DEF IInv, TypeOK
  <2> QED
    BY <1>1, <1>3, <2>1, TakenOver
<1> QED
  BY <1>2, <1>3 DEF CleanEnds

LEMMA NextSound == IInv /\ [Next]_vars => IInv'
<1> SUFFICES ASSUME IInv, [Next]_vars
             PROVE  IInv'
  OBVIOUS
<1>1. ASSUME NEW p \in Paths, StartServer(p)
      PROVE  IInv'
  BY <1>1, StartServerSound
<1>2. CASE StopServer \/ SearchTool
  BY <1>2, StopServerSound, SearchToolSound
<1>3. ASSUME NEW x \in Items, DeleteTool(x) \/ WriterSaves(x)
      PROVE  IInv'
  BY <1>3, DeleteToolSound, WriterSavesSound
<1>4. ASSUME NEW x \in Items, NEW marks \in BOOLEAN, Store(x, marks)
      PROVE  IInv'
  BY <1>4, StoreSound
<1>5. ASSUME NEW always \in BOOLEAN, Reloads(always)
      PROVE  IInv'
  BY <1>5, ReloadsSound
<1>6. ASSUME NEW q \in Paths, OpenTool(q) \/ CreateTool(q)
      PROVE  IInv'
  BY <1>6, OpenToolSound, CreateToolSound
<1>7. ASSUME NEW verb \in {"init", "sync"}, NEW p \in Paths, WriterStarts(verb, p)
      PROVE  IInv'
  BY <1>7, WriterStartsSound
<1>8. CASE WriterOpens \/ InitSucceeds \/ WriterEnds
  BY <1>8, WriterOpensSound, InitSucceedsSound, WriterEndsSound
<1>9. ASSUME NEW dry \in BOOLEAN, CleanDropsBrain(dry)
      PROVE  IInv'
  BY <1>9, CleanDropsBrainSound
<1>10. CASE CleanRuns \/ CleanEnds \/ CleanEndsUnread
  BY <1>10, CleanRunsSound, CleanEndsSound, WriterEndsSound
<1>11. CASE UNCHANGED vars
  BY <1>11 DEF vars, IInv, TypeOK, NothingLost, Opens, ServerIsCurrent, Attached,
               Attaches, OneCopy, LensPlaces, WriterHasFile
<1> QED
  BY <1>1, <1>2, <1>3, <1>4, <1>5, <1>6, <1>7, <1>8, <1>9, <1>10, <1>11 DEF Next

-----------------------------------------------------------------------------
(***************************************************************************)
(* The invariants.                                                         *)
(***************************************************************************)
\* What holds between tool calls and between the steps of a writer.
THEOREM ServerSound == Spec => []IInv
BY InitSound, NextSound, PTL DEF Spec

\* Every variable has its type.
THEOREM ServerTypes == Spec => []TypeOK
<1>1. IInv => TypeOK
  BY DEF IInv
<1> QED
  BY <1>1, ServerSound, PTL

\* Whatever the order of tool calls, of the steps of a writer beside the
\* server, of failures and of restarts: what a save has put into a file is in
\* it until it is deleted or cleaned, create is called on that file, or a save
\* writes over what its saver had not read (handler.rs handle_open,
\* handle_create, handle_init, handle_clean, new).
THEOREM OnlyOverwritesLose == Spec => []NothingLost
<1>1. IInv => NothingLost
  BY DEF IInv
<1> QED
  BY <1>1, ServerSound, PTL

\* The server answers from and saves to what is in the attached file, but
\* after the calls that make it fall behind (handler.rs:3161).
THEOREM CurrentUnlessBehind == Spec => []ServerIsCurrent
<1>1. IInv => ServerIsCurrent
  BY DEF IInv
<1> QED
  BY <1>1, ServerSound, PTL
=============================================================================
