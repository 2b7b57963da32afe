------------------------------ MODULE McpServer ------------------------------
(***************************************************************************)
(* The MCP server: crates/said-mcp/src/handler.rs.  It holds one brain in  *)
(* memory, attached to one of several files.  A tool call is one step, by  *)
(* the mutex of the brain; but some tools spawn the command line, which    *)
(* opens the same file and writes it while other tool calls go on, and one *)
(* (forge_sync) does the same inside the server, beside its brain.         *)
(*                                                                         *)
(* What is hard is that the server's copy and the file are two things that *)
(* every handler must bring together again.  Two history variables, which  *)
(* no action reads, say where the code does not: `behind` when the server  *)
(* misses something, `kept` what a file still owes its users.  The         *)
(* properties say that nothing else is missed or lost.                     *)
(*                                                                         *)
(* A brain is the set of items in it, its size their number; save() is one *)
(* step here (SharedBrain and SaidFile cut it up).                         *)
(***************************************************************************)
EXTENDS Naturals, FiniteSets

CONSTANTS
  Paths, Items, None, NoFile,
  Reserved,   \* the file names that are placeholders by name (.brain.said)
  ParentOf,   \* path of a lens file -> the brain it is a view of
  Lens,       \* what is in a lens file
  BigAt       \* items that make a file larger than 32000 bytes

ASSUME PathAssumption == None \notin Paths /\ Reserved \subseteq Paths
ASSUME ImageAssumption ==
         NoFile # Lens /\ \A image \in SUBSET Items : NoFile # image /\ Lens # image
ASSUME LensAssumption == /\ DOMAIN ParentOf \subseteq Paths
                         /\ ParentOf \in [DOMAIN ParentOf -> Paths \ DOMAIN ParentOf]
ASSUME SizeAssumption == BigAt \in Nat \ {0}

VARIABLES
  disk,       \* path -> the brain in that file, Lens or NoFile
  path,       \* said_path: the file the server is attached to; None: down
  mem,        \* brain: what the server holds
  at,         \* brain.path: the file it saves to; None: down
  mapped,     \* the bytes it has of the file; NoFile: created in memory
  ephemeral,  \* ephemeral_brains: placeholders to be tidied up
  job,        \* the writer beside the server: its verb, how far it is, its
              \* file, what it opened, whether its tool still waits for it
  behind,     \* history: the file has changed since the server opened it
  kept        \* history: path -> what its users have stored and not removed,
              \* from the last save on that wrote over what it had not read

vars == <<disk, path, mem, at, mapped, ephemeral, job, behind, kept>>
server == <<path, mem, at, mapped, ephemeral>>

NoJob == [verb |-> "none", step |-> "none", file |-> None, base |-> NoFile,
          waits |-> FALSE]

Exists(p) == disk[p] # NoFile
Opens(p) == disk[p] \notin {NoFile, Lens}
Size(image) == IF image = NoFile THEN 0 ELSE Cardinality(image) + 1
Big(p) == Opens(p) /\ Cardinality(disk[p]) >= BigAt

\* Mutant: the size alone is looked at.
Small(p) == Opens(p) /\ ~Big(p)
Pristine(p) == Opens(p) /\ ~Big(p) /\ disk[p] = {}

\* The brain that the file of that name leads to.
Attached(p) == IF p \in DOMAIN ParentOf /\ disk[p] = Lens THEN ParentOf[p] ELSE p

-----------------------------------------------------------------------------
Init == /\ disk = [p \in Paths |-> IF p \in DOMAIN ParentOf THEN Lens ELSE NoFile]
        /\ path = None /\ at = None
        /\ mem = {} /\ mapped = NoFile
        /\ ephemeral = {}
        /\ job = NoJob
        /\ behind = FALSE
        /\ kept = [p \in Paths |-> {}]

\* A placeholder gives way to the one populated brain beside it.
Populated == {p \in Paths \ Reserved : Big(p)}
Promoted(p) == IF (p \in Reserved \/ Pristine(p)) /\ Cardinality(Populated \ {p}) = 1
               THEN CHOOSE q \in Populated \ {p} : TRUE ELSE p

\* Mutant: an empty brain is made and not saved.
Unsaved == NoFile
Placeholder == {}

\* The server holds what is in the file now, for saving it there.
Holds(p) == at' = p /\ mem' = disk'[p] /\ mapped' = disk'[p]

\* new(), open_brain(), for any file the server is configured with: a lens
\* leads to its parent, and a brain that is not there is made and saved empty.
StartServer(p) ==
  /\ path = None
  /\ LET q == Promoted(p)
         b == Attached(q)
     IN  /\ path' = q
         /\ disk' = [disk EXCEPT ![b] = IF @ = NoFile THEN Placeholder ELSE @]
         /\ Holds(b)
         /\ ephemeral' = IF Exists(q) THEN {} ELSE {q}
  /\ behind' = FALSE
  /\ UNCHANGED <<job, kept>>

\* The server is stopped; nothing of it is kept.  A command it has spawned
\* goes on, and nobody waits for it.
StopServer ==
  /\ path # None
  /\ path' = None /\ at' = None
  /\ mem' = {} /\ mapped' = NoFile /\ ephemeral' = {}
  /\ job' = IF job.verb = "sync" THEN NoJob ELSE [job EXCEPT !.waits = FALSE]
  /\ behind' = FALSE
  /\ UNCHANGED <<disk, kept>>

\* SaidFile::save() of the brain in memory.  Nothing compares the file with
\* what the server has read of it, or its name with the attached one.
Aligned == disk[at] = mapped /\ at = Attached(path)

SaveAs(image) ==
  /\ mem' = image
  /\ mapped' = image
  /\ disk' = [disk EXCEPT ![at] = image]
  /\ behind' = (at # Attached(path))
  /\ UNCHANGED <<path, at, job>>

\* What is owed after a save: `owed` by the attached file; after a save that
\* was not aligned, what it wrote.
Owes(owed) == kept' = IF Aligned THEN [kept EXCEPT ![at] = owed]
                                 ELSE [kept EXCEPT ![at] = mem']

\* Handlers that store something and save.  Only some of them call
\* mark_populated(): remember, ingest, session_end, ... do, learn_fix,
\* learn_blueprint, sync, the other forge and the lsp tools do not.
Store(x, marks) ==
  /\ path # None
  /\ x \notin mem
  /\ SaveAs(mem \cup {x})
  /\ ephemeral' = IF marks THEN ephemeral \ {path} ELSE ephemeral
  /\ Owes(kept[at] \cup {x})

\* delete
DeleteTool(x) ==
  /\ path # None
  /\ x \in mem
  /\ SaveAs(mem \ {x})
  /\ Owes(kept[at] \ {x})
  /\ UNCHANGED ephemeral

\* search and ask end with save_brain_only(): the mapped bytes are written
\* back, and a brain that was never saved is saved.
SearchTool ==
  /\ path # None
  /\ SaveAs(IF mapped = NoFile THEN mem ELSE mapped)
  /\ Owes(kept[at])
  /\ UNCHANGED ephemeral

\* status reloads when the file has another size than the mapped bytes,
\* sandbox always; neither does when the file cannot be opened.
Reloads(always) ==
  /\ path # None
  /\ Opens(path)
  /\ always \/ Size(disk[path]) # Size(mapped)
  /\ UNCHANGED <<disk, path, ephemeral, job, kept>>
  /\ Holds(path)
  /\ behind' = FALSE

-----------------------------------------------------------------------------
(***************************************************************************)
(* Tools that attach, create and remove files.                             *)
(***************************************************************************)
\* The placeholder that is left behind is removed if nobody has put anything
\* into it.
LeavesPlaceholder(q) == q # path /\ path \in ephemeral /\ Pristine(path)

\* open makes the file that is not there; a lens cannot be opened.
OpenTool(q) ==
  /\ path # None
  /\ disk[q] # Lens
  /\ LET made == IF Exists(q) THEN {} ELSE {q}
         left == IF LeavesPlaceholder(q) THEN {path} ELSE {}
     IN  /\ disk' = [p \in Paths |-> IF p \in made THEN Placeholder
                                     ELSE IF p \in left THEN NoFile ELSE disk[p]]
         /\ ephemeral' = (ephemeral \ left) \cup made
  /\ path' = q
  /\ Holds(q)
  /\ behind' = FALSE
  /\ UNCHANGED <<job, kept>>

\* The server opens file p again and swaps that in, whatever it is attached
\* to; when it cannot be opened it goes on with what it has.
\* Mutant (of Reloaded): it goes on with its copy in any case.
OldCopy(p) == mapped
Reloaded(p) == disk'[p]

TakesOver(p) ==
  \/ /\ disk'[p] \notin {NoFile, Lens}
     /\ at' = p /\ mem' = Reloaded(p) /\ mapped' = Reloaded(p)
     /\ behind' = (p # path)
  \/ /\ behind' = (behind \/ disk'[p] # disk[p])
     /\ UNCHANGED <<mem, at, mapped>>

\* create refuses a file that is big, and writes an empty brain over any
\* other, with items in it or not.
CreateTool(q) ==
  /\ path # None
  /\ ~Big(q)
  /\ disk' = [disk EXCEPT ![q] = {}]
  /\ kept' = [kept EXCEPT ![q] = {}]
  /\ IF q = path THEN TakesOver(q)
     ELSE behind' = (behind \/ q = at) /\ UNCHANGED <<mem, at, mapped>>
  /\ UNCHANGED <<path, ephemeral, job>>

-----------------------------------------------------------------------------
(***************************************************************************)
(* Writers beside the server.  Tool calls go on meanwhile; one writer at a *)
(* time is a bound of the model.                                           *)
(***************************************************************************)
Spawn(verb, step, p) ==
  /\ path # None /\ job = NoJob
  /\ job' = [NoJob EXCEPT !.verb = verb, !.step = step, !.file = p, !.waits = TRUE]

\* init and harvest_blueprints spawn a command for the attached file;
\* forge_sync does what such a command does, with the brain of any directory,
\* and neither locks nor reloads the server's.
WriterStarts(verb, p) ==
  /\ verb = "init" => p = path
  /\ Spawn(verb, "run", p)
  /\ UNCHANGED <<disk, server, behind, kept>>

\* The writer opens the brain; what cannot be opened init starts anew,
WriterOpens ==
  /\ job.verb \in {"init", "sync"} /\ job.step = "run"
  /\ job.verb = "sync" => disk[job.file] # Lens
  /\ job' = [job EXCEPT !.step = "read", !.base = disk[job.file]]
  /\ UNCHANGED <<disk, server, behind, kept>>

\* stores what it found, and saves.
WriterSaves(x) ==
  /\ job.step = "read"
  /\ LET image == (IF job.base \in {NoFile, Lens} THEN {} ELSE job.base) \cup {x}
     IN  /\ disk' = [disk EXCEPT ![job.file] = image]
         /\ kept' = [kept EXCEPT ![job.file] = IF disk[job.file] = job.base
                                               THEN @ \cup {x} ELSE image]
  /\ behind' = (behind \/ job.file \in {path, at})
  /\ job' = [job EXCEPT !.step = "saved"]
  /\ UNCHANGED server

\* The command has succeeded: mark_populated() is called even when the file
\* could not be opened again.
InitSucceeds ==
  /\ job.verb = "init" /\ job.step = "saved" /\ job.waits
  /\ UNCHANGED <<disk, path, kept>>
  /\ TakesOver(job.file)
  /\ ephemeral' = ephemeral \ {path}
  /\ job' = NoJob

\* On an error, before or after its save, the server only reports it; of a
\* command spawned by a server that is gone, and of a sync, nobody takes
\* anything over.
WriterEnds ==
  /\ job.verb \in {"init", "sync"}
  /\ job' = NoJob
  /\ UNCHANGED <<disk, server, behind, kept>>

\* clean with all, or with any brain among its targets: the brain in memory
\* is replaced by an empty one of the attached path before the command runs,
\* also when that is only to show what it would do.
CleanDropsBrain(dry) ==
  /\ Spawn("clean", IF dry THEN "dry" ELSE "run", path)
  /\ mem' = {} /\ at' = path /\ mapped' = NoFile
  /\ behind' = TRUE
  /\ UNCHANGED <<disk, path, ephemeral, kept>>

\* With all every brain of the directory goes, with a target that one; the
\* command may fail before it removes any (no docker).
CleanRuns ==
  /\ job.verb = "clean" /\ job.step = "run"
  /\ \E gone \in {{}, Paths} \cup {{q} : q \in Paths} :
       /\ disk' = [p \in Paths |-> IF p \in gone THEN NoFile ELSE disk[p]]
       /\ kept' = [p \in Paths |-> IF p \in gone THEN {} ELSE kept[p]]
       /\ behind' = (behind \/ {path, at} \cap gone # {})
  /\ job' = [job EXCEPT !.step = "saved"]
  /\ UNCHANGED server

\* Afterwards a file that is gone is saved anew as a placeholder and one that
\* is still there is opened again; not so after a dry run.
CleanEnds ==
  /\ job.verb = "clean" /\ job.step = "saved" /\ job.waits
  /\ \/ /\ ~Exists(job.file)
        /\ disk' = [disk EXCEPT ![job.file] = Placeholder]
        /\ Holds(job.file)
        /\ behind' = (job.file # path)
        /\ ephemeral' = ephemeral \cup {job.file}
     \/ /\ Exists(job.file)
        /\ UNCHANGED <<disk, ephemeral>>
        /\ TakesOver(job.file)
  /\ job' = NoJob
  /\ UNCHANGED <<path, kept>>

CleanEndsUnread ==
  /\ job.verb = "clean"
  /\ job.step = "dry" \/ ~job.waits
  /\ job' = NoJob
  /\ UNCHANGED <<disk, server, behind, kept>>

Next ==
  \/ \E p \in Paths : StartServer(p)
  \/ StopServer
  \/ \E x \in Items : DeleteTool(x) \/ WriterSaves(x)
  \/ \E x \in Items, marks \in BOOLEAN : Store(x, marks)
  \/ SearchTool
  \/ \E always \in BOOLEAN : Reloads(always)
  \/ \E q \in Paths : OpenTool(q) \/ CreateTool(q)
  \/ \E verb \in {"init", "sync"}, p \in Paths : WriterStarts(verb, p)
  \/ WriterOpens \/ InitSucceeds \/ WriterEnds
  \/ \E dry \in BOOLEAN : CleanDropsBrain(dry)
  \/ CleanRuns \/ CleanEnds \/ CleanEndsUnread

Spec == Init /\ [][Next]_vars

-----------------------------------------------------------------------------
Image == (SUBSET Items) \cup {NoFile, Lens}
Writer == [verb : {"none", "init", "sync", "clean"},
           step : {"none", "run", "read", "saved", "dry"},
           file : Paths \cup {None}, base : Image, waits : BOOLEAN]

TypeOK ==
  /\ disk \in [Paths -> Image]
  /\ path \in Paths \cup {None} /\ at \in Paths \cup {None}
  /\ mem # NoFile /\ mem \subseteq Items
  /\ mapped \in (SUBSET Items) \cup {NoFile}
  /\ ephemeral \subseteq Paths
  /\ job \in Writer
  /\ kept \in [Paths -> SUBSET Items]
  /\ behind \in BOOLEAN

\* What a save has put into a file is in it until it is deleted or cleaned,
\* create is called on that very file, or a save, of the server or of a writer
\* beside it, writes over what the saver had not read.  In particular
\* attaching, promoting and tidying up placeholders, starting and stopping,
\* failing commands and whatever happens to another file lose nothing
\* (handler.rs handle_open, handle_create, handle_init, handle_clean, new).
NothingLost == \A p \in Paths :
                 kept[p] # {} => Opens(p) /\ kept[p] \subseteq disk[p]

\* The server answers from, and saves to, what is in the attached file, but
\* from the moment in which another writes that file (a spawned command,
\* forge_sync, create on the parent of a lens), clean empties the copy, or a
\* command for the file that was attached before is taken over, until the
\* file is next opened or saved (handler.rs:3161 "Atomically swap path and
\* brain"; handle_status, handle_init, handle_clean).
ServerIsCurrent == path # None /\ ~behind =>
                     at = Attached(path) /\ disk[at] = mem /\ mapped = mem
=============================================================================
