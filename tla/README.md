# The `.said` brain in TLA+

This directory models what the repository does around one kind of file, the
`.said` brain: the frame table, the file and the processes that share it, the
server that is attached to one, the indexes beside the table, the document
vault that lives in it and the coding loop that learns into it. TLC checks small
instances; TLAPS proves the safety results about each of these parts for every
value of the constants.

Paths below are relative to `src/`; `frames.rs` and `said_file.rs` are
`src/crates/sca-core/src/frames.rs` and `.../said_file.rs`.

## 1. The system

A *brain* is one `.said` file. It holds *frames* (texts with a `doc_id`,
a status, tags), compressed in blocks, next to search indexes, learned weights
and, for a document vault, byte-exact originals. A command line, an MCP server
and a coding loop work on it.

| component | state | operations | hard behaviour | what makes it correct |
|---|---|---|---|---|
| Frame table, `frames.rs` | `frames`, `pending`, `doc_id_map`, `next_id`; per frame status Active / Tombstone / Deleted, hold tags | put, delete, tombstone, restore, holds, three retention paths, compact, flush | long sequences of calls: indices that move, a map that is rebuilt only sometimes, history and purge | one current version per document; history is never lost but by a purge, and never under a hold; a purged frame never returns |
| `.said` file, `said_file.rs` | mapped file, offsets, blocks and `block_map`, block cache, dirty flag, `.said.tmp`, `.said.spill` | create, open, remember, forget, read, compact, save, save_brain_only, spill, serialize_to_bytes, checkout | payloads that move between three encodings and two offsets; a save that fails or dies half-way | every version reads back as it was put; the file on disk is always one whole save |
| Several processes on one brain | the file, one shared `.said.tmp`, each process's copy of the table | CLI commands, MCP tools, reload on drift | interleaved saves, lost updates | no mixed or torn file; a saved version is not lost |
| Search indexes, `trigram_index.rs`, `symbol_index.rs`, `word_index.rs` | postings by position in a list of doc ids | rebuild, search | built between compact and save; stale positions | a hit names the document that contains it |
| Crystalline index and recall, `crystalline.rs`, `engine.rs`, `ask.rs` | fingerprints, vocabulary | build, query, incremental build | stale fingerprints | numerical quality |
| Weights and consolidation, `brain.rs`, `dream.rs`, `salience.rs` | weights in the BRAN section | learn, decay, dream | saved apart from the rest | other sections are left as they were |
| Audit log of a brain, `sca-core/src/audit.rs` | hash chain | append, verify | crash between change and entry | the chain verifies |
| Document vault, `said-vault/src` | manifests, parts shared by content, retention records, originals, certificates, audit chain, all in one brain | ingest, rebuild, restore, delete, retention, hold | parts shared by documents; delete that keeps history; unreadable records | a document that was not deleted can be rebuilt; none under a hold is deleted |
| Parsing and rebuilding, `said-vault/src/parser`, `rebuild` | none | pure conversions | | round trip |
| Coding loop, `said-orchestration/src` | source tree, attempts, pending failure | recall, plan, design, code, apply, gate, repair, learn | partly applied change-sets, bounded repairs | only what passed the gate is learned |
| MCP server, `said-mcp/src` | `Arc<Mutex<SaidFile>>`, current brain | one tool call = lock, operate, save | commands it spawns, and one tool beside its own brain, write the attached file; lenses; placeholders | what it holds is the file, and its saves undo nothing |
| Command line, `said-cli/src` | none of its own | one command = open, operate, save | runs beside a server | |
| Code editing, ingestion, grammars, LSP | source files | text edits, readers | | |
| Licence, signatures, LLM client, prompts, forge, older storage layers | little or none | | | |

**How they interact.** `SaidFile` owns the `FrameStore` and calls it directly;
the vault and the coding loop call `SaidFile` on a borrowed brain; the MCP
server wraps it in a mutex, so a tool call is one operation; a CLI command
opens the file, works alone in its process, saves and exits. Processes share
nothing but the file. The order in which entry points call the library is part
of its correctness: `compact` is always followed by `save`, and restore,
retention and drop-history start from a saved store (`said-cli/src/main.rs`
1758, 1899, 4330; `said-mcp/src/handler.rs` 1940, 2043).

`PROJECT.json` lists the components with their status and the hazards of the
code, each at its line with the properties that cover it.

## 2. Modules

| module | models | refines / composes |
|---|---|---|
| `VersionStore` | what a brain promises of versions: head, history, holds, purge | abstract |
| `DurableVersions` | the same, with what is saved: save and crash are atomic | EXTENDS `VersionStore` |
| `FrameStore` | the frame table: status, holds, map, order of every frame | implements `VersionStore` |
| `SaidFile` | one process and its file: payloads, spill, blocks, cache, save step by step, failures, crash, open | INSTANCE `FrameStore`; implements `DurableVersions` |
| `SharedBrain` | several processes on one file and one `.said.tmp` | takes `SaidFile`'s save apart into file-system steps, an image being a set of texts |
| `McpServer` | the brain the server is attached to, and a writer beside it | save as one step, justified by `SaidFile` and `SharedBrain` |
| `SearchIndex` | when the fingerprint matrix, trigram index and symbols are built, trusted, saved | the table as documents with a text |
| `VaultContract` | what the vault promises: documents, originals, locks, what is saved | abstract |
| `Vault` | parts shared by content, manifests, retention, erasure, certificates, log | implements `VaultContract`; frames behave as `FrameStore` says |
| `CodingLoop` | a run: plan, design, code, apply, gate, repair, learn | the brain as a store of fixes |
| `FrameStore_proofs` | type correctness, safety of the table; `FrameStore` implements `VersionStore` | EXTENDS `FrameStore`, TLAPS |
| `SaidFile_proofs` | `SaidFile` implements `DurableVersions` | EXTENDS `SaidFile`, INSTANCE `FrameStore_proofs` |
| `SaidBytes_proofs` | the bytes are where the bookkeeping says; every version reads back | EXTENDS `SaidFile_proofs` |
| `SharedBrain_proofs`, `McpServer_proofs`, `SearchIndex_proofs`, `Vault_proofs`, `CodingLoop_proofs` | safety of the module each is named after; that `Vault` implements `VaultContract` | EXTENDS that module, TLAPS |
| `MC...` | small instances | |

### FrameStore

A frame never leaves the table, so the table is a function from frame id to
document, status, holds and *position*: the place in `frames` followed by
`pending`. `flushed` is `frames.len()`; the code's test `idx <
self.frames.len()` is `Committed`. `docMap` is `doc_id_map`. Every operation of
`FrameStore` that changes status, holds, order, map or next id is an action of
the same name. `phase` records what callers do: `"mustSave"` after
`compact`, `"panicked"` after an index out of bounds in restore.

Two regimes, by `AdminOnSaved`. TRUE: restore and retention run on a saved
store (`Settled`), as the CLI and the server call them. FALSE: any order of
library calls. In the second regime a restore of a pending version breaks the
map (section 6), so only hold protection (run `table_library`) and type
correctness (a theorem) are claimed.

Abstractions: the map holds ids where the code holds indices (they agree
whenever the map is used: only a `compact` that returns early moves frames and
keeps the map, and `save` follows); `created_at` orders frames as ids do;
`superseded_by`, `semantic_delta`, `pillar` and other tags are read by no
operation modelled; `Zstd` and `Brotli` single-frame encodings behave as
`Plain`.

### SaidFile

The payload of a frame is named by its id. A file is a sequence of cells, each
raw bytes or a packed block; an offset is an index, 0 is "not yet written",
and a stale offset reads whatever is in that cell now. `pay` is the encoding,
offset and pending bytes of a frame, `blocks`/`slot` are `blocks`/`block_map`,
`cache` is `block_cache`, `data` is the mapped file, `disk` and `tmp` are
`.said` and `.said.tmp`. `compact` is one action with three outcomes (too few
frames, training failed, packed). `save` is three actions, cut where it can
fail or the process can die: laying out and committing in memory, writing
`.said.tmp`, renaming. `save_brain_only` is two. A crash during a write may
leave a torn `.said.tmp`. `open` removes `.said.tmp` and reads `.said`.

A reachable subtlety the model keeps: a `compact` that is skipped turns the
leader of an old block into a raw pending frame while `block_map` still names
it, and the save then writes the raw bytes as the block. `AllReadable` shows
that this is harmless, since all its frames have been unpacked by then.

The spill of `said init` is the end of a `remember`: whether the pending buffer
is over its budget is left open, and `pc = "spilling"` keeps every other
operation out until it is done. `.said.spill` is seeded with the mapped cells,
the pending payloads go behind them at `spill_offset` (`end`), their frames are
committed, and the process maps it in place of the file. It outlives the
process that dies; `Swept` says whether whoever restarts removes it, as the
repository's tests do before they begin.

Not in `SaidFile`: `serialize_to_bytes`, `checkout_version` (a read and a put)
and the index sections, for which see `SearchIndex`.

### SharedBrain

A name leads to an inode. `fs::write` is two steps, `Truncate` (the image is
torn, under the descriptor the process holds) and `SaveWrites`; rename and
remove act on names, also while another process has the inode open. `open()`
is two steps as well: it removes `.said.tmp`, then reads. Nothing is locked, so
any commands start beside any others (`Start`), writers too: two savers may
hold one inode, and the bytes of one then lie over those of the other (`Left`).
A torn file is refused by its checksum; `said init` goes on with a new brain in
memory (`OpenRefuses`). `told` is the set of texts whose save returned Ok to
somebody. Inodes that nothing refers to are emptied, which keeps the state
finite.

The code does lose and tear here (section 6). `clash` is a history variable:
it records that two saves have overlapped (`"saves"`) and that a rename has
replaced an image its process had not opened (`"updates"`), and no action reads
it. The properties say that nothing else tears the file or loses a text: not a
crash between any two steps, not an `open()` that clears another's `.said.tmp`,
not a failed rename, not a save after either.

A process does one operation that saves and exits, as a command does; a server,
which saves again and again, is in `McpServer`.

### McpServer

`disk` maps every file name to its items, to a lens or to nothing; `path`,
`mem`, `at`, `mapped`, `ephemeral` are `said_path`, the brain in memory, the
path it saves to, its mapped bytes and the set of placeholders. The server may
be started on any name (`StartServer`): a placeholder, by its name (`Reserved`)
or by being empty, gives way to the one populated brain beside it (`Promoted`),
and a lens leads to its parent (`Attached`). A tool call is one step, as the
brain's mutex makes it.

`job` is the writer beside the server, in steps between which any tool may be
called, because nobody holds the mutex: the command of `init` or
`harvest_blueprints` (open, or create over what cannot be opened; save), that of
`clean` (also as a dry run, also failing), and `forge_sync`, which does the same
inside the server and reloads nothing. It may fail before or after its save, and
outlives a server that is stopped. What is taken over afterwards is opened by
the path of the time of the spawn, and if it cannot be opened the old copy stays
(`TakesOver`). `create` writes over any file that is not big, with items in it
or not, as the code does.

Two history variables, which no action reads, say where the code makes the
server miss something or a file lose something. `behind` becomes TRUE when a
writer saves, or a clean removes, the attached file or the one the server saves
to; when `create` is called on the parent of the attached lens, or on the
attached file and that cannot be opened afterwards; when `clean` drops the copy
in memory, a dry run included; when a command that ends brings in a file other
than the attached one; and by a save of a brain whose path is not the attached
one's. It becomes FALSE when the attached file is opened or saved to.
`kept` is what each file owes its users: what was saved into it since and not
deleted, cleaned or overwritten by `create`; a save that writes over bytes its
saver had not read (`Aligned` is false, or the file is not what the writer opened)
starts it anew with what it writes.

`snapshot` also spawns a command, which opens the brain and saves only a lens
file (`said-cli/src/main.rs:6744`), so there is nothing to reload and it is not in
the model; nor are `overview` and `harvest_scan`, which only read.

### SearchIndex

A brain is a record: the text of each document, the documents packed but not
yet saved (unreadable until then), the rows of the matrix as a bag, the list
of encoded documents (`corpus_ids`) with its size when last built, the query
cache, `trigram_doc_ids` with whether there are postings, the symbols and the
symbols found but not yet merged. `BuildIndex`, `Rebuilt`, `Compacted`,
`Reopened` are what the functions of those names make of it, and each command
composes them in the order of the code. `unbuilt` and `declared` remember what
was put without a build and which symbols an init found.

Abstractions: the cache of decompressed blocks is ignored (`SaidFile` has it);
the encoder is taken to be there; a definition has one symbol; the documents
stand for members of a larger table, so that a compact may pack or not; one
blueprint is harvested per init.

### Vault

`manifest` is a document's manifest and tier; `active` and `history` are parts
with an Active frame and with a forgotten one; `original` is the section of
byte-exact originals; `record`, `cert`, `log` are retention records,
certificates and audit events, all frames of the brain and so all lost or kept
together (`saved`, `Reopen`). `Ingest` is the path of a borrowed brain (logged,
saved by the caller), `IngestOwned` that of `SaidVault` (saved, not logged).
`deletable()` and what `delete_document()` removes are operators of their own.
The refinement maps the vault to the documents that can be rebuilt, those that
can be restored byte for byte and those that are locked.

### CodingLoop

`tree` is the working tree, a content for each file; an edit names the content
its anchor was found in, or `Whole` for a write-file. `Apply` writes file after
file until one edit does not resolve and undoes nothing, so a failed change-set
leaves a part of itself. `Code`, `TestGreen`, `TestRed`, `Repair` and the three
ends of learning are the steps of `run_with_skills()`; a call of the model may
fail wherever there is one, and the process may be killed between two files.
What is stored is `coded`, the change-set of the code step, as
`steps/mod.rs:278` passes it; with it `store` remembers, as history, the tree the
run found and how many attempts it took. `FirstTryVerified` is about those
edits: stored after one attempt, they apply whole to that tree and make one that
builds and passes. After a repair they do not (`unverified_fix`).

## 3. Runs

| run | instance | shows |
|---|---|---|
| `table` | 2 documents, 2 cases, 3 puts, callers as shipped | `TypeOK`, `HeadMapped`, `MapSound`, `HeldNeverReclaimed`, `DeletedIsFinal`, and that the table implements `VersionStore` |
| `table_library` | the same, any order of calls, restores that panic | `HeldNeverReclaimed` |
| `bytes` | 2 documents, 3 puts, blocks of 2, spills, crashes | `TypeOK`, every version reads back (`AllReadable`), also from the file alone (`SaveRoundTrips`), the file implements `DurableVersions` |
| `recovery` | 1 put, holds, vault, cached reads; spill, training, write and rename may fail | `DurableVersions` still implemented; the process always gets back to work |
| `shared` | 2 writers at once, each of which may be an init or an ask, 1 reader, 1 text, 3 inodes | only overlapping saves tear the file (`SaidWhole`); only they and a save over what was not read lose what was reported saved (`SavedStays`); every command ends |
| `server` | a placeholder by name, a brain, a lens on it; 2 items; files are "big" from 2 items on; one writer beside the server | a file loses only by what is listed in section 2 (`NothingLost`); the server holds what is in its file unless it is `behind` (`ServerIsCurrent`) |
| `vault` | 2 documents with a shared part, 3 parts, rules for one of them, 3 events | `Certified`, `NoOrphans`, and that the vault implements `VaultContract` |
| `loop` | 2 files with 4 contents, 6 change-sets, 3 attempts | `GreenWorks`, `FirstTryVerified`, every run ends |
| `index` | 3 documents, 2 texts | `SymbolsKept`, `HasRow`, `StoredIsEncoded` |
| `stale_spill`, `unverified_fix`, `grep_misses` | one finding each | section 6 |

**Bounds and why they are enough.** Three puts on two documents give a
document with a head and two versions of history beside one with another head:
the smallest table where "newest of the history", "keep n" (with n = 1),
displaced heads and frames that overtake each other in a `compact` differ from
their neighbours. `MinCompact` is 2 instead of 10, so that both sides of the
gate happen with three frames; `BlockSize` is 2 instead of 256, so that there
is a full block and a short one. Two cases separate "some hold" from "all
holds". In `recovery` one frame is enough, since a file image is written
whole: what differs is the point of failure, and all of them occur, on top of
every earlier failure.

In `shared` two writers are what it takes for two saves to overlap, and a third
process for a `.said.tmp` to be cleared under both; a writer may ask, remember
or run into a torn file each time it is started, any number of times. One text is
enough to tell an old image from a new one, and the third inode keeps both names
and a new file apart. In `server` three paths are one to be promoted from, one
to be promoted to and a lens on it; two items separate the empty, the small and
the big file. One writer beside the server at a time is a bound (`Spawn`): two
commands beside each other are in `shared`. In `vault` one part is shared and each document has one of
its own, so that who goes first matters; the log is long enough (`MaxEvents`)
for two erasures of one document, since the ingests of `SaidVault` are not
logged; the clock passes each date (`MaxTime`). In
`loop` both files must change and the change-sets fail in every way there is:
no parse, wrong text, anchor not found after the first file was written, a
guarded write-file. In `index` `MaxRows` and `MaxUnbuilt` bound the rows that
incremental builds append and the documents put without a build; `MaxChanges`
bounds what one init finds changed, and loses nothing here: without it the same
151540 states are reachable, over more paths.
Symmetry is used for safety properties only.

**Fairness.** `recovery`: `WF_vars(Finish)`: a spill or save that has begun runs
on or fails, and a process that died is started again. It is one thread that
executes `save`, without waiting for anyone; the second is the user who runs
the next command. `shared`: weak fairness of each process's own steps and of
its exit: the operating system runs every process and none waits for a lock.
`loop`: weak fairness of the run's steps: a model call ends by the provider's
timeout (`said-llm/src/providers/anthropic.rs:36`); the build and test commands
have none and are assumed to end. Nothing is assumed about clients: nobody ever
has to start a command, and a process may die at any step.

**Deadlock** is checked in every run but `table_library`, where a process may have
panicked.

## 4. Proofs

### The frame table

`FrameStore_proofs` proves, for all documents, cases, bounds and keep counts:

* `TypeCorrect`: `Spec => []TypeOK`, in both regimes. It says among other
  things that every map entry names an existing frame and every position lies
  in the table, so each action that reorders (`Compact`) must be shown to
  count within bounds; this uses finite-set cardinality.
* `HoldsProtect`: `Spec => HeldNeverReclaimed`, in both regimes.
* `HeadsMapped`, `MapsSound`, `PurgesFinal` under the assumption
  `AdminOnSaved`: the map names the one Active frame of a document, never
  leads to a purged frame, and Deleted is final.

`HeadMapped` is not inductive alone: `Restore` puts its frame into the map only
when it is committed, and `Delete` acts on whatever the map names. The
inductive invariant is `Inv == TypeOK /\ HeadMapped /\ MapSound`; each action has
a lemma that it preserves the three parts, and the temporal step combines them.
`Rebuilt` needs that of several Active frames of a document there is only one,
which `HeadMapped` gives.

The second half of the module proves `VersionsImplemented`: `Spec =>
ImplementsVersions`, again under `AdminOnSaved`. Initial states map to initial
states, and each action maps to `Write`, `Forget`, `Restore`, `Hold`,
`Release`, `Purge` or a stutter, with `Inv` as invariant on both sides.
Tombstoning a head is `Forget`; `compact` and `save` stutter, because the head
of a document is the one Active frame in any order and by any map.

### The file

`SaidFile_proofs` proves `VersionsAreDurable`: `Spec => ImplementsDurable`, for
any documents, frames, blocks and any set of calls that may fail, under
`AdminOnSaved`. The rename is the one step that changes what is saved.

The lemmas of the frame table are brought in by INSTANCE, with their
assumptions proved from `SaidFile`'s. They cannot be used as they stand:
`SaidFile`'s steps are not all `FrameStore`'s. A compaction moves only the frames
it can read, `open` makes a table out of what it reads, a crash leaves an empty
one. So the inductive invariant `Kept` says that the table satisfies
`FrameStore`'s `Inv`, that the table on disk would (`KeptTable`: in particular no
document has two Active frames, else `open`'s map would depend on the order of
the frames), and that what is about to be renamed holds the table of the process
(`written`) or that of the file (`brain`). A step of the table is then mapped by
the lemmas of `FrameStore_proofs`; the remaining steps are a save, a crash or a
stutter.

### The bytes of the file

`SaidBytes_proofs` proves three theorems, for any documents, frames, bounds and
size of a block:

* `FileWellFormed`: `Spec => []TypeOK` under `AdminOnSaved`, whatever fails.
* `VersionsReadable`: `Spec => []AllReadable` under `Quiet` and `~LongLived`.
* `SavesRoundTrip`: `Spec => []SaveRoundTrips` under `Quiet`, thus also for a
  server that reads between compactions and whose cache is stale.

*Lists.* `compact` and `save` list frames by position and blocks by number, and
the model defines the n-th of them by counting what comes before it. That such
a list has every member exactly once is a fact about injections between finite
sets of one size (`Ranking`); it needs positions to differ, which is therefore an
invariant (`Ordered`) and must survive the renumbering of `compact`
(`Reordering`). From it follow that a frame's slot in the blocks leads to its own
payload (`PackedBlocks`, by division with remainder, so for any `BlockSize`), that
what `save` lays out is at the offset it records (`LaidOut`), and that a spill puts
each payload behind the mapped cells where its frame says (`Committing`, `Spilled`).

*Types.* `TypeOK` says of the memory what must also hold of the file, or a crash
and an `open` would break it, and of the image between the writing of `.said.tmp`
and its renaming. `Typed` is all three, with `Kept`.

*Payloads.* `AllReadable` speaks of a process that is idle after a save. `Safe` says
where a payload is at every other moment: after a compaction, before the save,
in the pending buffer or in the block that a leader carries (`Sourced`), although
`Read` does not find it there; while a save is under way, in the image it laid out;
on disk, where the saved offsets say, which is what an `open` goes on with.
`NoLeftovers` says that `.spill`, if there is one, is the mapped file.

`Quiet` is `Faults = {}` and `Swept \/ ~Spilling`. Neither can be dropped, nor
`~LongLived` for `AllReadable`: each of training, write, rename and spill may lose the bytes of
frames that the table already calls saved; a `.spill` left by an `init` that was
killed shifts every offset (`stale_spill`); and `compact` does not clear the cache
(section 6). TLC checked `Typed`, `Safe` and `NoLeftovers` on the instances of
`bytes` and, with `LongLived`, `Vault` and no spilling, on a larger one of 3 million
states; `Typed` also on that of `recovery`.

### The other components

| module | inductive invariant | why the properties alone do not carry it | theorems |
|---|---|---|---|
| `SharedBrain_proofs` | as long as no saves overlap: at most one process is in its save, its inode is not the one `.said` names, and once written holds what it will tell; as long as there is no clash at all, `.said` holds all that was told | `SaidWhole` speaks of the name `.said`, which a rename moves to the inode of a writer that others may clear under its hands | `SharedTypes`, `TornOnlyByTwoSavers`, `LostOnlyByARace` |
| `McpServer_proofs` | `NothingLost`, `ServerIsCurrent`; a running server has a brain attached; it holds the bytes it mapped; lenses are only in lens files; a writer has a file | a save writes what the server holds, so it must hold all that the file owes whenever the file is what it has mapped | `ServerTypes`, `OnlyOverwritesLose`, `CurrentUnlessBehind` |
| `Vault_proofs` | the vault *and what was saved of it* are well formed, complete (a document has its parts) and registered (certificates match the log) | a crash goes on from `saved`, about which the properties say nothing | `VaultTypes`, `NothingOrphaned`, `EveryErasureCertified`, `PromiseKept` (the refinement) |
| `CodingLoop_proofs` | which tree the change-set of the code step made, that attempts are counted, that learning follows a green gate at once | both properties speak of the end of a run | `LoopTypes`, `GreenIsGreen`, `FirstTriesVerified` |
| `SearchIndex_proofs` | the corpus lists nothing without a row and misses nothing but what was put without a build; the query cache misses no declared document; for the types, that frames are unreadable and symbols pending only within a command, and that the rows are finitely many | a build goes by the corpus and a rebuild of the symbols by the cache, of which the properties say nothing | `IndexTypes`, `SymbolsAreKept`, `RowForEveryDocument`, `NewTextEncoded` (an action property) |

None of these has a hypothesis: the theorems are about `Spec` as it stands, for any
number of writers, readers, files, lenses and items.

Each inductive invariant was first checked by TLC on the instance of the
component's run, as an invariant of that run.

### Assumptions

The theorems rest on the ASSUMEs of the modules and nothing else: bounds are
naturals, blocks and compactions are not empty, and a value that stands for
"absent" or "torn" (`None`, `NoFile`, `Torn`) is not also a value of what may be
there, as Rust's `Option` and the file's checksum make it; `Junk` and `Missing` are
no frame's payload, frames being numbered. `SharedBrain` also
takes its commands, and `SearchIndex` its documents, to be finitely many. The runs evaluate all of them.

### Model-checked only

* `BackToWork`, `EveryCommandEnds`, `EveryRunEnds`: liveness under fairness.

`SearchIndex` counts its rows as pairs of a row and a copy number (`RowCount`): the
cardinality of a bag is defined by recursion over it, and induction over data is
out of the provers' reach. No module declares a RECURSIVE operator.

## 5. Properties and how they can break

Every property of a passing run is broken by a plausible bug in the code, as
listed under `mutants`; the mutant definition stands before the one it
replaces. Frame table: entering the map after the push; leaving the old head
Active; administrative commands on an unsaved table; a hold that counts only
with all cases; purged frames among the history; restoring the oldest version.
File: a forgotten short block; bug 8 of the code's own log (inline frames of a
compacted file not copied forward); raw offsets counted as if no block came first;
taking the torn-write file for the newer one; refusing to open after a crash. Several processes: writing in place;
taking a rename for granted; reporting a failed save as done; taking
`.said.tmp` for a lock. Server: a placeholder that is not saved; looking at a
file's size alone before removing it; going on with the old copy after init, clean
or create.
Vault: removing shared parts; counting parts of documents that are gone; a
certificate that is never replaced; a missing date. Loop: passing on the build
alone; dropping what apply returns; counting only change-sets that applied; one
attempt more. Indexes: dropping the rows that stay, the symbols of the last
table, or the test that something is new; not mapping the new file.

## 6. Where code and documents disagree

Three violation runs each check one sentence of a comment.

* `stale_spill`: `spill_pending_to_disk` takes a `.spill` that is there for its
  own. One left by an init that was killed is appended to, while `spill_offset`
  starts at the header: spilled frames get the offsets of other bytes, and the
  save writes those. `said_file.rs:925` says the save "round-trips unchanged".
  Any save of the brain in between removes the file and with it the problem; so
  does removing it by hand, as the tests do.
* `unverified_fix`: what is learned is the first change-set, also when it failed
  and a repair made the gate green; `said-orchestration/src/recall.rs:20` calls
  it "the edits that built+passed".
* `grep_misses`: grep trusts the trigram index of the last `compact`, which
  lacks the documents stored since, and whose postings are empty when that
  compact packed; `said_file.rs:2017` says "across ALL stored frames".

Seen by changing one constant of a run:

* `shared` with the invariant `inode[name.said] # Torn`, that is `SaidWhole`
  without its antecedent, fails in a trace of 11 states: one command has written its
  `.said.tmp`; another opens the brain, which removes it, and begins to save, which
  makes a new and still empty one; the rename of the first puts that under the
  name `.said`. Every command then refuses the file, and `said init` replaces it by a new
  brain, although `said-cli/src/main.rs:2871` says "init NEVER wipes history".
  Against it stand `docs/said-structure/36-streaming-memory-model.md:67`
  ("Crash-safe ... written via temp-then-atomic-rename"), `said_file.rs:7` ("WAL-safe
  write (atomic rename)") and `said-mcp/src/handler.rs:3415`, which speaks of a file
  lock that does not exist.
* `shared` with `told \subseteq inode[name.said]`: of two commands that opened the
  same image the later rename undoes the earlier save. `said ask`, which ends with
  `save_brain_only` and writes back the bytes it opened, does so without changing
  anything itself; `said-cli/src/main.rs:3734` says "Safe to call after every search".
* `bytes` with `LongLived = TRUE`: `compact` does not clear the cache of
  decompressed blocks, so a server that read before it compacted a second time
  answers with the old block's text (`AllReadable`). `read_frame` catches most
  of these by its checksum; `read_frame_by_id` has none.
* `bytes` with `Faults = {"write"}`: a failed write leaves the frames put since
  the last save without bytes in memory; the file is untouched. With
  `"train"`: `compact` returns after it emptied the pending frames. With
  `"spill"`: an append that fails loses the drained payloads, although
  `said_file.rs:902` says "the frames remain in `pending`".
* `server` without the antecedent `~behind`, or with a `kept` that is not started
  anew by a save over unread bytes, fails in each of the ways listed in section 2. A dry
  run of `clean` leaves an empty brain in memory, which the next save writes over
  the file. `create` writes an empty brain over any file of less than 32000 bytes,
  although `handler.rs:3312-3314` says that a brain with content "should never be
  silently wiped". After an init that saved and then failed, and after any
  `forge_sync` of the attached brain, the server keeps its old copy, and its next
  save undoes what they stored. An `open` during init or clean leaves the brain of
  one file attached to the path of another, which `handler.rs:3161` means to prevent.

Without a run:

* `admin_restore_tombstoned` on a pending version does not enter it into the
  map, and the next put leaves two Active frames (not reachable by the shipped
  commands); a version written under a hold carries no hold tag;
  `save_brain_only` drops the section of vault originals.
* `2.5-version-history.md:77-85` and `2.1-v7_1-header.md:86` say that every save
  goes through `state::write_safe` with file and directory synced, while `save`
  is a plain `fs::write` and `rename`, and neither function syncs; `tombstone`
  leaves a map entry that `3.4-framestore.md` says holds Active frames only; a
  plain save drops the payload of a Deleted frame before any compact, against
  `14.14-byte-exact-restore.md:40`.
* Vault: a legal ingest of a document that was taken in slim returns Ok and keeps
  no original; a second erasure replaces the first certificate (the log keeps
  both); `SaidVault::ingest` writes no audit event; the text of an erased
  document stays in the history until a purge.
* Loop: `steps/mod.rs:250` "nothing valid was applied" is not so for a
  change-set of several files; near-duplicate detection may take a fix of
  another task for this one's and store nothing.
* Server: `is_pristine_brain` looks at active frames only, so a file whose
  history is all that is left counts as empty; when the configured file cannot
  be opened, `new()` starts with an empty brain of that path, and the next save
  replaces the file.
* Indexes: an incremental build keeps the fingerprint of a document whose text
  changed (`said_file.rs:1750` relies on ids whose content never changes);
  errors of `build_index` are swallowed by the handlers.

## 7. Plan

Every safety invariant and action property of a passing run is a theorem. Left to do:

* a server in `SharedBrain`, as a process that saves again and again;
* what the hypotheses exclude and the code nevertheless promises: that with
  failing calls the *saved* versions read back (the failed save's table is in
  memory only until the next save succeeds);
* `serialize_to_bytes`, `checkout_version` and the vault's read errors, which the
  hazards name and no module has.

## 8. Not modelled, and why

Scoring, embeddings and weights are numerical. Parsers and rebuilders are pure
conversions of large formats. Licence and signature checks, prompts and the LLM
client keep no state that the brain depends on. The forge pipeline, half of the
source by lines, is a sequential batch of conversions from schemas and stored
procedures to artefacts. The greater part of `said-cli/src/main.rs`,
`handler.rs` and `crystalline.rs` parses arguments, formats answers and computes
scores; what they do to the brain is in the modules above. So the lines the
definitions stand for are a small share of the repository's, and more lines
would not add behaviour.

Power loss is left out: the code does not sync the file before it renames it,
so what remains is up to the file system; the checksum at open would refuse a
torn file. Encryption of frames is a conversion on the way in and out.

Left out of modelled parts: unreadable manifests, records and events in the
vault, its access roles and the hash values of its chain; what recall puts into
the loop's prompts (it only influences the answer, which is any change-set);
what a lens filters; saves of the server that fail (as steps of a save, they are in
`SaidFile`); two writers beside one server at once; ranking and postings. After a
`compact` that is skipped, the trigram rebuild of `SearchIndex` (`Posted`) takes every
readable document alike, while the code reads through map entries that may be stale
until the save and through the block cache; no property that holds rests on it.
`SaidFile` has no torn `.said`: one process never makes one, so there `cmd_init`'s
path for a brain that cannot be opened is `open` of a good file, and the other branch
is in `SharedBrain`.
