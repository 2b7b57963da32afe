----------------------------- MODULE SharedBrain -----------------------------
(***************************************************************************)
(* Several processes on one brain.  They share the names .said and         *)
(* .said.tmp and no lock (crates/sca-core/src/said_file.rs: open, save,    *)
(* save_brain_only).  A name leads to an inode; truncating, renaming and   *)
(* removing are single steps of the file system, and the steps of the      *)
(* processes interleave between them, those of two savers too.  SaidFile   *)
(* looks inside one process; here an image is just the set of texts it     *)
(* holds.                                                                  *)
(*                                                                         *)
(* A process is one command of the command line: it opens the brain, does  *)
(* at most one operation that saves, and exits.  `clash` is a history      *)
(* variable: no action reads it, it records the two ways in which          *)
(* processes can spoil each other's work, and the properties say that      *)
(* nothing else does.                                                      *)
(***************************************************************************)
EXTENDS Naturals, FiniteSets

CONSTANTS
  Writers,   \* commands that change the brain; each may be `said init`
  Readers,   \* commands that read it, at any time
  Askers,    \* the commands that may be `said ask`
  Texts, Inodes, None, Torn

ASSUME RoleAssumption == Writers \cap Readers = {} /\ Askers \subseteq Writers \cup Readers
ASSUME TornAssumption == \A image \in SUBSET Texts : Torn # image
ASSUME InodeAssumption == /\ IsFiniteSet(Inodes) /\ None \notin Inodes
                          /\ IsFiniteSet(Writers \cup Askers)
                          /\ Cardinality(Inodes) > Cardinality(Writers \cup Askers)

Procs == Writers \cup Readers

VARIABLES
  inode,     \* inode -> the image in it; Torn while it is being written
  name,      \* the inodes that .said and .said.tmp name
  proc,      \* process -> where it is, what it knows
  told,      \* the texts whose save has returned Ok to somebody
  clash      \* what has happened between processes: "saves" have overlapped,
             \* a save has undone "updates" it had not read

vars == <<inode, name, proc, told, clash>>

Off == [pc |-> "off", mem |-> {}, base |-> {}, buf |-> {}, fd |-> None]

Init == /\ inode = [i \in Inodes |-> {}]
        /\ name = [said |-> CHOOSE i \in Inodes : TRUE, tmp |-> None]
        /\ proc = [p \in Procs |-> Off]
        /\ told = {}
        /\ clash = {}

\* Any command beside any others: the code takes no lock.
Start(p) ==
  /\ proc[p].pc = "off"
  /\ proc' = [proc EXCEPT ![p].pc = "starting"]
  /\ UNCHANGED <<inode, name, told, clash>>

\* open(): a .said.tmp is taken for the remains of a crash.  Mutant: it is
\* taken for a lock.
NobodyWrites == name.tmp = None
MayOpen == TRUE

OpenClearsTmp(p) ==
  /\ proc[p].pc = "starting"
  /\ MayOpen
  /\ name' = [name EXCEPT !.tmp = None]
  /\ proc' = [proc EXCEPT ![p].pc = "reading"]
  /\ UNCHANGED <<inode, told, clash>>

\* The image is mapped, not copied: base is what the process sees of it as
\* long as no two saves have overlapped.
OpenReads(p) ==
  /\ proc[p].pc = "reading"
  /\ inode[name.said] # Torn
  /\ proc' = [proc EXCEPT ![p] = [Off EXCEPT !.pc = "open", !.mem = inode[name.said],
                                             !.base = inode[name.said]]]
  /\ UNCHANGED <<inode, name, told, clash>>

\* The checksum refuses a torn file: the command ends, but `said init` goes on
\* with a new brain in memory, which its save() will put in the place of it.
OpenRefuses(p) ==
  /\ proc[p].pc = "reading"
  /\ inode[name.said] = Torn
  /\ \/ proc' = [proc EXCEPT ![p] = Off]
     \/ /\ p \in Writers
        /\ proc' = [proc EXCEPT ![p] = [Off EXCEPT !.pc = "open", !.base = Torn]]
  /\ UNCHANGED <<inode, name, told, clash>>

Exit(p) ==
  /\ proc[p].pc \in {"open", "done"}
  /\ proc' = [proc EXCEPT ![p] = Off]
  /\ UNCHANGED <<inode, name, told, clash>>

\* fs::write() begins: it truncates the file of that name or makes one.
\* Mutant: the brain is written under its own name.
WriteInPlace == "said"
WriteTo == "tmp"

Saves(p) == proc[p].pc \in {"writing", "written"}

InUse == {name.said, name.tmp} \cup {proc[p].fd : p \in Procs}

Truncate(p, buf) ==
  LET i == IF name[WriteTo] = None THEN CHOOSE n \in Inodes : n \notin InUse
                                   ELSE name[WriteTo]
  IN  /\ inode' = [n \in Inodes |-> IF n = i THEN Torn
                                     ELSE IF n \in InUse THEN inode[n] ELSE {}]
      /\ name' = [name EXCEPT ![WriteTo] = i]
      /\ proc' = [proc EXCEPT ![p] = [@ EXCEPT !.pc = "writing", !.fd = i,
                                               !.buf = buf, !.mem = {}]]
      /\ clash' = IF \E q \in Procs \ {p} : Saves(q) THEN clash \cup {"saves"}
                                                    ELSE clash

\* remember() and save(): the image of what the process knows.
Remember(p, t) ==
  /\ p \in Writers
  /\ proc[p].pc = "open"
  /\ t \notin proc[p].mem
  /\ Truncate(p, proc[p].mem \cup {t})
  /\ UNCHANGED told

\* `said ask` ends with save_brain_only(): the bytes it opened, new weights.
Ask(p) ==
  /\ p \in Askers
  /\ proc[p].pc = "open" /\ proc[p].base # Torn
  /\ Truncate(p, proc[p].base)
  /\ UNCHANGED told

\* The bytes go over those that another has put into the same inode since it
\* was truncated, and may leave an end of them.
Left(p) == IF inode[proc[p].fd] \in {Torn, proc[p].buf} THEN {} ELSE {Torn}

SaveWrites(p) ==
  /\ proc[p].pc = "writing"
  /\ \E image \in {proc[p].buf} \cup Left(p) :
       inode' = [inode EXCEPT ![proc[p].fd] = image]
  /\ proc' = [proc EXCEPT ![p].pc = "written"]
  /\ UNCHANGED <<name, told, clash>>

\* Mutant: the rename is taken for granted.
AnyRename == TRUE
RenameSucceeds == name.tmp # None

\* The rename takes whatever .said.tmp leads to now, and puts it in the place
\* of whatever .said holds now: nobody compares that with what was opened.
SaveRenames(p) ==
  /\ proc[p].pc = "written"
  /\ RenameSucceeds
  /\ name' = [said |-> name.tmp, tmp |-> None]
  /\ proc' = [proc EXCEPT ![p] = [Off EXCEPT !.pc = "done"]]
  /\ told' = told \cup proc[p].buf
  /\ clash' = IF inode[name.said] # proc[p].base THEN clash \cup {"updates"}
                                                 ELSE clash
  /\ UNCHANGED inode

\* Mutant: the error is swallowed and the command reports success.
AsIfSaved(p) == told \cup proc[p].buf
NotSaved(p) == told

\* Another's open() or rename took the file away: the command ends with an
\* error.
SaveRenameFails(p) ==
  /\ proc[p].pc = "written"
  /\ name.tmp = None
  /\ told' = NotSaved(p)
  /\ proc' = [proc EXCEPT ![p] = Off]
  /\ UNCHANGED <<inode, name, clash>>

Crash(p) ==
  /\ proc[p].pc # "off"
  /\ proc' = [proc EXCEPT ![p] = Off]
  /\ UNCHANGED <<inode, name, told, clash>>

\* What a process does on its own once it has been started.
Run(p) == \/ OpenClearsTmp(p) \/ OpenReads(p) \/ OpenRefuses(p)
          \/ SaveWrites(p) \/ SaveRenames(p) \/ SaveRenameFails(p)

Next == \E p \in Procs :
          \/ Start(p) \/ Run(p) \/ Exit(p) \/ Ask(p) \/ Crash(p)
          \/ \E t \in Texts : Remember(p, t)

Spec == Init /\ [][Next]_vars

\* The scheduler runs every process, nobody has to start or call anything,
\* and a command that has done its work exits.
FairSpec == Spec /\ \A p \in Procs : WF_vars(Run(p) \/ Exit(p))

-----------------------------------------------------------------------------
Image == (SUBSET Texts) \cup {Torn}

TypeOK ==
  /\ inode \in [Inodes -> Image]
  /\ name \in [said : Inodes, tmp : Inodes \cup {None}]
  /\ proc \in [Procs -> [pc : {"off", "starting", "reading", "open", "writing",
                               "written", "done"},
                         mem : SUBSET Texts, base : Image, buf : SUBSET Texts,
                         fd : Inodes \cup {None}]]
  /\ told \subseteq Texts
  /\ clash \subseteq {"saves", "updates"}

\* Only two saves that overlap can leave a torn file under the name .said; a
\* command that dies in its save, one that clears another's .said.tmp, one
\* whose rename fails, `said ask` after anything, and a save that undoes
\* another's cannot (said_file.rs save, save_brain_only, open; docs 36
\* "crash-safe ... temp-then-atomic-rename" holds up to there).
SaidWhole == "saves" \notin clash => inode[name.said] # Torn

\* A text whose save was reported as done leaves the file only by overlapping
\* saves or by a save of an image opened before another's save.  In
\* particular a command that clears .said.tmp makes a save fail, and then its
\* writer is told so (said_file.rs save, save_brain_only, open).
SavedStays == clash = {} => told \subseteq inode[name.said]

\* Nobody waits for anybody, with any number of writers: every command that
\* was started comes to its end, with the brain open or with an error
\* (said_file.rs open).
EveryCommandEnds == \A p \in Procs : proc[p].pc = "starting" ~> proc[p].pc = "off"
=============================================================================
