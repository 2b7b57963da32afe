----------------------------- MODULE SearchIndex -----------------------------
(***************************************************************************)
(* The indexes beside the frame table (crates/sca-core/src/said_file.rs):  *)
(* the fingerprint matrix of the engine and corpus_ids, the list by which  *)
(* build_index() decides what it need not encode again; the trigram index  *)
(* grep() trusts; the symbol table, which names documents by their place   *)
(* in trigram_doc_ids.  They are built by different calls, dropped and     *)
(* rebuilt across saves, and nothing compares them with the table.         *)
(*                                                                         *)
(* The server holds a brain in memory; the command line opens the file,    *)
(* works and saves while no server does (SharedBrain has the other case).  *)
(* Each command is one step.  A text is a model value, a definition is one *)
(* symbol, a fingerprint is the text it was computed from; postings cover  *)
(* every listed document or, where no text could be read, none.            *)
(***************************************************************************)
EXTENDS Naturals, FiniteSets, Bags

CONSTANTS
  Docs, Texts,
  Code,        \* the documents that are definitions, each with its symbol
  None,        \* no active frame; no server
  MaxRows,     \* bound: rows of the matrix
  MaxChanges,  \* bound: files new, changed or removed at one init
  MaxUnbuilt   \* bound: documents put without a build at one time

ASSUME CodeAssumption == Code \subseteq Docs
ASSUME NoneAssumption == None \notin Texts
ASSUME FiniteAssumption == IsFiniteSet(Docs)

VARIABLES
  file,        \* the brain on disk, as open() finds it
  brain,       \* the server's brain, or None
  unbuilt,     \* documents put without a build_index() since they had a row
  declared     \* documents whose symbol an init recorded, active ever since

vars == <<file, brain, unbuilt, declared>>

\* SaidFile::create().
Empty == [text |-> [d \in Docs |-> None], packed |-> {}, rows |-> EmptyBag,
          corpus |-> {}, prior |-> 0, cache |-> {},
          ids |-> {}, posted |-> FALSE, syms |-> {}, pend |-> {}]

Active(b) == {d \in Docs : b.text[d] # None}
\* read_frame(): a frame that compact() packed has no place in the file
\* before the save.
Readable(b) == Active(b) \ b.packed
Encoded(b) == {r[1] : r \in DOMAIN b.rows}
\* How many rows: a document encoded again has one more.
RowCount(b) == Cardinality(UNION {{r} \X (1 .. b.rows[r]) : r \in DOMAIN b.rows})

Init == file = Empty /\ brain = None /\ unbuilt = {} /\ declared = {}

(***************************************************************************)
(* Building blocks: what a call makes of a brain.                          *)
(***************************************************************************)
Put(b, new) ==
  [b EXCEPT !.text = [d \in Docs |-> IF d \in DOMAIN new THEN new[d] ELSE b.text[d]],
            !.packed = @ \ DOMAIN new]

Rows(b, ds) == SetToBag({<<d, b.text[d]>> : d \in ds})

Fresh(b) == Readable(b) \ b.corpus

\* RECOMPUTE_GROWTH = 0.5.
FewNew(b) == Cardinality(Fresh(b)) * 2 <= b.prior

\* Mutant: nothing new counts as little new.
WheneverFew(b) == b.corpus # {} /\ FewNew(b)
Incremental(b) == b.corpus # {} /\ Fresh(b) # {} /\ FewNew(b)

\* Mutant: the rows that stay are dropped.
OnlyFresh(b) == Rows(b, Fresh(b))
Appended(b) == b.rows (+) Rows(b, Fresh(b))

Matrix(b) == IF Readable(b) = {} THEN b.rows
             ELSE IF Incremental(b) THEN Appended(b)
             ELSE Rows(b, Readable(b))

BuildIndex(b) ==
  [b EXCEPT !.rows = Matrix(b), !.corpus = Readable(b),
            !.prior = Cardinality(Readable(b)), !.cache = {}]

UsesCache(b) == b.corpus # {} /\ b.cache # {}

\* ensure_corpus_cached(), on the first query.
Cached(b) ==
  IF UsesCache(b) THEN b
  ELSE [b EXCEPT !.corpus = Readable(b), !.prior = Cardinality(Readable(b)),
                 !.cache = Readable(b)]

\* rebuild_trigram_index(): the texts of the cache if it has any, which may
\* be those of documents forgotten since.  Otherwise it reads each document;
\* that after a skipped compact the map may lead it elsewhere is left out.
Listed(b) == IF UsesCache(b) THEN b.cache ELSE Active(b)
Posted(b) == IF UsesCache(b) THEN b.cache ELSE Readable(b)

\* Symbols of the last table go on, through the list they were numbered by.
\* Mutant: only what this run recorded.
PendingOnly(b) == b.pend
Merged(b) == (b.syms \cap b.ids) \cup b.pend

Rebuilt(b) ==
  IF Listed(b) = {}
  THEN [b EXCEPT !.ids = {}, !.posted = FALSE, !.syms = {}, !.pend = {}]
  ELSE [b EXCEPT !.ids = Listed(b), !.posted = Posted(b) # {},
                 !.syms = Merged(b) \cap Listed(b), !.pend = {}]

\* compact(): a table of fewer than ten frames is left unpacked.
Compacted(b, packs) == Rebuilt([b EXCEPT !.packed = IF packs THEN Active(b) ELSE {}])

\* save() writes the list whenever the symbols need it.
KeepsList(b) == b.ids # {} /\ (b.posted \/ b.syms # {})

\* After a save the process goes on with the brain it has, readable again.
\* Mutant: the blocks are not found until the file is opened again.
StillPacked(b) == b
Saved(b) == [b EXCEPT !.packed = {}]

\* open(): the corpus is the list of encoded documents.
Reopened(b) ==
  [Empty EXCEPT !.text = b.text, !.rows = b.rows,
                !.corpus = Encoded(b), !.prior = RowCount(b),
                !.ids = IF KeepsList(b) THEN b.ids ELSE {},
                !.posted = KeepsList(b) /\ b.posted, !.syms = b.syms]

SavesTo(b) ==
  /\ RowCount(b) <= MaxRows
  /\ file' = Reopened(b)

(***************************************************************************)
(* The commands.                                                           *)
(***************************************************************************)
Start == /\ brain = None
         /\ brain' = file
         /\ UNCHANGED <<file, unbuilt, declared>>

Stop == /\ brain # None
        /\ brain' = None
        /\ UNCHANGED <<file, unbuilt, declared>>

\* `said init`: new, changed and removed files of a directory, their symbols;
\* build, harvest, compact, save.  What is harvested is a blueprint of a shape
\* that has none yet, stored with a build of its own.
InitDir(new, gone) ==
  /\ brain = None
  /\ Cardinality(DOMAIN new \cup gone) <= MaxChanges
  /\ LET put   == Put(file, [d \in DOMAIN new \cup gone |->
                               IF d \in gone THEN None ELSE new[d]])
         built == BuildIndex([put EXCEPT !.pend = DOMAIN new \cap Code])
         shapes == {{}} \cup {{d} : d \in Docs \ (Code \cup Active(put))}
     IN  /\ \E hs \in shapes : \E harvest \in [hs -> Texts], packs \in BOOLEAN :
              SavesTo(Compacted(IF hs = {} THEN built
                                ELSE BuildIndex(Put(built, harvest)), packs))
         /\ unbuilt' = unbuilt \ Encoded(file')
         /\ declared' = (declared \cup (DOMAIN new \cap Code)) \ gone
  /\ UNCHANGED brain

\* put_object() of the vault, `admin restore`: no build follows.
PutUnbuilt(d, t) ==
  /\ brain = None
  /\ SavesTo(Put(file, [x \in {d} |-> t]))
  /\ unbuilt' = (unbuilt \cup {d}) \ Encoded(file)
  /\ Cardinality(unbuilt') <= MaxUnbuilt
  /\ UNCHANGED <<brain, declared>>

Serves(b) == SavesTo(b) /\ brain' = Saved(b)

\* handle_remember() and its like.
Remember(d, t) ==
  /\ brain # None
  /\ LET done == BuildIndex(Put(brain, [x \in {d} |-> t]))
     IN  Serves(done) /\ unbuilt' = unbuilt \ Encoded(done)
  /\ UNCHANGED declared

\* handle_delete().
Forget(d) ==
  /\ brain # None
  /\ d \in Active(brain)
  /\ Serves(Put(brain, [x \in {d} |-> None]))
  /\ declared' = declared \ {d}
  /\ UNCHANGED unbuilt

Ask == /\ brain # None
       /\ brain' = Cached(brain)
       /\ UNCHANGED <<file, unbuilt, declared>>

\* `compact`; that of the command line is the same between a start and a stop.
Compact(packs) ==
  /\ brain # None
  /\ Serves(Compacted(brain, packs))
  /\ UNCHANGED <<unbuilt, declared>>

Next ==
  \/ Start \/ Stop \/ Ask
  \/ \E ds \in SUBSET Docs \ {{}} : \E gone \in SUBSET (Active(file) \ ds) :
       \E new \in [ds -> Texts] : InitDir(new, gone)
  \/ \E d \in Docs, t \in Texts : PutUnbuilt(d, t) \/ Remember(d, t)
  \/ \E d \in Docs : Forget(d)
  \/ \E packs \in BOOLEAN : Compact(packs)

Spec == Init /\ [][Next]_vars

(***************************************************************************)
(* Properties.                                                             *)
(***************************************************************************)
TypeOKOf(b) ==
  /\ b.text \in [Docs -> Texts \cup {None}]
  /\ IsABag(b.rows) /\ DOMAIN b.rows \subseteq Docs \X Texts
  /\ b.corpus \subseteq Docs /\ b.prior \in Nat
  /\ b.packed = {} /\ b.pend = {}
  /\ b.ids \subseteq Docs /\ (b.posted => b.ids # {})
  /\ b.syms \subseteq Code /\ b.cache \subseteq Docs

\* Between commands nothing is half built: no frame unreadable, no symbol
\* pending, no postings without the list that numbers their documents.
TypeOK ==
  /\ TypeOKOf(file) /\ (brain # None => TypeOKOf(brain))
  /\ unbuilt \subseteq Docs /\ declared \subseteq Code

Sym(b) == b.syms \cap b.ids

\* A symbol an init found is found by sym() as long as its document is there,
\* whatever was initialised, compacted, forgotten and reopened since.
SymbolsKept == declared \subseteq Sym(file) /\ (brain # None => declared \subseteq Sym(brain))

\* Every active document has a row in the matrix, except one that was put
\* without a build.
HasRow == \A b \in {file, brain} \ {None} : Active(b) \subseteq Encoded(b) \cup unbuilt

\* Where nothing was put without a build, a text the server has just stored
\* is in the matrix, though a build skips every document it thinks it knows.
StoredIsEncoded ==
  [][\A d \in Docs, t \in Texts :
       Remember(d, t) /\ unbuilt = {} => BagIn(<<d, t>>, brain'.rows)]_vars

\* "Grep: exact text search across ALL stored frames" (said_file.rs): the
\* text of every active document is found.
Found(b) == IF b.ids = {} THEN Readable(b)
            ELSE IF b.posted THEN Readable(b) \cap b.ids ELSE {}
GrepFindsAll == brain # None => Active(brain) \subseteq Found(brain)
=============================================================================
