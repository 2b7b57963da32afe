-------------------------- MODULE SearchIndex_proofs --------------------------
(***************************************************************************)
(* SearchIndex keeps the indexes in step with the table for every set of   *)
(* documents and texts, and for any bound: the symbol of a definition is   *)
(* not lost, an active document has a row, a text just stored is encoded.  *)
(*                                                                         *)
(* The properties speak of the rows and the symbols; what decides whether  *)
(* a step keeps them is elsewhere.  A build passes over what the corpus    *)
(* lists, so the corpus may list nothing that has no row; a document the   *)
(* corpus does not list, in the meantime, is one put without a build, or a *)
(* build would think it new.  A rebuild of the symbols goes by the cache   *)
(* when there is one, so the cache may miss no declared document.          *)
(*                                                                         *)
(* The types come last: only the rows need a finite set of documents, for  *)
(* a reopened brain counts them.                                           *)
(***************************************************************************)
EXTENDS SearchIndex, FiniteSetTheorems, TLAPS

Fields == {"text", "packed", "rows", "corpus", "prior", "cache",
           "ids", "posted", "syms", "pend"}

\* A brain all of whose frames can be read.
Whole(b) == DOMAIN b = Fields /\ b.packed = {}

\* The corpus, which says what need not be encoded, does not say too much.
KnownHasRow(b, u) == b.corpus \subseteq Encoded(b) \cup u

Rowed(b, u) == Active(b) \subseteq Encoded(b) \cup u

\* Nor does it say too little.
Known(b, u) == Active(b) \subseteq b.corpus \cup u

\* The symbols, and what the next rebuild will go by.
Symboled(b, kept) ==
  /\ kept \subseteq Sym(b)
  /\ kept \subseteq Active(b)
  /\ b.cache # {} => kept \subseteq b.cache

Sound(b, u, kept) ==
  Whole(b) /\ KnownHasRow(b, u) /\ Rowed(b, u) /\ Known(b, u) /\ Symboled(b, kept)

IInv == /\ Sound(file, unbuilt, declared)
        /\ brain # None => Sound(brain, unbuilt, declared)

-----------------------------------------------------------------------------
(***************************************************************************)
(* What the building blocks make of a brain.                               *)
(***************************************************************************)
\* The rows computed for ds encode ds, each document with its text.
LEMMA RowsEncode ==
  ASSUME NEW b, NEW ds
  PROVE  /\ DOMAIN Rows(b, ds) = {<<d, b.text[d]>> : d \in ds}
         /\ {r[1] : r \in DOMAIN Rows(b, ds)} = ds
<1>1. DOMAIN Rows(b, ds) = {<<d, b.text[d]>> : d \in ds}
  BY DEF Rows, SetToBag
<1> DEFINE pairs == {<<d, b.text[d]>> : d \in ds}
<1>2. \A d \in ds : <<d, b.text[d]>> \in pairs /\ <<d, b.text[d]>>[1] = d
  OBVIOUS
<1>3. \A r \in pairs : r[1] \in ds
  OBVIOUS
<1> HIDE DEF pairs
<1>4. {r[1] : r \in pairs} = ds
  BY <1>2, <1>3
<1> QED
  BY <1>1, <1>4 DEF pairs

\* Appending keeps the rows that are there.
LEMMA AppendedEncodes ==
  ASSUME NEW b
  PROVE  /\ DOMAIN Appended(b) = DOMAIN b.rows \cup DOMAIN Rows(b, Fresh(b))
         /\ {r[1] : r \in DOMAIN Appended(b)} = Encoded(b) \cup Fresh(b)
<1>1. DOMAIN Appended(b) = DOMAIN b.rows \cup DOMAIN Rows(b, Fresh(b))
  BY DEF Appended, (+)
<1>2. {r[1] : r \in DOMAIN Rows(b, Fresh(b))} = Fresh(b)
  BY RowsEncode
<1> HIDE DEF Appended
<1> QED
  BY <1>1, <1>2 DEF Encoded

LEMMA PutKeeps ==
  ASSUME NEW b, Whole(b), NEW new
  PROVE  /\ Whole(Put(b, new))
         /\ Put(b, new).text =
              [d \in Docs |-> IF d \in DOMAIN new THEN new[d] ELSE b.text[d]]
         /\ Put(b, new).rows = b.rows /\ Put(b, new).corpus = b.corpus
         /\ Put(b, new).cache = b.cache /\ Put(b, new).pend = b.pend
         /\ Put(b, new).ids = b.ids /\ Put(b, new).syms = b.syms
  BY DEF Put, Whole, Fields

\* A build: every active document has a row or waits for one, and the corpus
\* lists exactly the active ones.
LEMMA BuildKeeps ==
  ASSUME NEW b, Whole(b), NEW u, KnownHasRow(b, u)
  PROVE  /\ Whole(BuildIndex(b))
         /\ BuildIndex(b).text = b.text
         /\ BuildIndex(b).rows = Matrix(b)
         /\ BuildIndex(b).corpus = Active(b) /\ BuildIndex(b).cache = {}
         /\ BuildIndex(b).pend = b.pend
         /\ BuildIndex(b).ids = b.ids /\ BuildIndex(b).syms = b.syms
         /\ Active(b) \subseteq Encoded(BuildIndex(b)) \cup u
<1>1. /\ Whole(BuildIndex(b))
      /\ BuildIndex(b).text = b.text
      /\ BuildIndex(b).rows = Matrix(b)
      /\ BuildIndex(b).corpus = Readable(b) /\ BuildIndex(b).cache = {}
      /\ BuildIndex(b).pend = b.pend
      /\ BuildIndex(b).ids = b.ids /\ BuildIndex(b).syms = b.syms
  BY DEF BuildIndex, Whole, Fields
<1>2. Readable(b) = Active(b)
  BY DEF Readable, Whole
<1>3. Active(b) \subseteq {r[1] : r \in DOMAIN Matrix(b)} \cup u
  <2>1. CASE Readable(b) = {}
    BY <2>1, <1>2
  <2>2. CASE Readable(b) # {} /\ Incremental(b)
    <3>1. {r[1] : r \in DOMAIN Matrix(b)} = Encoded(b) \cup Fresh(b)
      BY <2>2, AppendedEncodes DEF Matrix
    <3> QED
      BY <3>1, <1>2 DEF Fresh, KnownHasRow
  <2>3. CASE Readable(b) # {} /\ ~Incremental(b)
    <3>1. {r[1] : r \in DOMAIN Matrix(b)} = Readable(b)
      BY <2>3, RowsEncode DEF Matrix
    <3> QED
      BY <3>1, <1>2
  <2> QED
    BY <2>1, <2>2, <2>3
<1>4. Encoded(BuildIndex(b)) = {r[1] : r \in DOMAIN Matrix(b)}
  BY <1>1 DEF Encoded
<1> QED
  BY <1>1, <1>2, <1>3, <1>4

\* A rebuild of the lists keeps every symbol of a document it lists.
LEMMA RebuiltKeeps ==
  ASSUME NEW b, DOMAIN b = Fields
  PROVE  /\ DOMAIN Rebuilt(b) = Fields
         /\ Rebuilt(b).text = b.text /\ Rebuilt(b).rows = b.rows
         /\ Rebuilt(b).corpus = b.corpus /\ Rebuilt(b).cache = b.cache
         /\ Sym(Rebuilt(b)) = (Sym(b) \cup b.pend) \cap Listed(b)
  BY DEF Rebuilt, Sym, Merged, Fields

LEMMA CompactedKeeps ==
  ASSUME NEW b, Whole(b), NEW packs
  PROVE  /\ DOMAIN Compacted(b, packs) = Fields
         /\ Compacted(b, packs).text = b.text
         /\ Compacted(b, packs).rows = b.rows
         /\ Compacted(b, packs).corpus = b.corpus
         /\ Compacted(b, packs).cache = b.cache
         /\ Sym(Compacted(b, packs)) = (Sym(b) \cup b.pend) \cap Listed(b)
<1> DEFINE c == [b EXCEPT !.packed = IF packs THEN Active(b) ELSE {}]
<1>1. /\ DOMAIN c = Fields
      /\ c.text = b.text /\ c.rows = b.rows /\ c.corpus = b.corpus
      /\ c.cache = b.cache /\ c.pend = b.pend
      /\ c.ids = b.ids /\ c.syms = b.syms
  BY DEF Whole, Fields
<1>2. Sym(c) = Sym(b) /\ Listed(c) = Listed(b)
  BY <1>1 DEF Sym, Listed, UsesCache, Active
<1>3. Compacted(b, packs) = Rebuilt(c)
  BY DEF Compacted
<1> HIDE DEF c
<1> QED
  BY <1>1, <1>2, <1>3, RebuiltKeeps

\* A brain that was saved is sound when it is opened: nothing but its table,
\* its rows and its symbols go through the file.
LEMMA ReopenedSound ==
  ASSUME NEW b, NEW u, NEW kept,
         Rowed(b, u), kept \subseteq Sym(b), kept \subseteq Active(b)
  PROVE  /\ Sound(Reopened(b), u, kept)
         /\ Sound(Reopened(b), u \ Encoded(b), kept)
         /\ Encoded(Reopened(b)) = Encoded(b)
<1> DEFINE f == Reopened(b)
<1>1. /\ DOMAIN f = Fields /\ f.packed = {} /\ f.text = b.text
      /\ f.rows = b.rows /\ f.corpus = Encoded(b) /\ f.cache = {}
      /\ f.ids = (IF KeepsList(b) THEN b.ids ELSE {}) /\ f.syms = b.syms
  BY DEF Reopened, Empty, Fields
<1>2. Active(f) = Active(b) /\ Encoded(f) = Encoded(b)
  BY <1>1 DEF Active, Encoded
<1>3. kept \subseteq Sym(f)
  BY <1>1 DEF Sym, KeepsList
<1> HIDE DEF f
<1>4. Sound(f, u, kept) /\ Sound(f, u \ Encoded(b), kept)
  BY <1>1, <1>2, <1>3
     DEF Sound, Whole, KnownHasRow, Rowed, Known, Symboled
<1> QED
  BY <1>2, <1>4 DEF f

\* The server goes on with the brain it has saved.
LEMMA SavedSame ==
  ASSUME NEW b, DOMAIN b = Fields
  PROVE  /\ Whole(Saved(b))
         /\ Saved(b).text = b.text /\ Saved(b).rows = b.rows
         /\ Saved(b).corpus = b.corpus /\ Saved(b).cache = b.cache
         /\ Active(Saved(b)) = Active(b) /\ Encoded(Saved(b)) = Encoded(b)
         /\ Sym(Saved(b)) = Sym(b)
<1>1. /\ Whole(Saved(b))
      /\ Saved(b).text = b.text /\ Saved(b).rows = b.rows
      /\ Saved(b).corpus = b.corpus /\ Saved(b).cache = b.cache
      /\ Saved(b).ids = b.ids /\ Saved(b).syms = b.syms
  BY DEF Saved, Whole, Fields
<1> QED
  BY <1>1 DEF Active, Encoded, Sym

\* What a command leaves on disk is sound, and after the command nothing is
\* owed a row that got one.
LEMMA SavesSound ==
  ASSUME NEW b, NEW u, NEW kept, SavesTo(b),
         Rowed(b, u), kept \subseteq Sym(b), kept \subseteq Active(b)
  PROVE  /\ Sound(file', u, kept) /\ Sound(file', u \ Encoded(b), kept)
         /\ Encoded(file') = Encoded(b)
  BY ReopenedSound DEF SavesTo

-----------------------------------------------------------------------------
(***************************************************************************)
(* The commands.                                                           *)
(***************************************************************************)
LEMMA InitSound == Init => IInv
<1> SUFFICES ASSUME Init PROVE IInv
  OBVIOUS
<1>1. /\ DOMAIN Empty = Fields /\ Empty.packed = {} /\ Empty.cache = {}
      /\ Empty.corpus = {} /\ \A d \in Docs : Empty.text[d] = None
  BY DEF Empty, Fields
<1> QED
  BY <1>1 DEF Init, IInv, Sound, Whole, KnownHasRow, Rowed, Known, Symboled, Active

\* The documents of an init: the table it saves, and the symbols it owes.
LEMMA InitDirSound ==
  ASSUME IInv, NEW ds \in SUBSET Docs, NEW new \in [ds -> Texts],
         NEW gone \in SUBSET (Active(file) \ ds), InitDir(new, gone)
  PROVE  IInv'
<1> DEFINE change == [d \in DOMAIN new \cup gone |->
                        IF d \in gone THEN None ELSE new[d]]
           put    == Put(file, change)
           marked == [put EXCEPT !.pend = DOMAIN new \cap Code]
           built  == BuildIndex(marked)
           shapes == {{}} \cup {{d} : d \in Docs \ (Code \cup Active(put))}
           kept   == (declared \cup (DOMAIN new \cap Code)) \ gone
<1>1. PICK hs \in shapes : \E harvest \in [hs -> Texts], packs \in BOOLEAN :
           SavesTo(Compacted(IF hs = {} THEN built
                             ELSE BuildIndex(Put(built, harvest)), packs))
  BY DEF InitDir
<1>2. PICK harvest \in [hs -> Texts], packs \in BOOLEAN :
           SavesTo(Compacted(IF hs = {} THEN built
                             ELSE BuildIndex(Put(built, harvest)), packs))
  BY <1>1
<1> DEFINE again == BuildIndex(Put(built, harvest))
           done  == IF hs = {} THEN built ELSE again
<1>3. /\ brain = None /\ brain' = None
      /\ unbuilt' = unbuilt \ Encoded(file') /\ declared' = kept
  BY DEF InitDir
<1>4. Sound(file, unbuilt, declared)
  BY DEF IInv
<1>5. /\ Whole(put)
      /\ put.text = [d \in Docs |-> IF d \in DOMAIN change
                                    THEN change[d] ELSE file.text[d]]
      /\ put.rows = file.rows /\ put.corpus = file.corpus
      /\ put.ids = file.ids /\ put.syms = file.syms
  <2> HIDE DEF change
  <2> QED
    BY <1>4, PutKeeps DEF Sound
<1>6. /\ Whole(marked) /\ marked.text = put.text /\ marked.rows = put.rows
      /\ marked.corpus = put.corpus /\ marked.pend = DOMAIN new \cap Code
      /\ marked.ids = put.ids /\ marked.syms = put.syms
  <2> HIDE DEF put
  <2> QED
    BY <1>5 DEF Whole, Fields
<1>7. kept \subseteq Active(marked)
  <2> SUFFICES ASSUME NEW d \in kept PROVE d \in Active(marked)
    OBVIOUS
  <2>1. d \in Docs /\ d \notin gone
    BY CodeAssumption, <1>4 DEF Sound, Symboled, Active
  <2>2. CASE d \in ds
    <3>1. put.text[d] = new[d] /\ new[d] # None
      BY <2>1, <2>2, <1>5, NoneAssumption
    <3> QED
      BY <3>1, <2>1, <1>6 DEF Active
  <2>3. CASE d \notin ds
    <3>1. d \in declared /\ put.text[d] = file.text[d]
      BY <2>1, <2>3, <1>5
    <3> QED
      BY <3>1, <2>1, <1>4, <1>6 DEF Active, Sound, Symboled
  <2> QED
    BY <2>2, <2>3
<1>8. kept \subseteq Sym(marked) \cup marked.pend
  BY <1>4, <1>5, <1>6 DEF Sound, Symboled, Sym
<1> HIDE DEF change, put, marked, kept, shapes
<1>9. KnownHasRow(marked, unbuilt)
  BY <1>4, <1>5, <1>6 DEF Sound, KnownHasRow, Encoded
<1>10. /\ Whole(built) /\ built.text = marked.text
       /\ built.corpus = Active(marked) /\ built.cache = {}
       /\ built.pend = marked.pend
       /\ built.ids = marked.ids /\ built.syms = marked.syms
       /\ Active(marked) \subseteq Encoded(built) \cup unbuilt
  BY <1>6, <1>9, BuildKeeps
<1>11. Active(built) = Active(marked) /\ Sym(built) = Sym(marked)
  BY <1>10 DEF Active, Sym
<1>12. /\ Whole(done) /\ done.cache = {} /\ done.pend = marked.pend
       /\ Rowed(done, unbuilt)
       /\ kept \subseteq Active(done) /\ Sym(done) = Sym(marked)
  <2>1. CASE hs = {}
    BY <2>1, <1>7, <1>10, <1>11 DEF Rowed
  <2>2. CASE hs # {}
    <3> DEFINE more == Put(built, harvest)
    <3>1. /\ Whole(more)
          /\ more.text = [d \in Docs |-> IF d \in DOMAIN harvest
                                         THEN harvest[d] ELSE built.text[d]]
          /\ more.rows = built.rows /\ more.corpus = built.corpus
          /\ more.cache = built.cache /\ more.pend = built.pend
          /\ more.ids = built.ids /\ more.syms = built.syms
      <4> HIDE DEF built
      <4> QED
        BY <1>10, PutKeeps
    <3>2. KnownHasRow(more, unbuilt)
      BY <3>1, <1>10, <1>11 DEF KnownHasRow, Encoded
    <3>3. Active(built) \subseteq Active(more)
      <4>1. \A d \in DOMAIN harvest : harvest[d] # None
        BY NoneAssumption
      <4> QED
        BY <3>1, <4>1 DEF Active
    <3> HIDE DEF more
    <3>4. /\ Whole(BuildIndex(more))
          /\ BuildIndex(more).text = more.text
          /\ BuildIndex(more).cache = {}
          /\ BuildIndex(more).pend = more.pend
          /\ BuildIndex(more).ids = more.ids /\ BuildIndex(more).syms = more.syms
          /\ Active(more) \subseteq Encoded(BuildIndex(more)) \cup unbuilt
      BY <3>1, <3>2, BuildKeeps
    <3>5. done = BuildIndex(more)
      BY <2>2 DEF more
    <3>6. Active(done) = Active(more) /\ Sym(done) = Sym(marked)
      BY <3>1, <3>4, <3>5, <1>10 DEF Active, Sym
    <3> HIDE DEF built, done
    <3> QED
      BY <3>1, <3>3, <3>4, <3>5, <3>6, <1>7, <1>10, <1>11 DEF Rowed
  <2> QED
    BY <2>1, <2>2
<1> DEFINE last == Compacted(done, packs)
<1>13. SavesTo(last)
  BY <1>2
<1> HIDE DEF done
<1>14. /\ Rowed(last, unbuilt) /\ kept \subseteq Active(last)
       /\ kept \subseteq Sym(last)
  <2>1. /\ last.text = done.text /\ last.rows = done.rows
        /\ Sym(last) = (Sym(done) \cup done.pend) \cap Listed(done)
    BY <1>12, CompactedKeeps
  <2>2. Listed(done) = Active(done)
    BY <1>12 DEF Listed, UsesCache
  <2>3. Active(last) = Active(done) /\ Encoded(last) = Encoded(done)
    BY <2>1 DEF Active, Encoded
  <2> HIDE DEF last
  <2> QED
    BY <2>1, <2>2, <2>3, <1>8, <1>12 DEF Rowed
<1> HIDE DEF last
<1>15. Sound(file', unbuilt \ Encoded(last), kept) /\ Encoded(file') = Encoded(last)
  BY <1>13, <1>14, SavesSound
<1> QED
  BY <1>3, <1>15 DEF IInv

LEMMA PutUnbuiltSound ==
  ASSUME IInv, NEW d \in Docs, NEW t \in Texts, PutUnbuilt(d, t)
  PROVE  IInv'
<1> DEFINE new == [x \in {d} |-> t]
           put == Put(file, new)
<1>1. /\ brain = None /\ brain' = None /\ declared' = declared
      /\ unbuilt' = (unbuilt \cup {d}) \ Encoded(file) /\ SavesTo(put)
  BY DEF PutUnbuilt
<1>2. Sound(file, unbuilt, declared)
  BY DEF IInv
<1>3. /\ Whole(put)
      /\ put.text = [x \in Docs |-> IF x \in DOMAIN new
                                    THEN new[x] ELSE file.text[x]]
      /\ put.rows = file.rows /\ put.ids = file.ids /\ put.syms = file.syms
  <2> HIDE DEF new
  <2> QED
    BY <1>2, PutKeeps DEF Sound
<1>4. /\ Active(put) = Active(file) \cup {d}
      /\ Encoded(put) = Encoded(file) /\ Sym(put) = Sym(file)
  BY <1>3, NoneAssumption DEF Active, Encoded, Sym
<1> HIDE DEF put
<1>5. Rowed(put, unbuilt \cup {d})
  BY <1>2, <1>4 DEF Sound, Rowed
<1>6. declared \subseteq Sym(put) /\ declared \subseteq Active(put)
  BY <1>2, <1>4 DEF Sound, Symboled
<1>7. Sound(file', (unbuilt \cup {d}) \ Encoded(put), declared)
  BY <1>1, <1>5, <1>6, SavesSound
<1> QED
  BY <1>1, <1>4, <1>7 DEF IInv

\* A command of the server saves what it goes on with.
LEMMA ServesSound ==
  ASSUME NEW b, NEW u, NEW kept, Serves(b), DOMAIN b = Fields,
         KnownHasRow(b, u), Rowed(b, u), Known(b, u), Symboled(b, kept)
  PROVE  Sound(file', u, kept) /\ Sound(brain', u, kept)
<1>1. SavesTo(b) /\ brain' = Saved(b)
  BY DEF Serves
<1>2. Sound(file', u, kept)
  BY <1>1, SavesSound DEF Symboled
<1>3. Sound(Saved(b), u, kept)
  BY SavedSame DEF Sound, KnownHasRow, Rowed, Known, Symboled
<1> QED
  BY <1>1, <1>2, <1>3

LEMMA RememberSound ==
  ASSUME IInv, NEW d \in Docs, NEW t \in Texts, Remember(d, t)
  PROVE  IInv'
<1> DEFINE new  == [x \in {d} |-> t]
           put  == Put(brain, new)
           done == BuildIndex(put)
           u    == unbuilt \ Encoded(done)
<1>1. brain # None /\ Serves(done) /\ unbuilt' = u /\ declared' = declared
  BY DEF Remember
<1>2. Sound(brain, unbuilt, declared)
  BY <1>1 DEF IInv
<1>3. /\ Whole(put)
      /\ put.text = [x \in Docs |-> IF x \in DOMAIN new
                                    THEN new[x] ELSE brain.text[x]]
      /\ put.rows = brain.rows /\ put.corpus = brain.corpus
      /\ put.ids = brain.ids /\ put.syms = brain.syms
  <2> HIDE DEF new
  <2> QED
    BY <1>2, PutKeeps DEF Sound
<1>4. Active(put) = Active(brain) \cup {d} /\ KnownHasRow(put, unbuilt)
  BY <1>2, <1>3, NoneAssumption DEF Active, Encoded, Sound, KnownHasRow
<1> HIDE DEF put
<1>5. /\ Whole(done) /\ done.text = put.text
      /\ done.corpus = Active(put) /\ done.cache = {}
      /\ done.ids = put.ids /\ done.syms = put.syms
      /\ Active(put) \subseteq Encoded(done) \cup unbuilt
  BY <1>3, <1>4, BuildKeeps
<1> HIDE DEF done
<1>6. Active(done) = Active(put) /\ Sym(done) = Sym(brain)
  BY <1>3, <1>5 DEF Active, Sym
<1>7. KnownHasRow(done, u) /\ Rowed(done, u) /\ Known(done, u)
  BY <1>5, <1>6 DEF KnownHasRow, Rowed, Known
<1>8. Symboled(done, declared)
  BY <1>2, <1>4, <1>5, <1>6 DEF Sound, Symboled
<1>9. DOMAIN done = Fields
  BY <1>5 DEF Whole
<1> HIDE DEF u
<1>10. Sound(file', u, declared) /\ Sound(brain', u, declared)
  BY <1>1, <1>7, <1>8, <1>9, ServesSound
<1> QED
  BY <1>1, <1>10 DEF IInv

LEMMA ForgetSound ==
  ASSUME IInv, NEW d \in Docs, Forget(d)
  PROVE  IInv'
<1> DEFINE new  == [x \in {d} |-> None]
           put  == Put(brain, new)
           kept == declared \ {d}
<1>1. brain # None /\ Serves(put) /\ unbuilt' = unbuilt /\ declared' = kept
  BY DEF Forget
<1>2. Sound(brain, unbuilt, declared)
  BY <1>1 DEF IInv
<1>3. /\ Whole(put)
      /\ put.text = [x \in Docs |-> IF x \in DOMAIN new
                                    THEN new[x] ELSE brain.text[x]]
      /\ put.rows = brain.rows /\ put.corpus = brain.corpus
      /\ put.cache = brain.cache
      /\ put.ids = brain.ids /\ put.syms = brain.syms
  <2> HIDE DEF new
  <2> QED
    BY <1>2, PutKeeps DEF Sound
<1>4. /\ Active(put) = Active(brain) \ {d}
      /\ Encoded(put) = Encoded(brain) /\ Sym(put) = Sym(brain)
  BY <1>3 DEF Active, Encoded, Sym
<1> HIDE DEF put
<1>5. /\ KnownHasRow(put, unbuilt) /\ Rowed(put, unbuilt)
      /\ Known(put, unbuilt) /\ Symboled(put, kept)
  BY <1>2, <1>3, <1>4 DEF Sound, KnownHasRow, Rowed, Known, Symboled
<1>6. DOMAIN put = Fields
  BY <1>3 DEF Whole
<1> HIDE DEF kept
<1>7. Sound(file', unbuilt, kept) /\ Sound(brain', unbuilt, kept)
  BY <1>1, <1>5, <1>6, ServesSound
<1> QED
  BY <1>1, <1>7 DEF IInv

\* The first question fills the cache, with every active document.
LEMMA AskSound ==
  ASSUME IInv, Ask
  PROVE  IInv'
<1>1. /\ brain # None /\ brain' = Cached(brain)
      /\ file' = file /\ unbuilt' = unbuilt /\ declared' = declared
  BY DEF Ask
<1>2. Sound(brain, unbuilt, declared)
  BY <1>1 DEF IInv
<1>3. Sound(Cached(brain), unbuilt, declared)
  <2>1. CASE UsesCache(brain)
    BY <2>1, <1>2 DEF Cached
  <2>2. CASE ~UsesCache(brain)
    <3> DEFINE b == Cached(brain)
    <3>1. /\ DOMAIN b = Fields /\ b.packed = {} /\ b.text = brain.text
          /\ b.rows = brain.rows
          /\ b.ids = brain.ids /\ b.syms = brain.syms
          /\ b.corpus = Active(brain) /\ b.cache = Active(brain)
      BY <2>2, <1>2 DEF Cached, Sound, Whole, Fields, Readable
    <3>2. Active(b) = Active(brain) /\ Encoded(b) = Encoded(brain) /\ Sym(b) = Sym(brain)
      BY <3>1 DEF Active, Encoded, Sym
    <3> HIDE DEF b
    <3>3. Sound(b, unbuilt, declared)
      BY <1>2, <3>1, <3>2 DEF Sound, Whole, KnownHasRow, Rowed, Known, Symboled
    <3> QED
      BY <3>3 DEF b
  <2> QED
    BY <2>1, <2>2
<1> QED
  BY <1>1, <1>3 DEF IInv

\* A compaction numbers the documents anew, by the cache if there is one.
LEMMA CompactSound ==
  ASSUME IInv, NEW packs \in BOOLEAN, Compact(packs)
  PROVE  IInv'
<1> DEFINE done == Compacted(brain, packs)
<1>1. /\ brain # None /\ Serves(done)
      /\ unbuilt' = unbuilt /\ declared' = declared
  BY DEF Compact
<1>2. Sound(brain, unbuilt, declared)
  BY <1>1 DEF IInv
<1>3. /\ DOMAIN done = Fields /\ done.text = brain.text
      /\ done.rows = brain.rows /\ done.corpus = brain.corpus
      /\ done.cache = brain.cache
      /\ Sym(done) = (Sym(brain) \cup brain.pend) \cap Listed(brain)
  BY <1>2, CompactedKeeps DEF Sound
<1> HIDE DEF done
<1>4. Active(done) = Active(brain) /\ Encoded(done) = Encoded(brain)
  BY <1>3 DEF Active, Encoded
<1>5. declared \subseteq Listed(brain)
  BY <1>2 DEF Listed, UsesCache, Sound, Symboled
<1>6. /\ KnownHasRow(done, unbuilt) /\ Rowed(done, unbuilt)
      /\ Known(done, unbuilt) /\ Symboled(done, declared)
  BY <1>2, <1>3, <1>4, <1>5 DEF Sound, KnownHasRow, Rowed, Known, Symboled
<1>7. Sound(file', unbuilt, declared) /\ Sound(brain', unbuilt, declared)
  BY <1>1, <1>3, <1>6, ServesSound
<1> QED
  BY <1>1, <1>7 DEF IInv

LEMMA NextSound == IInv /\ [Next]_vars => IInv'
<1> SUFFICES ASSUME IInv, [Next]_vars PROVE IInv'
  OBVIOUS
<1>1. CASE Start
  BY <1>1 DEF Start, IInv
<1>2. CASE Stop
  BY <1>2 DEF Stop, IInv
<1>3. CASE Ask
  BY <1>3, AskSound
<1>4. ASSUME NEW ds \in SUBSET Docs \ {{}},
             NEW gone \in SUBSET (Active(file) \ ds),
             NEW new \in [ds -> Texts], InitDir(new, gone)
      PROVE  IInv'
  BY <1>4, InitDirSound
<1>5. ASSUME NEW d \in Docs, NEW t \in Texts, PutUnbuilt(d, t)
      PROVE  IInv'
  BY <1>5, PutUnbuiltSound
<1>6. ASSUME NEW d \in Docs, NEW t \in Texts, Remember(d, t)
      PROVE  IInv'
  BY <1>6, RememberSound
<1>7. ASSUME NEW d \in Docs, Forget(d) PROVE IInv'
  BY <1>7, ForgetSound
<1>8. ASSUME NEW packs \in BOOLEAN, Compact(packs) PROVE IInv'
  BY <1>8, CompactSound
<1>9. CASE UNCHANGED vars
  BY <1>9 DEF vars, IInv
<1> QED
  BY <1>1, <1>2, <1>3, <1>4, <1>5, <1>6, <1>7, <1>8, <1>9 DEF Next

\* The invariant holds of every reachable state.
THEOREM IndexesSound == Spec => []IInv
<1>1. Init => IInv
  BY InitSound
<1>2. IInv /\ [Next]_vars => IInv'
  BY NextSound
<1> QED
  BY <1>1, <1>2, PTL DEF Spec

\* Through any number of inits, compactions, forgets and restarts the symbol
\* of a definition that is still there is found (rebuild_trigram_index(),
\* sym()).
THEOREM SymbolsAreKept == Spec => []SymbolsKept
<1>1. IInv => SymbolsKept
  BY DEF IInv, Sound, Symboled, SymbolsKept
<1> QED
  BY <1>1, IndexesSound, PTL

\* Every active document has a row in the matrix or was put without a build
\* since (build_index()).
THEOREM RowForEveryDocument == Spec => []HasRow
<1>1. IInv => HasRow
  BY DEF IInv, Sound, Rowed, HasRow
<1> QED
  BY <1>1, IndexesSound, PTL

\* Where nothing waits for a build, the text that was just stored is in the
\* matrix, whichever of its branches build_index() takes.
THEOREM NewTextEncoded == Spec => StoredIsEncoded
<1> DEFINE A == \A d \in Docs, t \in Texts :
                  Remember(d, t) /\ unbuilt = {} => BagIn(<<d, t>>, brain'.rows)
<1>1. IInv => A
  <2> SUFFICES ASSUME IInv, NEW d \in Docs, NEW t \in Texts,
                      Remember(d, t), unbuilt = {}
               PROVE  <<d, t>> \in DOMAIN brain'.rows
    BY DEF BagIn, BagToSet
  <2> DEFINE new == [x \in {d} |-> t]
             put == Put(brain, new)
  <2>1. brain # None /\ brain' = Saved(BuildIndex(put))
    BY DEF Remember, Serves
  <2>2. Sound(brain, unbuilt, declared)
    BY <2>1 DEF IInv
  <2>3. /\ Whole(put)
        /\ put.text = [x \in Docs |-> IF x \in DOMAIN new
                                      THEN new[x] ELSE brain.text[x]]
        /\ put.rows = brain.rows /\ put.corpus = brain.corpus
    <3> HIDE DEF new
    <3> QED
      BY <2>2, PutKeeps DEF Sound
  <2>4. Active(put) = Active(brain) \cup {d} /\ put.text[d] = t
    BY <2>3, NoneAssumption DEF Active
  <2> HIDE DEF put
  <2>5. Readable(put) = Active(brain) \cup {d}
    BY <2>3, <2>4 DEF Readable, Whole
  <2>6. KnownHasRow(put, unbuilt)
    BY <2>2, <2>3 DEF Sound, KnownHasRow, Encoded
  <2>7. brain'.rows = Matrix(put)
    <3>1. Whole(BuildIndex(put)) /\ BuildIndex(put).rows = Matrix(put)
      BY <2>3, <2>6, BuildKeeps
    <3> QED
      BY <2>1, <3>1, SavedSame DEF Whole
  \* Only a document that was put without a build could be new to the corpus
  \* beside d, and there is none.
  <2>8. Incremental(put) => Fresh(put) = {d}
    BY <2>2, <2>3, <2>5 DEF Incremental, Fresh, Sound, Known
  <2>9. ASSUME NEW known, d \in known
        PROVE  <<d, t>> \in DOMAIN Rows(put, known)
    <3>1. DOMAIN Rows(put, known) = {<<x, put.text[x]>> : x \in known}
      BY DEF Rows, SetToBag
    <3> QED
      BY <2>4, <2>9, <3>1
  <2>10. CASE Incremental(put)
    <3>1. brain'.rows = Appended(put)
      BY <2>5, <2>7, <2>10 DEF Matrix
    <3>2. <<d, t>> \in DOMAIN Rows(put, Fresh(put))
      BY <2>8, <2>9, <2>10
    <3> QED
      BY <3>1, <3>2, AppendedEncodes
  <2>11. CASE ~Incremental(put)
    <3>1. brain'.rows = Rows(put, Readable(put))
      BY <2>5, <2>7, <2>11 DEF Matrix
    <3> QED
      BY <2>5, <2>9, <3>1
  <2> QED
    BY <2>10, <2>11
<1>2. IInv => [A]_vars
  BY <1>1
<1> QED
  BY <1>2, IndexesSound, PTL DEF StoredIsEncoded

-----------------------------------------------------------------------------
(***************************************************************************)
(* Types.  While a command is at work frames are unreadable and symbols    *)
(* pending (Shaped); when it is done there are none (Tidy).                *)
(***************************************************************************)
RowsShaped(rows) == /\ IsABag(rows) /\ IsFiniteSet(DOMAIN rows)
                    /\ DOMAIN rows \subseteq Docs \X Texts

Shaped(b) ==
  /\ DOMAIN b = Fields
  /\ b.text \in [Docs -> Texts \cup {None}]
  /\ RowsShaped(b.rows)
  /\ b.corpus \subseteq Docs /\ b.prior \in Nat
  /\ b.ids \subseteq Docs /\ b.posted \in BOOLEAN /\ (b.posted => b.ids # {})
  /\ b.syms \subseteq Code /\ b.pend \subseteq Code /\ b.cache \subseteq Docs

Tidy(b) == Shaped(b) /\ b.packed = {} /\ b.pend = {}

TypeInv == /\ Tidy(file) /\ (brain # None => Tidy(brain))
           /\ unbuilt \subseteq Docs /\ declared \subseteq Code

LEMMA TidyIsTypeOK == TypeInv => TypeOK
  BY DEF TypeInv, Tidy, Shaped, RowsShaped, TypeOK, TypeOKOf

\* A finite bag has a number of rows.
LEMMA RowsCounted ==
  ASSUME NEW b, RowsShaped(b.rows)
  PROVE  RowCount(b) \in Nat
<1> DEFINE copies(r) == {r} \X (1 .. b.rows[r])
           groups == {copies(r) : r \in DOMAIN b.rows}
<1>1. ASSUME NEW r \in DOMAIN b.rows
      PROVE  IsFiniteSet(copies(r))
  <2>1. b.rows[r] \in Nat
    BY DEF RowsShaped, IsABag
  <2>2. IsFiniteSet(1 .. b.rows[r])
    BY <2>1, FS_Interval
  <2>3. IsFiniteSet({r})
    BY FS_Singleton
  <2> QED
    BY <2>2, <2>3, FS_Product
<1>2. IsFiniteSet(groups)
  <2>1. IsFiniteSet(DOMAIN b.rows)
    BY DEF RowsShaped
  <2>2. PICK g : g = [r \in DOMAIN b.rows |-> copies(r)]
    OBVIOUS
  <2>3. g \in [DOMAIN b.rows -> groups] /\ \A G \in groups : \E r \in DOMAIN b.rows : g[r] = G
    BY <2>2
  <2> HIDE DEF groups, copies
  <2>4. g \in Surjection(DOMAIN b.rows, groups)
    BY <2>3 DEF Surjection
  <2> QED
    BY <2>1, <2>4, FS_Surjection
<1>3. \A G \in groups : IsFiniteSet(G)
  BY <1>1
<1> HIDE DEF groups
<1>4. IsFiniteSet(UNION groups)
  BY <1>2, <1>3, FS_UNION
<1>5. Cardinality(UNION groups) \in Nat
  BY <1>4, FS_CardinalityType
<1> QED
  BY <1>5 DEF RowCount, groups, copies

\* The rows of documents that have a text.
LEMMA RowsAreShaped ==
  ASSUME NEW b, b.text \in [Docs -> Texts \cup {None}], NEW ds \in SUBSET Active(b)
  PROVE  RowsShaped(Rows(b, ds))
<1> DEFINE row(d) == <<d, b.text[d]>>
           pairs == {row(d) : d \in ds}
<1>1. ds \subseteq Docs /\ \A d \in ds : b.text[d] \in Texts
  BY DEF Active
<1>2. Rows(b, ds) = [r \in pairs |-> 1]
  BY DEF Rows, SetToBag
<1>3. pairs \subseteq Docs \X Texts
  BY <1>1
<1>4. IsFiniteSet(pairs)
  <2>1. IsFiniteSet(ds)
    BY <1>1, FiniteAssumption, FS_Subset
  <2>2. PICK g : g = [d \in ds |-> row(d)]
    OBVIOUS
  <2>3. g \in [ds -> pairs] /\ \A r \in pairs : \E d \in ds : g[d] = r
    BY <2>2
  <2> HIDE DEF pairs, row
  <2>4. g \in Surjection(ds, pairs)
    BY <2>3 DEF Surjection
  <2> QED
    BY <2>1, <2>4, FS_Surjection
<1> HIDE DEF pairs
<1> QED
  BY <1>2, <1>3, <1>4 DEF RowsShaped, IsABag

LEMMA AppendedShaped ==
  ASSUME NEW b, Shaped(b)
  PROVE  RowsShaped(Appended(b))
<1> DEFINE more == Rows(b, Fresh(b))
<1>1. RowsShaped(b.rows) /\ RowsShaped(more)
  BY RowsAreShaped DEF Shaped, Fresh, Readable
<1>2. Appended(b) = b.rows (+) more
  BY DEF Appended
<1> HIDE DEF more
<1>3. DOMAIN Appended(b) = DOMAIN b.rows \cup DOMAIN more
  BY <1>2 DEF (+)
<1>4. IsFiniteSet(DOMAIN Appended(b))
  BY <1>1, <1>3, FS_Union DEF RowsShaped
<1>5. IsABag(Appended(b))
  BY <1>1, <1>2 DEF (+), IsABag, RowsShaped
<1> QED
  BY <1>1, <1>3, <1>4, <1>5 DEF RowsShaped

LEMMA PutShaped ==
  ASSUME NEW b, Shaped(b), NEW new, \A d \in DOMAIN new : new[d] \in Texts \cup {None}
  PROVE  Shaped(Put(b, new)) /\ Put(b, new).pend = b.pend
  BY DEF Shaped, Fields, Put

LEMMA BuildShaped ==
  ASSUME NEW b, Shaped(b)
  PROVE  Shaped(BuildIndex(b)) /\ BuildIndex(b).pend = b.pend
<1>1. RowsShaped(Matrix(b))
  <2>1. RowsShaped(Rows(b, Readable(b)))
    BY RowsAreShaped DEF Shaped, Readable
  <2> QED
    BY <2>1, AppendedShaped DEF Matrix, Shaped
<1>2. Readable(b) \subseteq Docs
  BY DEF Readable, Active
<1>3. Cardinality(Readable(b)) \in Nat
  BY <1>2, FiniteAssumption, FS_Subset, FS_CardinalityType
<1> QED
  BY <1>1, <1>2, <1>3 DEF BuildIndex, Shaped, Fields

LEMMA CachedTidy ==
  ASSUME NEW b, Tidy(b)
  PROVE  Tidy(Cached(b))
<1>1. Readable(b) \subseteq Docs
  BY DEF Readable, Active
<1>2. Cardinality(Readable(b)) \in Nat
  BY <1>1, FiniteAssumption, FS_Subset, FS_CardinalityType
<1> QED
  BY <1>1, <1>2 DEF Cached, Tidy, Shaped, Fields

LEMMA CompactedShaped ==
  ASSUME NEW b, Shaped(b), NEW packs \in BOOLEAN
  PROVE  Shaped(Compacted(b, packs)) /\ Compacted(b, packs).pend = {}
<1> DEFINE c == [b EXCEPT !.packed = IF packs THEN Active(b) ELSE {}]
<1>1. Shaped(c)
  BY DEF Shaped, Fields
<1>2. Compacted(b, packs) = Rebuilt(c)
  BY DEF Compacted
<1> HIDE DEF c
<1>3. Listed(c) \subseteq Docs /\ Merged(c) \subseteq Code
  BY <1>1 DEF Listed, Active, Merged, Shaped
<1>4. CASE Listed(c) = {}
  BY <1>1, <1>2, <1>4 DEF Rebuilt, Shaped, Fields
<1>5. CASE Listed(c) # {}
  <2>1. Rebuilt(c) = [c EXCEPT !.ids = Listed(c), !.posted = Posted(c) # {},
                               !.syms = Merged(c) \cap Listed(c), !.pend = {}]
    BY <1>5 DEF Rebuilt
  <2>2. (Posted(c) # {}) \in BOOLEAN
    OBVIOUS
  <2> QED
    BY <1>1, <1>2, <1>3, <1>5, <2>1, <2>2 DEF Shaped, Fields
<1> QED
  BY <1>4, <1>5

LEMMA ReopenedTidy ==
  ASSUME NEW b, Shaped(b)
  PROVE  Tidy(Reopened(b))
<1>1. RowCount(b) \in Nat
  BY RowsCounted DEF Shaped
<1>2. Encoded(b) \subseteq Docs
  BY DEF Encoded, Shaped, RowsShaped
<1>3. KeepsList(b) \in BOOLEAN /\ (KeepsList(b) => b.ids # {})
  BY DEF KeepsList, Shaped
<1> QED
  BY <1>1, <1>2, <1>3 DEF Reopened, Empty, Tidy, Shaped, Fields

LEMMA SavedTidy ==
  ASSUME NEW b, Shaped(b), b.pend = {}
  PROVE  Tidy(Saved(b))
  BY DEF Saved, Tidy, Shaped, Fields

LEMMA ServesTidy ==
  ASSUME NEW b, Shaped(b), b.pend = {}, Serves(b)
  PROVE  Tidy(file') /\ Tidy(brain')
  BY ReopenedTidy, SavedTidy DEF Serves, SavesTo

LEMMA InitTyped == Init => TypeInv
<1> SUFFICES ASSUME Init PROVE TypeInv
  OBVIOUS
<1>1. RowsShaped(EmptyBag)
  BY FS_EmptySet DEF RowsShaped, EmptyBag, SetToBag, IsABag
<1>2. Tidy(Empty)
  BY <1>1 DEF Empty, Tidy, Shaped, Fields
<1> QED
  BY <1>2 DEF Init, TypeInv

LEMMA InitDirTyped ==
  ASSUME TypeInv, NEW ds \in SUBSET Docs, NEW gone \in SUBSET (Active(file) \ ds),
         NEW new \in [ds -> Texts], InitDir(new, gone)
  PROVE  TypeInv'
<1> DEFINE put   == Put(file, [d \in DOMAIN new \cup gone |->
                                 IF d \in gone THEN None ELSE new[d]])
           named == [put EXCEPT !.pend = DOMAIN new \cap Code]
           built == BuildIndex(named)
           shapes == {{}} \cup {{d} : d \in Docs \ (Code \cup Active(put))}
<1>1. /\ \E hs \in shapes : \E harvest \in [hs -> Texts], packs \in BOOLEAN :
           SavesTo(Compacted(IF hs = {} THEN built
                             ELSE BuildIndex(Put(built, harvest)), packs))
      /\ unbuilt' \subseteq unbuilt
      /\ declared' \subseteq declared \cup Code
      /\ brain = None /\ brain' = brain
  BY DEF InitDir
<1>2. Shaped(put)
  <2> DEFINE change == [d \in DOMAIN new \cup gone |-> IF d \in gone THEN None ELSE new[d]]
  <2>1. \A d \in DOMAIN change : change[d] \in Texts \cup {None}
    OBVIOUS
  <2>2. Shaped(file)
    BY DEF TypeInv, Tidy
  <2> HIDE DEF change
  <2>3. Shaped(Put(file, change))
    BY <2>1, <2>2, PutShaped
  <2> QED
    BY <2>3 DEF change
<1> HIDE DEF put
<1>3. Shaped(named)
  BY <1>2 DEF Shaped, Fields
<1> HIDE DEF named
<1>4. Shaped(built)
  BY <1>3, BuildShaped
<1> HIDE DEF built
<1>5. PICK hs \in shapes : \E harvest \in [hs -> Texts], packs \in BOOLEAN :
        SavesTo(Compacted(IF hs = {} THEN built
                          ELSE BuildIndex(Put(built, harvest)), packs))
  BY <1>1
<1> PICK harvest \in [hs -> Texts], packs \in BOOLEAN :
        SavesTo(Compacted(IF hs = {} THEN built
                          ELSE BuildIndex(Put(built, harvest)), packs))
  BY <1>5
<1> DEFINE done == IF hs = {} THEN built ELSE BuildIndex(Put(built, harvest))
<1>6. Shaped(done)
  <2>1. Shaped(Put(built, harvest))
    BY <1>4, PutShaped
  <2>2. Shaped(BuildIndex(Put(built, harvest)))
    BY <2>1, BuildShaped
  <2> QED
    BY <1>4, <2>2
<1>7. SavesTo(Compacted(done, packs))
  OBVIOUS
<1> HIDE DEF done
<1>8. Tidy(file')
  BY <1>6, <1>7, CompactedShaped, ReopenedTidy DEF SavesTo
<1> QED
  BY <1>1, <1>8 DEF TypeInv

LEMMA TypesNext == TypeInv /\ [Next]_vars => TypeInv'
<1> SUFFICES ASSUME TypeInv, [Next]_vars PROVE TypeInv'
  OBVIOUS
<1>1. Tidy(file) /\ (brain # None => Tidy(brain)) /\ unbuilt \subseteq Docs /\ declared \subseteq Code
  BY DEF TypeInv
<1>2. CASE Start \/ Stop \/ UNCHANGED vars
  BY <1>1, <1>2 DEF Start, Stop, vars, TypeInv
<1>3. CASE Ask
  BY <1>1, <1>3, CachedTidy DEF Ask, TypeInv
<1>4. ASSUME NEW ds \in SUBSET Docs \ {{}},
             NEW gone \in SUBSET (Active(file) \ ds),
             NEW new \in [ds -> Texts], InitDir(new, gone)
      PROVE  TypeInv'
  BY <1>4, InitDirTyped
<1>5. ASSUME NEW d \in Docs, NEW t \in Texts, PutUnbuilt(d, t)
      PROVE  TypeInv'
  <2> DEFINE new == [x \in {d} |-> t]
  <2>1. /\ brain = None /\ brain' = None /\ declared' = declared
        /\ unbuilt' \subseteq Docs /\ SavesTo(Put(file, new))
    BY <1>1, <1>5 DEF PutUnbuilt
  <2>2. \A x \in DOMAIN new : new[x] \in Texts \cup {None}
    OBVIOUS
  <2> HIDE DEF new
  <2>3. Tidy(file')
    BY <1>1, <2>1, <2>2, PutShaped, ReopenedTidy DEF SavesTo, Tidy
  <2> QED
    BY <1>1, <2>1, <2>3 DEF TypeInv
<1>6. ASSUME NEW d \in Docs, NEW t \in Texts, Remember(d, t)
      PROVE  TypeInv'
  <2> DEFINE new == [x \in {d} |-> t]
             done == BuildIndex(Put(brain, new))
  <2>1. /\ brain # None /\ declared' = declared
        /\ unbuilt' \subseteq unbuilt /\ Serves(done)
    BY <1>6 DEF Remember
  <2>2. \A x \in DOMAIN new : new[x] \in Texts \cup {None}
    OBVIOUS
  <2> HIDE DEF new
  <2>3. Shaped(done) /\ done.pend = {}
    BY <1>1, <2>1, <2>2, PutShaped, BuildShaped DEF Tidy
  <2> HIDE DEF done
  <2> QED
    BY <1>1, <2>1, <2>3, ServesTidy DEF TypeInv
<1>7. ASSUME NEW d \in Docs, Forget(d)
      PROVE  TypeInv'
  <2> DEFINE new == [x \in {d} |-> None]
  <2>1. /\ brain # None /\ declared' \subseteq declared /\ unbuilt' = unbuilt
        /\ Serves(Put(brain, new))
    BY <1>7 DEF Forget
  <2>2. \A x \in DOMAIN new : new[x] \in Texts \cup {None}
    OBVIOUS
  <2> HIDE DEF new
  <2>3. Shaped(Put(brain, new)) /\ Put(brain, new).pend = {}
    BY <1>1, <2>1, <2>2, PutShaped DEF Tidy
  <2> QED
    BY <1>1, <2>1, <2>3, ServesTidy DEF TypeInv
<1>8. ASSUME NEW packs \in BOOLEAN, Compact(packs)
      PROVE  TypeInv'
  <2>1. /\ brain # None /\ Serves(Compacted(brain, packs))
        /\ unbuilt' = unbuilt /\ declared' = declared
    BY <1>8 DEF Compact
  <2>2. Shaped(Compacted(brain, packs)) /\ Compacted(brain, packs).pend = {}
    BY <1>1, <2>1, CompactedShaped DEF Tidy
  <2> QED
    BY <1>1, <2>1, <2>2, ServesTidy DEF TypeInv
<1> QED
  BY <1>2, <1>3, <1>4, <1>5, <1>6, <1>7, <1>8 DEF Next

\* Between commands nothing is half built: no frame unreadable, no symbol
\* pending, no postings without the list that numbers their documents
\* (rebuild_trigram_index(), save(), parse_data()).
THEOREM IndexTypes == Spec => []TypeOK
<1> QED
  BY InitTyped, TypesNext, TidyIsTypeOK, PTL DEF Spec
=============================================================================
