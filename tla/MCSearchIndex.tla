--------------------------- MODULE MCSearchIndex ---------------------------
(***************************************************************************)
(* Instance: three documents, the fewest on which an incremental build     *)
(* leaves rows alone, and two texts.                                       *)
(***************************************************************************)
EXTENDS SearchIndex, TLC

CONSTANTS d1, d2, d3, t1, t2

ThreeDocs == {d1, d2, d3}
TwoTexts == {t1, t2}
Definitions == {d1}
Notes == {d2, d3}

\* Nothing tells one note or one text from another.
Symmetry == Permutations(Notes) \cup Permutations(TwoTexts)
=============================================================================
