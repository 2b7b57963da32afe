---------------------------- MODULE MCFrameStore ----------------------------
(***************************************************************************)
(* Small instances of FrameStore for TLC.                                  *)
(***************************************************************************)
EXTENDS FrameStore, TLC

CONSTANTS d1, d2, c1, c2

MCDocs == {d1, d2}
OneDoc == {d1}
MCCases == {c1, c2}
OneCase == {c1}

\* Documents and cases are only compared for equality.
Symmetry == Permutations(Docs) \cup Permutations(Cases)
=============================================================================
