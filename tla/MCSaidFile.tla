----------------------------- MODULE MCSaidFile -----------------------------
(***************************************************************************)
(* Small instances of SaidFile for TLC.                                    *)
(***************************************************************************)
EXTENDS SaidFile, TLC

CONSTANTS d1, d2, c1

OneDoc == {d1}
TwoDocs == {d1, d2}
OneCase == {c1}

Symmetry == Permutations(Docs)
=============================================================================
