---------------------------- MODULE MCSharedBrain ----------------------------
(***************************************************************************)
(* A small instance of SharedBrain for TLC.                                *)
(***************************************************************************)
EXTENDS SharedBrain

CONSTANTS w1, w2, r1, t1, i1, i2, i3

TwoWriters == {w1, w2}
OneReader == {r1}
OneText == {t1}
ThreeInodes == {i1, i2, i3}
=============================================================================
