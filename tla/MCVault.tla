------------------------------- MODULE MCVault -------------------------------
(***************************************************************************)
(* A small instance of Vault for TLC: two documents that share a part.     *)
(***************************************************************************)
EXTENDS Vault, TLC

CONSTANTS d1, d2, p1, p2, p3

TwoDocs == {d1, d2}
ThreeParts == {p1, p2, p3}
FirstDoc == {d1}
NoneOrLater == {0, 2}
OneShared == d1 :> {p1, p2} @@ d2 :> {p2, p3}
=============================================================================
