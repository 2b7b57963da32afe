---------------------------- MODULE MCCodingLoop -----------------------------
(***************************************************************************)
(* A small instance of CodingLoop for TLC: the task needs an edit in each  *)
(* of two files; the model may get one, both or neither of them right.     *)
(***************************************************************************)
EXTENDS CodingLoop, TLC

CONSTANTS t1, f1, f2, old, good, bad, blank

OneTask == {t1}
TwoFiles == {f1, f2}
FourContents == {old, good, bad, blank}

TreeOf(a, b) == f1 :> a @@ f2 :> b
Anchored(f, a, b) == [file |-> f, from |-> a, to |-> b]
WriteFile(f, b) == [file |-> f, from |-> Whole, to |-> b]

\* Refused: a blank file and one that is much shorter.
Guarded == {<<old, blank>>, <<good, blank>>, <<bad, blank>>, <<blank, blank>>,
            <<good, old>>}

Answers ==
  { <<>>,
    <<Anchored(f1, old, good), Anchored(f2, old, good)>>,
    <<Anchored(f1, old, bad), Anchored(f2, old, good)>>,
    <<Anchored(f2, old, good), Anchored(f1, bad, good)>>,
    <<WriteFile(f1, good)>>,
    <<WriteFile(f2, good), WriteFile(f1, blank)>> }

Untouched == {TreeOf(old, old)}
UntouchedOrLeft == {TreeOf(old, old), TreeOf(bad, good), TreeOf(good, old)}
NothingBad == {t \in Tree : \A f \in Files : t[f] \in {old, good}}
AllGood == {TreeOf(good, good)}
=============================================================================
