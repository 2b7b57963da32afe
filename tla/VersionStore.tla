---------------------------- MODULE VersionStore ----------------------------
(***************************************************************************)
(* What a brain promises about the versions of its documents, free of      *)
(* frames, blocks and files (docs/said-structure 3.4 and 14.14): a         *)
(* document has at most one current version; writing, forgetting and       *)
(* restoring move versions between current and history and lose none; a    *)
(* version leaves history only by a purge, and never under a legal hold.   *)
(***************************************************************************)
EXTENDS Naturals

CONSTANTS Docs, Cases, None

VARIABLES
  head,    \* document -> its current version, or None
  past,    \* document -> its recoverable versions
  held,    \* pairs <<version, case>>: legal holds
  known    \* number of versions ever written; their names are 0 .. known-1

vars == <<head, past, held, known>>

Current(d) == {head[d]} \ {None}
Lineage(d) == past[d] \cup Current(d)

Init == /\ head = [d \in Docs |-> None]
        /\ past = [d \in Docs |-> {}]
        /\ held = {}
        /\ known = 0

Write(d) == /\ head' = [head EXCEPT ![d] = known]
            /\ past' = [past EXCEPT ![d] = Lineage(d)]
            /\ known' = known + 1
            /\ UNCHANGED held

Forget(d) == /\ head[d] # None
             /\ head' = [head EXCEPT ![d] = None]
             /\ past' = [past EXCEPT ![d] = Lineage(d)]
             /\ UNCHANGED <<held, known>>

\* The newest version of the history comes back.
Restore(d) == \E v \in past[d] :
                /\ \A w \in past[d] : w <= v
                /\ head' = [head EXCEPT ![d] = v]
                /\ past' = [past EXCEPT ![d] = Lineage(d) \ {v}]
                /\ UNCHANGED <<held, known>>

Hold(d, c) == /\ held' = held \cup (Lineage(d) \X {c})
              /\ UNCHANGED <<head, past, known>>

Release(d, c) == /\ held' = held \ (Lineage(d) \X {c})
                 /\ UNCHANGED <<head, past, known>>

\* Only history is purged, and nothing under a hold.
Purge == /\ \A d \in Docs : past'[d] \subseteq past[d]
         /\ past' = [d \in Docs |-> past'[d]]
         /\ \A d \in Docs : \A v \in past[d] \ past'[d], c \in Cases :
              <<v, c>> \notin held
         /\ UNCHANGED <<head, held, known>>

Next == \/ \E d \in Docs : Write(d) \/ Forget(d) \/ Restore(d)
        \/ \E d \in Docs, c \in Cases : Hold(d, c) \/ Release(d, c)
        \/ Purge

Spec == Init /\ [][Next]_vars
=============================================================================
