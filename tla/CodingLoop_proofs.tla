-------------------------- MODULE CodingLoop_proofs --------------------------
(***************************************************************************)
(* What a run of the coding loop promises for any answers of the model,    *)
(* any trees, builds and tests: what it reports green works, and so does   *)
(* the change-set it stores if there was no other.  Both speak of the end  *)
(* of a run; IInv says what holds at each step on the way: which tree the  *)
(* change-set of the code step made, and that the run learns nothing but   *)
(* after a green gate on the tree as it lies on disk.                      *)
(***************************************************************************)
EXTENDS CodingLoop, TLAPS

\* A fix of attempt one is the change-set of the code step, whole.
WholeFix == /\ Applies(base, coded)
            /\ tree = Written(base, coded, Len(coded))

\* A run has no result before its end.
Unsettled == pc # "idle" => result = "none"
\* Nothing is written before the code step.
Untouched == pc \in {"plan", "design", "code"} => tree = base /\ attempts = 0
\* After it there is a change-set, which is all that was written if it was
\* the only one and it applied.
Changed == pc \in {"test", "repair", "learn"} =>
  /\ coded \in ChangeSets /\ attempts >= 1
  /\ pc # "repair" /\ attempts = 1 /\ ~failed => WholeFix
\* Repairs are counted.
Bounded == pc = "repair" => attempts < MaxAttempts
\* Learning follows a green gate at once.
Tested == pc = "learn" => ~failed /\ Gate

IInv == /\ TypeOK /\ GreenWorks /\ FirstTryVerified
        /\ Unsettled /\ Untouched /\ Changed /\ Bounded /\ Tested

-----------------------------------------------------------------------------
(***************************************************************************)
(* Lemmas.                                                                 *)
(***************************************************************************)
\* A change-set applied to a tree, in full or up to some edit, leaves a tree.
LEMMA WrittenIsTree ==
  ASSUME NEW t \in Tree, NEW cs \in ChangeSets, NEW k
  PROVE  Written(t, cs, k) \in Tree
<1>1. cs \in Seq(Edit)
  BY ChangeSetsAssumption
<1>2. \A i \in DOMAIN cs : cs[i].to \in Contents
  <2>1. \A i \in DOMAIN cs : cs[i] \in Edit
    BY <1>1
  <2> QED
    BY <2>1 DEF Edit
<1>3. ASSUME NEW f \in Files, \E i \in Done(t, cs) : i <= k /\ cs[i].file = f
      PROVE  cs[CHOOSE i \in Done(t, cs) : i <= k /\ cs[i].file = f].to \in Contents
  <2>1. (CHOOSE i \in Done(t, cs) : i <= k /\ cs[i].file = f) \in DOMAIN cs
    BY <1>3 DEF Done
  <2> QED
    BY <1>2, <2>1
<1>4. \A f \in Files : t[f] \in Contents
  BY DEF Tree
<1> QED
  BY <1>3, <1>4 DEF Written, Tree

\* A run that has not begun satisfies everything.
LEMMA InitSound == Init => IInv
<1> SUFFICES ASSUME Init
             PROVE  IInv
  OBVIOUS
<1>1. TypeOK
  <2>1. coded \in ChangeSets \cup {<<>>}
    BY DEF Init
  <2>2. tree \in Tree /\ base \in Tree
    BY TreesAssumption DEF Init
  <2>3. store \in [Tasks -> Entry \cup {None}]
    BY DEF Init
  <2>4. attempts \in Nat /\ attempts <= 1
    BY DEF Init
  <2> QED
    BY <2>1, <2>2, <2>3, <2>4 DEF Init, TypeOK
<1> QED
  BY <1>1 DEF Init, IInv, GreenWorks, FirstTryVerified, Unsettled, Untouched, Changed,
              Bounded, Tested

\* The code step on an untouched tree: the tree is what its change-set makes.
LEMMA CodeSound ==
  ASSUME IInv, NEW cs \in ChangeSets, Code(cs)
  PROVE  IInv'
<1>1. tree \in Tree /\ base = tree /\ pc = "code" /\ attempts = 0
  BY DEF IInv, TypeOK, Untouched, Code
<1>2. tree' = Written(tree, cs, Len(cs)) /\ tree' \in Tree
  BY <1>1, WrittenIsTree DEF Code, Apply
<1>3. /\ pc' = "test" /\ coded' = cs /\ attempts' = 1 /\ base' = base
      /\ failed' = ~ Applies(tree, cs)
  BY DEF Code, Apply, ApplyFails
<1>4. TypeOK'
  BY <1>2, <1>3 DEF IInv, TypeOK, Code
<1>5. GreenWorks' /\ FirstTryVerified' /\ Unsettled'
  BY DEF IInv, Code, Unsettled, GreenWorks, FirstTryVerified
<1>6. Changed'
  <2>1. attempts' >= 1
    BY <1>3
  <2>2. ~ failed' => WholeFix'
    BY <1>1, <1>2, <1>3 DEF WholeFix, Applies, Written, Done, Unresolved, Resolves
  <2> QED
    BY <1>3, <2>1, <2>2 DEF Changed
<1> QED
  BY <1>3, <1>4, <1>5, <1>6 DEF IInv, Untouched, Bounded, Tested

\* A repair is an attempt of at least two, so it makes no claim on the code
\* step's change-set.
LEMMA RepairSound ==
  ASSUME IInv, NEW cs \in ChangeSets, Repair(cs)
  PROVE  IInv'
<1>1. /\ tree \in Tree /\ pc = "repair" /\ attempts \in Nat /\ attempts >= 1
      /\ attempts < MaxAttempts /\ coded \in ChangeSets
  BY DEF IInv, TypeOK, Changed, Bounded, Repair
<1>2. tree' \in Tree
  BY <1>1, WrittenIsTree DEF Repair, Apply
<1>3. /\ pc' = "test" /\ attempts' = attempts + 1 /\ failed' = ~ Applies(tree, cs)
      /\ coded' = coded
  BY DEF Repair, Apply, ApplyFails, Counted
<1>4. attempts' \in Nat /\ attempts' <= MaxAttempts /\ attempts' >= 1 /\ attempts' # 1
  BY <1>1, <1>3, AttemptsAssumption
<1>5. TypeOK'
  BY <1>2, <1>3, <1>4 DEF IInv, TypeOK, Repair
<1>6. GreenWorks' /\ FirstTryVerified' /\ Unsettled'
  BY DEF IInv, Repair, Unsettled, GreenWorks, FirstTryVerified
<1>7. Changed'
  BY <1>1, <1>3, <1>4 DEF Changed
<1> QED
  BY <1>3, <1>5, <1>6, <1>7 DEF IInv, Untouched, Bounded, Tested

\* What is learned: the tree that passed, and how it came about.
LEMMA LearnSound ==
  ASSUME IInv, LearnStores
  PROVE  IInv'
<1>1. /\ pc = "learn" /\ Gate /\ ~failed
      /\ coded \in ChangeSets
      /\ attempts = 1 => WholeFix
  BY DEF IInv, LearnStores, Tested, Changed
<1>2. /\ store' = [store EXCEPT ![task] = Fix]
      /\ pc' = "idle" /\ result' = "green" /\ tree' = tree
  BY DEF LearnStores, End
<1>3. Fix \in Entry
  BY <1>1 DEF IInv, TypeOK, Fix, Entry
<1>4. TypeOK'
  BY <1>2, <1>3 DEF IInv, TypeOK, LearnStores
<1>5. \A t \in Tasks : store'[t] = IF t = task THEN Fix ELSE store[t]
  BY <1>2 DEF IInv, TypeOK
<1>6. Fix.attempts = attempts /\ Fix.found = base /\ Fix.edits = coded
  BY DEF Fix
<1>7. FirstTryVerified'
  BY <1>1, <1>5, <1>6 DEF IInv, FirstTryVerified, WholeFix, Gate
<1>8. GreenWorks'
  BY <1>1, <1>2 DEF GreenWorks, Gate
<1> QED
  BY <1>2, <1>4, <1>7, <1>8 DEF IInv, Unsettled, Untouched, Changed, Bounded, Tested

\* A run that ends without touching anything, as an error, red or green.
LEMMA EndSound ==
  ASSUME IInv, NEW how \in {"none", "green", "red", "error"}, End(how),
         how = "green" => Gate,
         UNCHANGED <<task, tree, base, coded, attempts, store>>, failed' \in BOOLEAN
  PROVE  IInv'
<1>1. TypeOK'
  BY DEF IInv, TypeOK, End
<1>2. GreenWorks' /\ FirstTryVerified'
  BY DEF IInv, GreenWorks, FirstTryVerified, End, Gate
<1> QED
  BY <1>1, <1>2 DEF IInv, End, Unsettled, Untouched, Changed, Bounded, Tested

\* A killed process leaves a tree and no result.
LEMMA CrashSound ==
  ASSUME IInv, Crash
  PROVE  IInv'
<1>1. tree' \in Tree
  BY WrittenIsTree DEF IInv, TypeOK, Crash
<1>2. TypeOK'
  BY <1>1 DEF IInv, TypeOK, Crash, End
<1>3. GreenWorks' /\ FirstTryVerified'
  BY DEF IInv, GreenWorks, FirstTryVerified, Crash, End
<1> QED
  BY <1>2, <1>3 DEF IInv, Crash, End, Unsettled, Untouched, Changed, Bounded, Tested

LEMMA StartSound ==
  ASSUME IInv, NEW t \in Tasks, NEW tr \in Trees, Start(t, tr)
  PROVE  IInv'
<1>1. TypeOK'
  <2>1. coded' \in ChangeSets \cup {<<>>}
    BY DEF Start
  <2>2. tree' \in Tree /\ base' \in Tree
    BY TreesAssumption DEF Start
  <2>3. attempts' \in Nat /\ attempts' <= 1
    BY DEF Start
  <2> QED
    BY <2>1, <2>2, <2>3 DEF IInv, TypeOK, Start
<1>2. GreenWorks' /\ FirstTryVerified'
  BY DEF IInv, GreenWorks, FirstTryVerified, Start
<1> QED
  BY <1>1, <1>2 DEF IInv, Start, Unsettled, Untouched, Changed, Bounded, Tested

\* The gate: green leads to learning, red to a repair while any is left.
LEMMA TestSound ==
  ASSUME IInv, TestGreen \/ TestRed
  PROVE  IInv'
<1>1. CASE TestGreen
  <2>1. TypeOK' /\ GreenWorks' /\ FirstTryVerified' /\ Unsettled'
    BY <1>1 DEF TestGreen, IInv, TypeOK, GreenWorks, FirstTryVerified, Unsettled
  <2>2. Changed'
    BY <1>1 DEF TestGreen, IInv, Changed, WholeFix
  <2>3. Tested'
    BY <1>1 DEF TestGreen, Tested, Green, Gate
  <2> QED
    BY <1>1, <2>1, <2>2, <2>3 DEF TestGreen, IInv, Untouched, Bounded
<1>2. CASE TestRed /\ NoneLeft
  BY <1>2, EndSound DEF TestRed
<1>3. CASE TestRed /\ ~ NoneLeft
  <2>1. pc = "test" /\ pc' = "repair" /\ attempts < MaxAttempts
    BY <1>3, AttemptsAssumption DEF TestRed, NoneLeft, IInv, TypeOK
  <2>2. TypeOK' /\ GreenWorks' /\ FirstTryVerified' /\ Unsettled'
    BY <1>3 DEF TestRed, IInv, TypeOK, GreenWorks, FirstTryVerified, Unsettled
  <2>3. Changed' /\ Bounded'
    BY <1>3, <2>1 DEF TestRed, IInv, Changed, Bounded
  <2> QED
    BY <2>1, <2>2, <2>3 DEF IInv, Untouched, Tested
<1> QED
  BY <1>1, <1>2, <1>3

LEMMA NextSound == IInv /\ [Next]_vars => IInv'
<1> SUFFICES ASSUME IInv, [Next]_vars
             PROVE  IInv'
  OBVIOUS
<1>1. ASSUME NEW t \in Tasks, NEW tr \in Trees, Start(t, tr)
      PROVE  IInv'
  BY <1>1, StartSound
<1>2. CASE Plan \/ Design
  <2>1. TypeOK' /\ GreenWorks' /\ FirstTryVerified' /\ Unsettled'
    BY <1>2 DEF Plan, Design, IInv, TypeOK, GreenWorks, FirstTryVerified, Unsettled
  <2> QED
    BY <1>2, <2>1 DEF Plan, Design, IInv, Untouched, Changed, Bounded, Tested
<1>3. ASSUME NEW cs \in ChangeSets, Code(cs) \/ Repair(cs)
      PROVE  IInv'
  BY <1>3, CodeSound, RepairSound
<1>4. CASE LlmFails
  <2>1. failed' \in BOOLEAN
    BY <1>4 DEF LlmFails, IInv, TypeOK
  <2> QED
    BY <1>4, <2>1, EndSound DEF LlmFails
<1>5. CASE TestGreen \/ TestRed
  BY <1>5, TestSound
<1>6. CASE LearnStores
  BY <1>6, LearnSound
<1>7. CASE LearnSkips \/ LearnSaveFails
  <2>1. failed' \in BOOLEAN /\ Gate
    BY <1>7 DEF LearnSkips, LearnSaveFails, IInv, TypeOK, Tested
  <2> QED
    BY <1>7, <2>1, EndSound DEF LearnSkips, LearnSaveFails
<1>8. CASE Crash
  BY <1>8, CrashSound
<1>9. CASE UNCHANGED vars
  BY <1>9 DEF vars, IInv, TypeOK, GreenWorks, FirstTryVerified, Unsettled, Untouched,
              Changed, WholeFix, Bounded, Tested, Gate
<1> QED
  BY <1>1, <1>2, <1>3, <1>4, <1>5, <1>6, <1>7, <1>8, <1>9 DEF Next, RunStep

-----------------------------------------------------------------------------
(***************************************************************************)
(* The invariants.                                                         *)
(***************************************************************************)
\* What holds at every step of a run.
THEOREM RunSound == Spec => []IInv
BY InitSound, NextSound, PTL DEF Spec

\* Every variable has its type, and no run makes more attempts than allowed.
THEOREM LoopTypes == Spec => []TypeOK
<1>1. IInv => TypeOK
  BY DEF IInv
<1> QED
  BY <1>1, RunSound, PTL

\* A run reports green only what builds and passes as it lies on disk, also
\* after change-sets that were applied in part (steps/mod.rs).
THEOREM GreenIsGreen == Spec => []GreenWorks
<1>1. IInv => GreenWorks
  BY DEF IInv
<1> QED
  BY <1>1, RunSound, PTL

\* The change-set stored for a run without repair, applied whole to the tree
\* the run found, gives a tree that builds and passes (steps/mod.rs:278,
\* apply.rs:225).
THEOREM FirstTriesVerified == Spec => []FirstTryVerified
<1>1. IInv => FirstTryVerified
  BY DEF IInv
<1> QED
  BY <1>1, RunSound, PTL
=============================================================================
