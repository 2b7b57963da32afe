----------------------------- MODULE CodingLoop ------------------------------
(***************************************************************************)
(* The coding loop: crates/said-orchestration/src.  One run at a time      *)
(* plans, designs, lets the model write a change-set, applies it to the    *)
(* working tree, runs the build and the tests, repairs while they fail and *)
(* attempts are left, and stores what it learned when they pass.           *)
(*                                                                         *)
(* The model's answers are any of ChangeSets.  What recall puts into the   *)
(* prompts only influences which, so it is left out.  The brain is the     *)
(* store of fixes, a file that is saved as a whole (see SaidFile).         *)
(***************************************************************************)
EXTENDS Naturals, Sequences

CONSTANTS
  Tasks, Files, Contents, None,
  Whole,        \* the anchor of a write-file edit
  Gutting,      \* <<old, new>> that the guard of write-file refuses
  ChangeSets,   \* sequences of edits, one per file; <<>> does not parse
  Trees,        \* working trees a run may start in
  Builds,       \* trees that build
  Passes,       \* trees whose tests pass
  MaxAttempts

Tree == [Files -> Contents]
Edit == [file : Files, from : Contents \cup {Whole}, to : Contents]

ASSUME TreesAssumption == Trees \subseteq Tree /\ Builds \subseteq Tree
                            /\ Passes \subseteq Tree
ASSUME ChangeSetsAssumption == ChangeSets \subseteq Seq(Edit)
ASSUME AttemptsAssumption == MaxAttempts \in Nat

VARIABLES
  pc,        \* the step the run is at
  task,      \* what it works on
  tree,      \* the working tree
  base,      \* the tree the run found
  coded,     \* the change-set of the code step
  attempts,  \* change-sets applied so far, successfully or not
  failed,    \* pending_failure: the last one did not apply
  result,    \* how the last run ended
  store      \* task -> the fix the brain holds for it, or None; with its
             \* edits, as history, where they were made and after how many
             \* attempts the run was green

vars == <<pc, task, tree, base, coded, attempts, failed, result, store>>

Init == /\ pc = "idle" /\ task \in Tasks
        /\ tree \in Trees /\ base = tree
        /\ coded = <<>> /\ attempts = 0 /\ failed = FALSE
        /\ result = "none"
        /\ store = [t \in Tasks |-> None]

End(how) == pc' = "idle" /\ result' = how

-----------------------------------------------------------------------------
(***************************************************************************)
(* apply_change_set(): file after file, until one fails.                   *)
(***************************************************************************)
\* An anchor is looked for in what the file holds now; a whole file is taken
\* unless it is blank or loses most of its lines.
Resolves(t, e) == IF e.from = Whole THEN <<t[e.file], e.to>> \notin Gutting
                                  ELSE e.from = t[e.file]

Unresolved(t, cs) == {i \in DOMAIN cs : ~Resolves(t, cs[i])}

\* The edits that reach the disk: those before the first that fails.
Done(t, cs) == {i \in DOMAIN cs : \A j \in Unresolved(t, cs) : i < j}

\* Also the tree when the process is killed after the first k of them.
Written(t, cs, k) ==
  [f \in Files |->
     IF \E i \in Done(t, cs) : i <= k /\ cs[i].file = f
     THEN cs[CHOOSE i \in Done(t, cs) : i <= k /\ cs[i].file = f].to
     ELSE t[f]]

Applies(t, cs) == cs # <<>> /\ Unresolved(t, cs) = {}

\* Mutant: what apply() returns is dropped.
Unnoticed(cs) == FALSE
ApplyFails(cs) == ~Applies(tree, cs)

Apply(cs) == /\ tree' = Written(tree, cs, Len(cs))
             /\ failed' = ApplyFails(cs)

-----------------------------------------------------------------------------
(***************************************************************************)
(* run_with_skills(), step by step.                                        *)
(***************************************************************************)
\* A run begins on a tree its user has prepared.
Start(t, tr) == /\ pc = "idle"
                /\ pc' = "plan"
                /\ task' = t /\ tree' = tr /\ base' = tr
                /\ coded' = <<>> /\ attempts' = 0 /\ failed' = FALSE
                /\ result' = "none"
                /\ UNCHANGED store

Plan == /\ pc = "plan" /\ pc' = "design"
        /\ UNCHANGED <<task, tree, base, coded, attempts, failed, result, store>>

Design == /\ pc = "design" /\ pc' = "code"
          /\ UNCHANGED <<task, tree, base, coded, attempts, failed, result, store>>

Code(cs) == /\ pc = "code" /\ pc' = "test"
            /\ coded' = cs
            /\ Apply(cs)
            /\ attempts' = 1
            /\ UNCHANGED <<task, base, result, store>>

\* Every repair is an attempt.  Mutant: only one that applied.
CountedIfApplied(cs) == IF ApplyFails(cs) THEN attempts ELSE attempts + 1
Counted(cs) == attempts + 1

Repair(cs) == /\ pc = "repair" /\ pc' = "test"
              /\ Apply(cs)
              /\ attempts' = Counted(cs)
              /\ UNCHANGED <<task, base, coded, result, store>>

\* A call of the model that errs or times out ends the run where it is.
LlmFails == /\ pc \in {"plan", "design", "code", "repair"}
            /\ End("error")
            /\ UNCHANGED <<task, tree, base, coded, attempts, failed, store>>

\* GateRunner::run(): the build, then the tests.  Mutant: the build will do.
BuildOnly == tree \in Builds
Gate == tree \in Builds /\ tree \in Passes

\* The gate is not run when the change-set did not apply.
Green == ~failed /\ Gate

TestGreen == /\ pc = "test" /\ Green
             /\ pc' = "learn"
             /\ UNCHANGED <<task, tree, base, coded, attempts, failed, result, store>>

\* Mutant: one attempt more.
OneMore == attempts > MaxAttempts
NoneLeft == attempts >= MaxAttempts

TestRed == /\ pc = "test" /\ ~Green
           /\ IF NoneLeft
              THEN End("red")
              ELSE pc' = "repair" /\ UNCHANGED result
           /\ failed' = FALSE
           /\ UNCHANGED <<task, tree, base, coded, attempts, store>>

\* learn::run(): the change-set of the code step is what it is given.
Fix == [edits |-> coded, found |-> base, attempts |-> attempts]

\* Superseding the fix of the same task.
LearnStores == /\ pc = "learn"
               /\ store' = [store EXCEPT ![task] = Fix]
               /\ End("green")
               /\ UNCHANGED <<task, tree, base, coded, attempts, failed>>

\* Learning is switched off, or recall finds a fix that is near enough, which
\* may be one of another task.
LearnSkips == /\ pc = "learn"
              /\ End("green")
              /\ UNCHANGED <<task, tree, base, coded, attempts, failed, store>>

LearnSaveFails == /\ pc = "learn"
                  /\ End("error")
                  /\ UNCHANGED <<task, tree, base, coded, attempts, failed, store>>

\* The process is killed, perhaps with some files of a change-set written.
Crash == /\ pc # "idle"
         /\ End("none")
         /\ \/ UNCHANGED tree
            \/ /\ pc \in {"code", "repair"}
               /\ \E cs \in ChangeSets : \E k \in DOMAIN cs :
                    tree' = Written(tree, cs, k)
         /\ UNCHANGED <<task, base, coded, attempts, failed, store>>

RunStep == \/ Plan \/ Design
           \/ \E cs \in ChangeSets : Code(cs) \/ Repair(cs)
           \/ LlmFails
           \/ TestGreen \/ TestRed
           \/ LearnStores \/ LearnSkips \/ LearnSaveFails

Next == \/ \E t \in Tasks, tr \in Trees : Start(t, tr)
        \/ RunStep
        \/ Crash

Spec == Init /\ [][Next]_vars

\* A model call ends, by its timeout if need be; build and test commands have
\* none and are assumed to end.
FairSpec == Spec /\ WF_vars(RunStep)

-----------------------------------------------------------------------------
Entry == [edits : ChangeSets, found : Tree, attempts : Nat]

TypeOK ==
  /\ pc \in {"idle", "plan", "design", "code", "test", "repair", "learn"}
  /\ task \in Tasks /\ tree \in Tree /\ base \in Tree
  /\ coded \in ChangeSets \cup {<<>>}
  /\ attempts \in Nat /\ (attempts <= 1 \/ attempts <= MaxAttempts)
  /\ failed \in BOOLEAN
  /\ result \in {"none", "green", "red", "error"}
  /\ store \in [Tasks -> Entry \cup {None}]

\* What is reported green works as it lies on disk, also when an earlier
\* change-set of the run was applied in part, and nothing is touched after
\* the gate (steps/mod.rs "green ONLY when the gate passes").
GreenWorks == result = "green" => tree \in Builds \cap Passes

\* The change-set that is stored for a run that needed no repair applies,
\* edit by edit, to the tree the run found, and the tree it makes of it builds
\* and passes: it was neither cut short nor mixed with what another left
\* behind (apply.rs:225, steps/mod.rs:278).  For a run with repairs this is not
\* so, see FixIsVerified.
FirstTryVerified == \A t \in Tasks : store[t] # None /\ store[t].attempts = 1 =>
  /\ Applies(store[t].found, store[t].edits)
  /\ Written(store[t].found, store[t].edits, Len(store[t].edits)) \in Builds \cap Passes

\* recall.rs:20: a stored change-set is "the edits that built+passed".
FixIsVerified == \A t \in Tasks : store[t] # None =>
  Written(store[t].found, store[t].edits, Len(store[t].edits)) \in Builds \cap Passes

\* Every run comes to an end, whatever the model answers: change-sets that
\* do not parse, do not apply or do not help (RunConfig.max_attempts).
EveryRunEnds == pc # "idle" ~> pc = "idle"
=============================================================================
