-------------------------- MODULE DurableVersions --------------------------
(***************************************************************************)
(* VersionStore kept in a file (docs/said-structure 36, "crash-safe"): the *)
(* live store and the one last saved.  A save makes the live versions the  *)
(* saved ones, all at once; a crash makes the saved ones live again; no    *)
(* other step touches what is saved.                                       *)
(***************************************************************************)
EXTENDS VersionStore

VARIABLES savedHead, savedPast, savedHeld, savedKnown

saved == <<savedHead, savedPast, savedHeld, savedKnown>>
durableVars == <<vars, saved>>

DurableInit == Init /\ saved = vars

Change == Next /\ UNCHANGED saved
Save == saved' = vars /\ UNCHANGED vars
Crash == vars' = saved /\ UNCHANGED saved

DurableNext == Change \/ Save \/ Crash
DurableSpec == DurableInit /\ [][DurableNext]_durableVars
=============================================================================
