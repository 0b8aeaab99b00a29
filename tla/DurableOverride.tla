-------------------------- MODULE DurableOverride --------------------------
(***************************************************************************)
(* What alert.Settings promises: an override that is stored as a whole,    *)
(* served once it is stored, changed by one patch at a time, and found     *)
(* again after a crash.  Nothing is promised of a step from or to a state  *)
(* in which the file is not the process's own: somebody edited it, or it   *)
(* could not be loaded.                                                    *)
(***************************************************************************)
EXTENDS AlertOverrides

CONSTANT Patches      \* patches that are sent

VARIABLES up,         \* the process runs
          stored,     \* what a boot finds
          served,     \* what the running process uses
          inSync      \* what is stored was loaded or written by the process

Init == /\ up = TRUE
        /\ stored = NoOverride
        /\ served = NoOverride
        /\ inSync = TRUE

\* A valid patch is stored on top of what is served, or of nothing (reset).
Save == /\ up
        /\ served = stored
        /\ \E p \in Patches, base \in {served, NoOverride} :
              Validate(p) /\ stored' = Merge(base, p)
        /\ UNCHANGED <<up, served>>

Publish == /\ up
           /\ served' = stored
           /\ UNCHANGED <<up, stored>>

Crash == /\ up
         /\ up' = FALSE
         /\ served' = NoOverride
         /\ UNCHANGED stored

Boot == /\ ~up
        /\ up' = TRUE
        /\ served' = stored
        /\ UNCHANGED stored

Next == inSync /\ inSync' => Save \/ Publish \/ Crash \/ Boot

Spec == Init /\ [][Next]_<<up, stored, served, inSync>>
=============================================================================
