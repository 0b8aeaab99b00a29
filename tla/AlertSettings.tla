---------------------------- MODULE AlertSettings ----------------------------
(***************************************************************************)
(* Settings of backend/internal/alert/settings.go: Update under its write  *)
(* lock, with every file operation of persist a step that may fail, a      *)
(* crash of the process between any two of them, and LoadSettings at the   *)
(* next boot.  The override file may also be edited by hand.               *)
(***************************************************************************)
EXTENDS AlertOverrides

CONSTANTS Writers,       \* goroutines that call Update (PUT handlers)
          Patches,       \* patches they send
          None,          \* nobody holds the write lock
          Absent,        \* the file does not exist
          Corrupt,       \* content that is not JSON, or half written
          Edits,         \* what a hand edit may leave in the file
          MaxEdits,      \* bound: hand edits in one behaviour
          ReadErrors     \* whether ReadFile may fail on an existing file

\* Documents that set some fields.
Documents(fields) == [fields -> UNION {FieldValues[f] : f \in Fields}]

ASSUME SettingsAssumption ==
    /\ \A p \in Patches : IsOverride(p)
    /\ \A fields \in SUBSET Fields : /\ Absent \notin Documents(fields)
                                     /\ Corrupt \notin Documents(fields)
    /\ \A e \in Edits \ {Absent, Corrupt} : \A f \in DOMAIN e : f \in Fields /\ e[f] \in FieldValues[f]
    /\ None \notin Writers
    /\ MaxEdits \in Nat
    /\ ReadErrors \in BOOLEAN

VARIABLES up,         \* the process runs
          override,   \* Settings.override
          file,       \* the override file
          tmp,        \* its .tmp sibling
          holder,     \* who holds the write lock
          pc,         \* where each writer is
          patch,      \* the writer's patch
          reset,      \* the writer's reset flag
          merged,     \* the writer's merged override
          edits,      \* hand edits so far
          inSync      \* history variable: memory was loaded from, or written to,
                      \* the file as it is now

disk == <<file, tmp>>
request == <<pc, patch, reset, merged>>
vars == <<up, override, disk, holder, request, edits, inSync>>

-----------------------------------------------------------------------------
(* Data *)

\* What LoadSettings makes of the file: no override when it is missing, and
\* none (with an error that is only logged) when it is broken or invalid.
Readable(content) == content = Absent \/ (content # Corrupt /\ Validate(Decode(content)))

Load(content) ==
    IF content # Absent /\ Readable(content) THEN Decode(content) ELSE NoOverride

-----------------------------------------------------------------------------
(* Actions *)

Init == /\ up = TRUE
        /\ override = NoOverride
        /\ file = Absent
        /\ tmp = Absent
        /\ holder = None
        /\ pc = [w \in Writers |-> "idle"]
        /\ patch = [w \in Writers |-> NoOverride]
        /\ reset = [w \in Writers |-> FALSE]
        /\ merged = [w \in Writers |-> NoOverride]
        /\ edits = 0
        /\ inSync = TRUE

\* Update is called: an invalid patch is refused before the lock.
UpdateInvalid(w, p) ==
    /\ up /\ pc[w] = "idle"
    /\ ~Validate(p)
    /\ UNCHANGED vars

\* A valid one waits for the lock.
UpdateValid(w, p, r) ==
    /\ up /\ pc[w] = "idle"
    /\ Validate(p)
    /\ patch' = [patch EXCEPT ![w] = p]
    /\ reset' = [reset EXCEPT ![w] = r]
    /\ pc' = [pc EXCEPT ![w] = "lock"]
    /\ UNCHANGED <<up, override, disk, holder, merged, edits, inSync>>

\* Mutant: the lock is not taken.
UpdateNoLock(w) ==
    /\ pc[w] = "lock"
    /\ LET m == Merge(IF reset[w] THEN NoOverride ELSE override, patch[w])
       IN /\ merged' = [merged EXCEPT ![w] = m]
          /\ pc' = [pc EXCEPT ![w] = IF isEmpty(m) THEN "remove" ELSE "mkdir"]
    /\ UNCHANGED <<up, override, disk, holder, patch, reset, edits, inSync>>

\* Lock and merge; persist then removes the file of an empty override, or
\* writes the other ones.
UpdateLock(w) ==
    /\ pc[w] = "lock"
    /\ holder = None
    /\ holder' = w
    /\ LET m == Merge(IF reset[w] THEN NoOverride ELSE override, patch[w])
       IN /\ merged' = [merged EXCEPT ![w] = m]
          /\ pc' = [pc EXCEPT ![w] = IF isEmpty(m) THEN "remove" ELSE "mkdir"]
    /\ UNCHANGED <<up, override, disk, patch, reset, edits, inSync>>

\* Update returns: its locals are gone.
Return(w) ==
    /\ pc' = [pc EXCEPT ![w] = "idle"]
    /\ patch' = [patch EXCEPT ![w] = NoOverride]
    /\ reset' = [reset EXCEPT ![w] = FALSE]
    /\ merged' = [merged EXCEPT ![w] = NoOverride]

\* persist returned an error: the deferred unlock, memory and file as they were.
PersistFailed(w) ==
    /\ holder' = None
    /\ Return(w)
    /\ UNCHANGED <<up, override, file, edits, inSync>>

Proceed(w, next) ==
    /\ pc' = [pc EXCEPT ![w] = next]
    /\ UNCHANGED <<up, override, holder, patch, reset, merged, edits>>

\* os.Remove; a file that does not exist is no error.
Remove(w) ==
    /\ pc[w] = "remove"
    /\ UNCHANGED tmp
    /\ \/ file' = Absent /\ inSync' = TRUE /\ Proceed(w, "commit")
       \/ file # Absent /\ PersistFailed(w)

MkdirAll(w) ==
    /\ pc[w] = "mkdir"
    /\ UNCHANGED disk
    /\ \/ UNCHANGED inSync /\ Proceed(w, "write")
       \/ PersistFailed(w)

\* os.WriteFile of the .tmp file; a failure may leave it half written.
WriteTmp(w) ==
    /\ pc[w] = "write"
    /\ UNCHANGED file
    /\ \/ tmp' = Encode(merged[w]) /\ UNCHANGED inSync /\ Proceed(w, "rename")
       \/ tmp' \in {tmp, Corrupt} /\ PersistFailed(w)

\* Mutant: the file is rewritten in place, so a failure leaves half of it.
RenameInPlace(w) ==
    /\ pc[w] = "rename"
    /\ \/ file' = tmp /\ tmp' = Absent /\ inSync' = TRUE /\ Proceed(w, "commit")
       \/ /\ file' = Corrupt
          /\ holder' = None
          /\ Return(w)
          /\ UNCHANGED <<tmp, up, override, edits, inSync>>

\* os.Rename replaces the file as a whole or not at all.
Rename(w) ==
    /\ pc[w] = "rename"
    /\ \/ file' = tmp /\ tmp' = Absent /\ inSync' = TRUE /\ Proceed(w, "commit")
       \/ UNCHANGED tmp /\ PersistFailed(w)

\* Mutant: memory keeps the bare patch.
CommitPatchOnly(w) ==
    /\ pc[w] = "commit"
    /\ override' = patch[w]
    /\ holder' = None
    /\ Return(w)
    /\ UNCHANGED <<up, disk, edits, inSync>>

\* persist succeeded: memory follows, unlock, return nil.
Commit(w) ==
    /\ pc[w] = "commit"
    /\ override' = merged[w]
    /\ holder' = None
    /\ Return(w)
    /\ UNCHANGED <<up, disk, edits, inSync>>

\* The process dies between any two steps: memory, lock and requests are lost,
\* the disk stays.
Crash ==
    /\ up
    /\ up' = FALSE
    /\ override' = NoOverride
    /\ holder' = None
    /\ pc' = [w \in Writers |-> "idle"]
    /\ patch' = [w \in Writers |-> NoOverride]
    /\ reset' = [w \in Writers |-> FALSE]
    /\ merged' = [w \in Writers |-> NoOverride]
    /\ UNCHANGED <<disk, edits, inSync>>

\* LoadSettings; main.go only logs its error.
Boot ==
    /\ ~up
    /\ up' = TRUE
    /\ \/ override' = Load(file) /\ inSync' = Readable(file)
       \/ ReadErrors /\ file # Absent /\ override' = NoOverride /\ inSync' = FALSE
    /\ UNCHANGED <<disk, holder, request, edits>>

\* Somebody edits or replaces the file ("the file stays hand-editable").
EditFile ==
    /\ edits < MaxEdits
    /\ edits' = edits + 1
    /\ file' \in Edits
    /\ inSync' = FALSE
    /\ UNCHANGED <<up, override, tmp, holder, request>>

Step(w) == \/ UpdateLock(w) \/ Remove(w) \/ MkdirAll(w) \/ WriteTmp(w) \/ Rename(w)
           \/ Commit(w)

Next == \/ \E w \in Writers : \/ \E p \in Patches : UpdateInvalid(w, p)
                              \/ \E p \in Patches, r \in BOOLEAN : UpdateValid(w, p, r)
                              \/ Step(w)
        \/ Crash \/ Boot \/ EditFile

Spec == Init /\ [][Next]_vars

-----------------------------------------------------------------------------
(* Properties *)

\* Every variable has its type, and no invalid override gets into memory, from
\* a PUT or from a file (settings.go:136, 209).
TypeOK ==
    /\ up \in BOOLEAN
    /\ IsOverride(override) /\ Validate(override)
    /\ holder \in Writers \cup {None}
    /\ pc \in [Writers -> {"idle", "lock", "remove", "mkdir", "write", "rename", "commit"}]
    /\ patch = [w \in Writers |-> patch[w]] /\ \A w \in Writers : IsOverride(patch[w])
    /\ reset \in [Writers -> BOOLEAN]
    /\ merged = [w \in Writers |-> merged[w]] /\ \A w \in Writers : IsOverride(merged[w])
    /\ edits \in Nat
    /\ inSync \in BOOLEAN

\* The write lock (settings.go:213): only its holder is inside Update.
Exclusive == \A w \in Writers : pc[w] \notin {"idle", "lock"} => holder = w

\* The configuration in effect can always be applied: neither a PUT nor a file
\* with an unknown webhook format gets as far as applyAlertConfig, whose error
\* would end the boot (settings.go:116-119, main.go:118-120).
EffectiveApplies == ~ApplyFails(Effective(override))

\* Update and persist (settings.go:208-281): unless the file was edited by
\* hand or could not be loaded, a crash at any point is followed by a boot with
\* the acknowledged override, or with the one Update had just put on disk; and
\* whatever was loaded can be applied, edits by hand included.
Recoverable ==
    /\ (up /\ inSync) =>
          \/ Load(file) = override
          \/ \E w \in Writers : pc[w] = "commit" /\ Load(file) = merged[w]
    /\ EffectiveApplies

\* No lost update (settings.go:213-251): a step that changes the override of a
\* running server is the end of an Update, and a field that this Update neither
\* patches nor resets keeps its value, whoever else is updating.
PatchStep ==
    (up /\ up' /\ override' # override) =>
       \E w \in Writers :
          /\ pc[w] = "commit"
          /\ \A f \in Fields :
                override'[f] = IF patch[w][f] # Nil THEN patch[w][f]
                               ELSE IF reset[w] THEN Nil ELSE override[f]
NoLostUpdate == [][PatchStep]_vars

\* Settings is a durable register: seen through what a boot would load, the
\* steps of persist are one atomic Save (DurableOverride).  A failed write may
\* leave the .tmp file behind (settings.go:274), which no boot looks at.
Durable == INSTANCE DurableOverride WITH stored <- Load(file), served <- override,
                                   inSync <- inSync

\* The detailed specification implements the durable register (settings.go:205-208,
\* "persists the result atomically").
ImplementsDurable == Durable!Spec
=============================================================================
