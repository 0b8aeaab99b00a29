-------------------------- MODULE AlertSettingsProofs --------------------------
(***************************************************************************)
(* The override survives crashes, for any fields' values, patches, hand    *)
(* edits and number of PUT handlers, and the settings are a durable        *)
(* register.  Only the holder of the write lock is inside Update, so what  *)
(* it merged still has the override below it when it commits; the override *)
(* file is replaced as a whole, and what was written is what is read back. *)
(***************************************************************************)
EXTENDS AlertSettings, TLAPS

-----------------------------------------------------------------------------
(* Overrides and their documents *)

LEMMA NoOverrideFacts ==
    IsOverride(NoOverride) /\ Validate(NoOverride) /\ NoOverride = [f \in Fields |-> Nil]
  BY DEF NoOverride, IsOverride, Validate, Fields

\* A merge sets what either of its parts sets, so it is valid when both are.
LEMMA MergeFacts ==
    ASSUME NEW base, NEW p, IsOverride(base), IsOverride(p)
    PROVE  /\ IsOverride(Merge(base, p))
           /\ Validate(base) /\ Validate(p) => Validate(Merge(base, p))
<1> DEFINE m == Merge(base, p)
<1>1. m = [f \in Fields |-> m[f]] /\ \A f \in Fields : m[f] = IF p[f] # Nil THEN p[f] ELSE base[f]
  BY DEF Merge
<1>2. IsOverride(m)
  BY <1>1 DEF IsOverride
<1>3. ASSUME Validate(base), Validate(p) PROVE Validate(m)
  BY <1>1, <1>3 DEF Validate, Fields
<1> QED
  BY <1>2, <1>3

\* What a file may hold: nothing, something broken, or a document.
IsContent(c) == \/ c \in {Absent, Corrupt}
                \/ \A f \in DOMAIN c : f \in Fields /\ c[f] \in FieldValues[f]

\* What is written is what is read back.
LEMMA EncodeDecode ==
    ASSUME NEW o, IsOverride(o)
    PROVE  /\ Encode(o) \notin {Absent, Corrupt}
           /\ Decode(Encode(o)) = o
           /\ IsContent(Encode(o))
           /\ Validate(o) => Load(Encode(o)) = o
<1> DEFINE fields == {g \in Fields : o[g] # Nil}
<1>1. o = [f \in Fields |-> o[f]] /\ \A f \in Fields : o[f] \in FieldValues[f] \cup {Nil}
  BY DEF IsOverride
<1>2. /\ Encode(o) = [f \in fields |-> o[f]] /\ DOMAIN Encode(o) = fields
      /\ \A f \in fields : Encode(o)[f] = o[f]
  BY DEF Encode
<1>3. Encode(o) \in Documents(fields)
  BY <1>1, <1>2 DEF Documents
<1>4. Encode(o) \notin {Absent, Corrupt}
  BY <1>3, SettingsAssumption
<1>5. Decode(Encode(o)) = o
  <2>1. \A f \in Fields : (IF f \in DOMAIN Encode(o) THEN Encode(o)[f] ELSE Nil) = o[f]
    BY <1>2
  <2> QED
    BY <1>1, <2>1 DEF Decode
<1>6. IsContent(Encode(o))
  BY <1>1, <1>2 DEF IsContent
<1>7. Validate(o) => Load(Encode(o)) = o
  BY <1>4, <1>5 DEF Load, Readable
<1> QED
  BY <1>4, <1>5, <1>6, <1>7

\* What is loaded is a valid override, whatever the file holds.
LEMMA LoadFacts ==
    ASSUME NEW c, IsContent(c)
    PROVE  IsOverride(Load(c)) /\ Validate(Load(c))
<1>1. CASE c # Absent /\ Readable(c)
  <2>1. Load(c) = Decode(c) /\ Validate(Decode(c)) /\ c # Corrupt
    BY <1>1 DEF Load, Readable
  <2>2. IsOverride(Decode(c))
    BY <1>1, <2>1 DEF IsContent, Decode, IsOverride
  <2> QED
    BY <2>1, <2>2
<1>2. CASE ~(c # Absent /\ Readable(c))
  BY <1>2, NoOverrideFacts DEF Load
<1> QED
  BY <1>1, <1>2

-----------------------------------------------------------------------------
(* The invariant *)

Places == {"idle", "lock", "remove", "mkdir", "write", "rename", "commit"}

Inside(w) == pc[w] \notin {"idle", "lock"}

\* What w has merged is its patch on top of the override, or of nothing.
Merged(w) == merged[w] = Merge(IF reset[w] THEN NoOverride ELSE override, patch[w])

\* Every value is an override and those in force are valid.
Values == /\ up \in BOOLEAN /\ inSync \in BOOLEAN
          /\ IsOverride(override) /\ Validate(override)
          /\ pc \in [Writers -> Places]
          /\ reset \in [Writers -> BOOLEAN]
          /\ DOMAIN patch = Writers /\ DOMAIN merged = Writers
          /\ \A w \in Writers : pc[w] # "idle" => up /\ patch[w] \in Patches /\ Validate(patch[w])
          /\ IsContent(file)

\* The writer inside Update holds the lock, and what it has done is on disk.
Update(w) == Inside(w) =>
                /\ up /\ holder = w /\ Merged(w)
                /\ pc[w] = "remove" => isEmpty(merged[w])
                /\ pc[w] = "rename" => tmp = Encode(merged[w])
                /\ pc[w] = "commit" /\ inSync => Load(file) = merged[w]

SettingsInv == /\ Values
               /\ \A w \in Writers : Update(w)
               /\ up /\ inSync /\ (\A w \in Writers : pc[w] # "commit") => Load(file) = override

LEMMA SettingsStart == Init => SettingsInv
<1> SUFFICES ASSUME Init PROVE SettingsInv
  OBVIOUS
<1>1. IsContent(file) /\ Load(file) = NoOverride
  BY DEF Init, IsContent, Load
<1> QED
  BY <1>1, NoOverrideFacts DEF Init, SettingsInv, Values, Update, Inside, Places

\* What a writer inside Update has merged is a valid override.
LEMMA MergedFacts ==
    ASSUME SettingsInv, NEW w \in Writers, Inside(w)
    PROVE  /\ IsOverride(merged[w]) /\ Validate(merged[w]) /\ Merged(w)
           /\ patch[w] \in Patches /\ Validate(patch[w])
           /\ up /\ holder = w /\ holder # None
           /\ \A v \in Writers \ {w} : ~Inside(v)
<1>1. /\ patch[w] \in Patches /\ Validate(patch[w]) /\ IsOverride(patch[w])
      /\ IsOverride(override) /\ Validate(override)
  BY SettingsAssumption DEF SettingsInv, Values, Inside
<1>2. Merged(w) /\ up /\ holder = w /\ \A v \in Writers \ {w} : ~Inside(v)
  BY DEF SettingsInv, Update
<1>3. IsOverride(merged[w]) /\ Validate(merged[w])
  BY <1>1, <1>2, MergeFacts, NoOverrideFacts DEF Merged
<1> QED
  BY <1>1, <1>2, <1>3, SettingsAssumption

-----------------------------------------------------------------------------
(* Steps *)

\* What a boot would load, of the next state.
LEMMA LoadNext == Load(file)' = Load(file')
  BY DEF Load, Readable, Decode, Validate, NoOverride

\* Values, of the next state.
LEMMA ValuesNext ==
    ASSUME up' \in BOOLEAN, inSync' \in BOOLEAN, IsOverride(override'), Validate(override'),
           pc' \in [Writers -> Places], reset' \in [Writers -> BOOLEAN],
           DOMAIN patch' = Writers, DOMAIN merged' = Writers,
           \A v \in Writers :
              pc'[v] # "idle" => up' /\ patch'[v] \in Patches /\ Validate(patch'[v]),
           IsContent(file')
    PROVE  Values'
<1>1. (IsOverride(override) /\ Validate(override))'
  BY DEF IsOverride, Validate
<1>2. (\A v \in Writers : pc[v] # "idle" => up /\ patch[v] \in Patches /\ Validate(patch[v]))'
  BY DEF Validate
<1>3. IsContent(file)'
  BY DEF IsContent
<1> QED
  BY <1>1, <1>2, <1>3 DEF Values

\* A writer moves on inside Update, or out of it, and only its own state, the lock
\* and the disk change.
LEMMA WriterMoves ==
    ASSUME SettingsInv, NEW w \in Writers, Inside(w),
           UNCHANGED <<up, override>>,
           inSync' \in BOOLEAN, IsContent(file)', DOMAIN merged' = Writers,
           NEW next \in Places, pc' = [pc EXCEPT ![w] = next],
           DOMAIN patch' = Writers, reset' \in [Writers -> BOOLEAN],
           \A v \in Writers \ {w} : patch'[v] = patch[v] /\ reset'[v] = reset[v] /\ merged'[v] = merged[v],
           next # "lock",
           next # "idle" => /\ holder' = holder
                            /\ patch'[w] = patch[w] /\ reset'[w] = reset[w] /\ merged'[w] = merged[w]
                            /\ next # "remove"
                            /\ next = "rename" => tmp' = Encode(merged[w])
                            /\ next = "commit" => Load(file') = merged[w],
           next # "commit" => pc[w] # "commit" /\ UNCHANGED <<file, inSync>>
    PROVE  SettingsInv'
<1>1. /\ pc' \in [Writers -> Places] /\ pc'[w] = next /\ \A v \in Writers \ {w} : pc'[v] = pc[v]
      /\ \A v \in Writers \ {w} : ~Inside(v)
  BY MergedFacts DEF SettingsInv, Values
<1>2. Values'
  <2>1. \A v \in Writers : pc'[v] # "idle" => up' /\ patch'[v] \in Patches /\ Validate(patch'[v])
    BY <1>1, MergedFacts DEF SettingsInv, Values
  <2>2. IsContent(file')
    BY DEF IsContent
  <2> QED
    BY <1>1, <2>1, <2>2, ValuesNext DEF SettingsInv, Values
<1>3. ASSUME NEW v \in Writers PROVE Update(v)'
  <2>1. CASE v # w
    BY <1>1, <2>1 DEF Update, Inside
  <2>2. CASE v = w /\ next # "idle"
    <3>1. Merged(w) /\ up /\ holder = w
      BY MergedFacts
    <3>2. up' /\ holder' = w /\ Merged(w)'
      BY <2>2, <3>1 DEF Merged
    <3>3. pc'[w] = next /\ next # "remove"
      BY <1>1, <2>2
    <3>4. next = "rename" => tmp' = Encode(merged'[w])
      BY <2>2
    <3>5. next = "commit" => Load(file') = merged'[w]
      BY <2>2
    <3> QED
      BY <2>2, <3>2, <3>3, <3>4, <3>5 DEF Update
  <2>3. CASE v = w /\ next = "idle"
    BY <1>1, <2>3 DEF Update, Inside
  <2> QED
    BY <2>1, <2>2, <2>3
<1>4. ASSUME up', inSync', \A v \in Writers : pc'[v] # "commit" PROVE Load(file') = override'
  <2>1. next # "commit"
    BY <1>1, <1>4
  <2>2. \A v \in Writers : pc[v] # "commit"
    BY <1>1, <2>1 DEF Inside
  <2> QED
    BY <1>4, <2>1, <2>2 DEF SettingsInv
<1>5. (up /\ inSync /\ (\A v \in Writers : pc[v] # "commit") => Load(file) = override)'
  BY <1>4, LoadNext
<1> QED
  BY <1>2, <1>3, <1>5 DEF SettingsInv

\* A step of persist fails: nothing but the lock and the .tmp file has changed.
LEMMA FailedStep ==
    ASSUME SettingsInv, NEW w \in Writers, Inside(w), pc[w] # "commit", PersistFailed(w)
    PROVE  SettingsInv'
<1>1. /\ pc' = [pc EXCEPT ![w] = "idle"] /\ patch' = [patch EXCEPT ![w] = NoOverride]
      /\ reset' = [reset EXCEPT ![w] = FALSE] /\ merged' = [merged EXCEPT ![w] = NoOverride]
      /\ UNCHANGED <<up, override, file, inSync>>
  BY DEF PersistFailed, Return
<1>2. inSync' \in BOOLEAN /\ IsContent(file)'
  BY <1>1 DEF SettingsInv, Values, IsContent
<1>3. /\ DOMAIN merged' = Writers /\ DOMAIN patch' = Writers /\ reset' \in [Writers -> BOOLEAN]
      /\ \A v \in Writers \ {w} :
            patch'[v] = patch[v] /\ reset'[v] = reset[v] /\ merged'[v] = merged[v]
  BY <1>1 DEF SettingsInv, Values
<1>4. "idle" \in Places
  BY DEF Places
<1> QED
  BY <1>1, <1>2, <1>3, <1>4, WriterMoves

\* A step of persist succeeds.
LEMMA ProceedStep ==
    ASSUME SettingsInv, NEW w \in Writers, Inside(w), NEW next \in {"write", "rename", "commit"},
           Proceed(w, next), inSync' \in BOOLEAN, IsContent(file)',
           next = "rename" => tmp' = Encode(merged[w]),
           next = "commit" => Load(file') = merged[w],
           next # "commit" => pc[w] # "commit" /\ UNCHANGED <<file, inSync>>
    PROVE  SettingsInv'
<1>1. /\ pc' = [pc EXCEPT ![w] = next]
      /\ UNCHANGED <<up, override, holder, patch, reset, merged>>
  BY DEF Proceed
<1>2. next \in Places /\ next \notin {"idle", "lock", "remove"}
  BY DEF Places
<1>3. /\ DOMAIN merged' = Writers /\ DOMAIN patch' = Writers /\ reset' \in [Writers -> BOOLEAN]
  BY <1>1 DEF SettingsInv, Values
<1> QED
  BY <1>1, <1>2, <1>3, WriterMoves

\* What Remove and Rename put in place is what was merged.
LEMMA SavedFacts ==
    ASSUME SettingsInv, NEW w \in Writers,
           \/ pc[w] = "remove" /\ file' = Absent
           \/ pc[w] = "rename" /\ file' = tmp
    PROVE  Load(file') = merged[w] /\ IsContent(file')
<1>1. Inside(w)
  BY DEF Inside
<1>2. IsOverride(merged[w]) /\ Validate(merged[w])
  BY <1>1, MergedFacts
<1>3. CASE pc[w] = "remove" /\ file' = Absent
  <2>1. isEmpty(merged[w])
    BY <1>1, <1>3 DEF SettingsInv, Update
  <2>2. merged[w] = NoOverride
    BY <1>2, <2>1 DEF isEmpty, IsOverride, NoOverride
  <2> QED
    BY <1>3, <2>2 DEF Load, IsContent
<1>4. CASE pc[w] = "rename" /\ file' = tmp
  <2>1. file' = Encode(merged[w])
    BY <1>1, <1>4 DEF SettingsInv, Update
  <2> QED
    BY <1>2, <2>1, EncodeDecode
<1> QED
  BY <1>3, <1>4

LEMMA PersistStep ==
    ASSUME SettingsInv, NEW w \in Writers, Remove(w) \/ MkdirAll(w) \/ WriteTmp(w) \/ Rename(w)
    PROVE  SettingsInv'
<1>1. Inside(w) /\ pc[w] # "commit"
  BY DEF Remove, MkdirAll, WriteTmp, Rename, Inside
<1>2. CASE PersistFailed(w)
  BY <1>1, <1>2, FailedStep
<1>3. inSync \in BOOLEAN /\ IsContent(file)
  BY DEF SettingsInv, Values
<1>4. CASE Remove(w) /\ ~PersistFailed(w)
  <2>1. pc[w] = "remove" /\ file' = Absent /\ inSync' = TRUE /\ Proceed(w, "commit")
    BY <1>4 DEF Remove
  <2>2. Load(file') = merged[w] /\ IsContent(file')
    BY <2>1, SavedFacts
  <2>3. IsContent(file)'
    BY <2>2 DEF IsContent
  <2> QED
    BY <1>1, <2>1, <2>2, <2>3, ProceedStep
<1>5. CASE MkdirAll(w) /\ ~PersistFailed(w)
  <2>1. UNCHANGED <<file, inSync>> /\ Proceed(w, "write")
    BY <1>5 DEF MkdirAll, disk
  <2>2. inSync' \in BOOLEAN /\ IsContent(file)'
    BY <1>3, <2>1 DEF IsContent
  <2> QED
    BY <1>1, <2>1, <2>2, ProceedStep
<1>6. CASE WriteTmp(w) /\ ~PersistFailed(w)
  <2>1. tmp' = Encode(merged[w]) /\ UNCHANGED <<file, inSync>> /\ Proceed(w, "rename")
    BY <1>6 DEF WriteTmp
  <2>2. inSync' \in BOOLEAN /\ IsContent(file)'
    BY <1>3, <2>1 DEF IsContent
  <2> QED
    BY <1>1, <2>1, <2>2, ProceedStep
<1>7. CASE Rename(w) /\ ~PersistFailed(w)
  <2>1. pc[w] = "rename" /\ file' = tmp /\ inSync' = TRUE /\ Proceed(w, "commit")
    BY <1>7 DEF Rename
  <2>2. Load(file') = merged[w] /\ IsContent(file')
    BY <2>1, SavedFacts
  <2>3. IsContent(file)'
    BY <2>2 DEF IsContent
  <2> QED
    BY <1>1, <2>1, <2>2, <2>3, ProceedStep
<1> QED
  BY <1>2, <1>4, <1>5, <1>6, <1>7

\* Memory follows the disk, and the lock is released.
LEMMA CommitStep ==
    ASSUME SettingsInv, NEW w \in Writers, Commit(w)
    PROVE  SettingsInv'
<1>1. pc[w] = "commit" /\ Inside(w)
  BY DEF Commit, Inside
<1>2. /\ override' = merged[w] /\ UNCHANGED <<up, file, inSync>>
      /\ pc' = [pc EXCEPT ![w] = "idle"] /\ patch' = [patch EXCEPT ![w] = NoOverride]
      /\ reset' = [reset EXCEPT ![w] = FALSE] /\ merged' = [merged EXCEPT ![w] = NoOverride]
  BY DEF Commit, Return, disk
<1>3. /\ IsOverride(merged[w]) /\ Validate(merged[w])
      /\ \A v \in Writers \ {w} : ~Inside(v)
  BY <1>1, MergedFacts
<1>4. /\ pc' \in [Writers -> Places] /\ pc'[w] = "idle"
      /\ \A v \in Writers \ {w} : pc'[v] = pc[v] /\ patch'[v] = patch[v]
  BY <1>2 DEF SettingsInv, Values, Places
<1>5. \A v \in Writers : ~(Inside(v)')
  BY <1>3, <1>4 DEF Inside
<1>6. Values'
  <2>0. \A v \in Writers : pc'[v] # "idle" => up' /\ patch'[v] \in Patches /\ Validate(patch'[v])
    BY <1>2, <1>4 DEF SettingsInv, Values
  <2>1. up \in BOOLEAN /\ inSync \in BOOLEAN /\ DOMAIN patch = Writers /\ DOMAIN merged = Writers
        /\ reset \in [Writers -> BOOLEAN] /\ IsContent(file)
    BY DEF SettingsInv, Values
  <2> QED
    BY <1>2, <1>3, <1>4, <2>0, <2>1, ValuesNext
<1>7. inSync => Load(file) = merged[w]
  BY <1>1 DEF SettingsInv, Update
<1>8. (up /\ inSync /\ (\A v \in Writers : pc[v] # "commit") => Load(file) = override)'
  BY <1>2, <1>7, LoadNext
<1> QED
  BY <1>5, <1>6, <1>8 DEF SettingsInv, Update

\* The lock is taken: nobody else is inside.
LEMMA LockStep ==
    ASSUME SettingsInv, NEW w \in Writers, UpdateLock(w)
    PROVE  SettingsInv'
<1> DEFINE m == Merge(IF reset[w] THEN NoOverride ELSE override, patch[w])
<1> DEFINE next == IF isEmpty(m) THEN "remove" ELSE "mkdir"
<1>1. /\ pc[w] = "lock" /\ holder = None /\ holder' = w
      /\ merged' = [merged EXCEPT ![w] = m] /\ pc' = [pc EXCEPT ![w] = next]
      /\ UNCHANGED <<up, override, file, tmp, patch, reset, inSync>>
  BY DEF UpdateLock, disk
<1>2. \A v \in Writers : ~Inside(v)
  BY <1>1, SettingsAssumption DEF SettingsInv, Update
<1>3. /\ pc' \in [Writers -> Places] /\ pc'[w] = next /\ \A v \in Writers \ {w} : pc'[v] = pc[v]
      /\ merged'[w] = m /\ DOMAIN merged' = Writers
  BY <1>1 DEF SettingsInv, Values, Places
<1>4. up
  BY <1>1 DEF SettingsInv, Values
<1>5. Values'
  <2>1. Values
    BY DEF SettingsInv
  <2>2. \A v \in Writers : pc'[v] # "idle" => up' /\ patch'[v] \in Patches /\ Validate(patch'[v])
    BY <1>1, <1>3, <2>1 DEF Values
  <2> QED
    BY <1>1, <1>3, <2>1, <2>2, ValuesNext DEF Values
<1>6. ASSUME NEW v \in Writers PROVE Update(v)'
  <2>1. CASE v = w
    <3>1. Merged(w)'
      BY <1>1, <1>3 DEF Merged
    <3>2. next = "remove" => isEmpty(merged'[w])
      BY <1>3
    <3>3. (isEmpty(merged[w]))' <=> isEmpty(merged'[w])
      BY DEF isEmpty
    <3>4. pc'[w] = next /\ next \in {"remove", "mkdir"}
      BY <1>3
    <3> HIDE DEF m, next
    <3> QED
      BY <1>1, <1>4, <2>1, <3>1, <3>2, <3>3, <3>4 DEF Update
  <2>2. CASE v # w
    BY <1>2, <1>3, <2>2 DEF Update, Inside
  <2> QED
    BY <2>1, <2>2
<1>7. (up /\ inSync /\ (\A v \in Writers : pc[v] # "commit") => Load(file) = override)'
  <2>1. \A v \in Writers : pc[v] # "commit"
    BY <1>2 DEF Inside
  <2> QED
    BY <1>1, <2>1, LoadNext DEF SettingsInv
<1> QED
  BY <1>5, <1>6, <1>7 DEF SettingsInv

\* A valid patch waits for the lock.
LEMMA CallStep ==
    ASSUME SettingsInv, NEW w \in Writers, NEW p \in Patches, NEW r \in BOOLEAN, UpdateValid(w, p, r)
    PROVE  SettingsInv'
<1>1. /\ up /\ pc[w] = "idle" /\ Validate(p)
      /\ patch' = [patch EXCEPT ![w] = p] /\ reset' = [reset EXCEPT ![w] = r]
      /\ pc' = [pc EXCEPT ![w] = "lock"]
      /\ UNCHANGED <<up, override, file, tmp, holder, merged, inSync>>
  BY DEF UpdateValid, disk
<1>2. /\ pc' \in [Writers -> Places] /\ pc'[w] = "lock" /\ patch'[w] = p /\ DOMAIN patch' = Writers
      /\ reset' \in [Writers -> BOOLEAN]
      /\ \A v \in Writers \ {w} : pc'[v] = pc[v] /\ patch'[v] = patch[v] /\ reset'[v] = reset[v]
  BY <1>1 DEF SettingsInv, Values, Places
<1>3. Values'
  <2>0. \A v \in Writers : pc'[v] # "idle" => up' /\ patch'[v] \in Patches /\ Validate(patch'[v])
    BY <1>1, <1>2 DEF SettingsInv, Values
  <2> QED
    BY <1>1, <1>2, <2>0, ValuesNext DEF SettingsInv, Values
<1>4. ASSUME NEW v \in Writers PROVE Update(v)'
  <2>1. CASE v = w
    BY <1>2, <2>1 DEF Update, Inside
  <2>2. CASE v # w
    <3>1. Update(v) /\ pc'[v] = pc[v] /\ patch'[v] = patch[v] /\ reset'[v] = reset[v]
      BY <1>2, <2>2 DEF SettingsInv
    <3>2. Merged(v)' <=> Merged(v)
      BY <1>1, <3>1 DEF Merged
    <3>3. /\ isEmpty(merged[v])' <=> isEmpty(merged[v])
          /\ (tmp = Encode(merged[v]))' <=> tmp = Encode(merged[v])
          /\ (Load(file) = merged[v])' <=> Load(file) = merged[v]
      <4>1. file' = file /\ merged' = merged /\ tmp' = tmp
        BY <1>1
      <4>2. isEmpty(merged[v])' <=> isEmpty(merged[v])
        BY <4>1 DEF isEmpty
      <4>3. (tmp = Encode(merged[v]))' <=> tmp = Encode(merged[v])
        BY <4>1 DEF Encode
      <4>4. Load(file)' = Load(file)
        BY <4>1, LoadNext
      <4> QED
        BY <4>1, <4>2, <4>3, <4>4
    <3> QED
      BY <1>1, <3>1, <3>2, <3>3 DEF Update, Inside
  <2> QED
    BY <2>1, <2>2
<1>5. (up /\ inSync /\ (\A v \in Writers : pc[v] # "commit") => Load(file) = override)'
  <2>1. (\A v \in Writers : pc'[v] # "commit") => \A v \in Writers : pc[v] # "commit"
    BY <1>1, <1>2
  <2> QED
    BY <1>1, <2>1, LoadNext DEF SettingsInv
<1> QED
  BY <1>3, <1>4, <1>5 DEF SettingsInv

LEMMA SettingsStep == SettingsInv /\ [Next]_vars => SettingsInv'
<1> SUFFICES ASSUME SettingsInv, [Next]_vars PROVE SettingsInv'
  OBVIOUS
<1>1. ASSUME UNCHANGED vars PROVE SettingsInv'
  <2>1. UNCHANGED <<up, override, file, tmp, holder, pc, patch, reset, merged, inSync>>
    BY <1>1 DEF vars, disk, request
  <2>3. Values'
    BY <2>1, ValuesNext DEF SettingsInv, Values
  <2>4. ASSUME NEW v \in Writers PROVE Update(v)'
    BY <2>1 DEF SettingsInv, Update, Inside, Merged
  <2> QED
    BY <2>1, <2>3, <2>4 DEF SettingsInv
<1>2. ASSUME NEW w \in Writers, NEW p \in Patches, UpdateInvalid(w, p) PROVE SettingsInv'
  BY <1>1, <1>2 DEF UpdateInvalid
<1>3. ASSUME NEW w \in Writers, NEW p \in Patches, NEW r \in BOOLEAN, UpdateValid(w, p, r)
      PROVE  SettingsInv'
  BY <1>3, CallStep
<1>4. ASSUME NEW w \in Writers, Step(w) PROVE SettingsInv'
  BY <1>4, LockStep, PersistStep, CommitStep DEF Step
<1>5. CASE Crash
  <2>1. /\ up' = FALSE /\ override' = NoOverride /\ pc' = [w \in Writers |-> "idle"]
        /\ patch' = [w \in Writers |-> NoOverride] /\ reset' = [w \in Writers |-> FALSE]
        /\ merged' = [w \in Writers |-> NoOverride] /\ UNCHANGED <<file, inSync>>
    BY <1>5 DEF Crash, disk
  <2>2. IsOverride(override') /\ Validate(override')
    BY <2>1, NoOverrideFacts
  <2>3. Values'
    BY <2>1, <2>2, ValuesNext DEF SettingsInv, Values, Places
  <2> QED
    BY <2>1, <2>3 DEF SettingsInv, Update, Inside
<1>6. CASE Boot
  <2>1. /\ ~up /\ up' = TRUE /\ UNCHANGED <<file, tmp, holder, pc, patch, reset, merged>>
        /\ \/ override' = Load(file)
           \/ override' = NoOverride /\ inSync' = FALSE
        /\ inSync' \in BOOLEAN
    BY <1>6 DEF Boot, disk, request, Readable
  <2>2. \A w \in Writers : pc[w] = "idle"
    BY <2>1 DEF SettingsInv, Values
  <2>3. IsOverride(override') /\ Validate(override')
    BY <2>1, LoadFacts, NoOverrideFacts DEF SettingsInv, Values
  <2>4. Values'
    BY <2>1, <2>2, <2>3, ValuesNext DEF SettingsInv, Values
  <2>5. (up /\ inSync /\ (\A w \in Writers : pc[w] # "commit") => Load(file) = override)'
    BY <2>1, LoadNext
  <2> QED
    BY <2>1, <2>2, <2>4, <2>5 DEF SettingsInv, Update, Inside
<1>7. CASE EditFile
  <2>1. /\ file' \in Edits /\ inSync' = FALSE
        /\ UNCHANGED <<up, override, tmp, holder, pc, patch, reset, merged>>
    BY <1>7 DEF EditFile, request
  <2>2. IsContent(file')
    BY <2>1, SettingsAssumption DEF IsContent
  <2>4. Values'
    BY <2>1, <2>2, ValuesNext DEF SettingsInv, Values
  <2>5. ASSUME NEW v \in Writers PROVE Update(v)'
    <3>1. Merged(v)' <=> Merged(v)
      BY <2>1 DEF Merged
    <3>2. /\ isEmpty(merged[v])' <=> isEmpty(merged[v])
          /\ (tmp = Encode(merged[v]))' <=> tmp = Encode(merged[v])
      BY <2>1 DEF isEmpty, Encode
    <3> QED
      BY <2>1, <3>1, <3>2 DEF SettingsInv, Update, Inside
  <2> QED
    BY <2>1, <2>4, <2>5 DEF SettingsInv
<1> QED
  BY <1>1, <1>2, <1>3, <1>4, <1>5, <1>6, <1>7 DEF Next

-----------------------------------------------------------------------------
(* What the invariant means *)

LEMMA InvRecoverable == SettingsInv => Recoverable
<1> SUFFICES ASSUME SettingsInv PROVE Recoverable
  OBVIOUS
<1>1. EffectiveApplies
  <2>1. override["webhookFormat"] # Nil => override["webhookFormat"] \in Formats
    BY DEF SettingsInv, Values, Validate
  <2>2. Effective(override)["webhookFormat"] \in Formats
    BY <2>1, OverridesAssumption DEF Effective, Fields
  <2> QED
    BY <2>2 DEF EffectiveApplies, ApplyFails, WebhookError
<1>2. ASSUME up, inSync
      PROVE  \/ Load(file) = override
             \/ \E w \in Writers : pc[w] = "commit" /\ Load(file) = merged[w]
  <2>1. ASSUME NEW w \in Writers, pc[w] = "commit" PROVE Load(file) = merged[w]
    BY <1>2, <2>1 DEF SettingsInv, Update, Inside
  <2> QED
    BY <1>2, <2>1 DEF SettingsInv
<1> QED
  BY <1>1, <1>2 DEF Recoverable

\* Who changes the override of a running server.
LEMMA OverrideChanges ==
    ASSUME SettingsInv, [Next]_vars, up, up', override' # override
    PROVE  \E w \in Writers : Commit(w)
<1>1. CASE Crash \/ Boot \/ EditFile \/ UNCHANGED vars
  BY <1>1 DEF Crash, Boot, EditFile, vars
<1>2. ASSUME NEW w \in Writers, NEW p \in Patches, NEW r \in BOOLEAN,
             UpdateInvalid(w, p) \/ UpdateValid(w, p, r)
      PROVE  FALSE
  BY <1>2 DEF UpdateInvalid, UpdateValid, vars
<1>3. ASSUME NEW w \in Writers, Step(w), ~Commit(w) PROVE FALSE
  BY <1>3 DEF Step, UpdateLock, Remove, MkdirAll, WriteTmp, Rename, Proceed, PersistFailed
<1> QED
  BY <1>1, <1>2, <1>3 DEF Next

LEMMA StepNoLostUpdate == SettingsInv /\ [Next]_vars => PatchStep
<1> SUFFICES ASSUME SettingsInv, [Next]_vars, up, up', override' # override
             PROVE  \E w \in Writers :
                      /\ pc[w] = "commit"
                      /\ \A f \in Fields :
                            override'[f] = IF patch[w][f] # Nil THEN patch[w][f]
                                           ELSE IF reset[w] THEN Nil ELSE override[f]
  BY DEF PatchStep
<1>1. PICK w \in Writers : Commit(w)
  BY OverrideChanges
<1>2. pc[w] = "commit" /\ override' = merged[w]
  BY <1>1 DEF Commit
<1>3. merged[w] = Merge(IF reset[w] THEN NoOverride ELSE override, patch[w])
  BY <1>2 DEF SettingsInv, Update, Inside, Merged
<1>4. ASSUME NEW f \in Fields
      PROVE  override'[f] = IF patch[w][f] # Nil THEN patch[w][f]
                            ELSE IF reset[w] THEN Nil ELSE override[f]
  BY <1>2, <1>3 DEF Merge, NoOverride
<1> QED
  BY <1>2, <1>4

-----------------------------------------------------------------------------
(* The durable register *)

\* The register is about the same overrides.
LEMMA SameData ==
    /\ Durable!NoOverride = NoOverride
    /\ \A base, p : Durable!Merge(base, p) = Merge(base, p)
    /\ \A o : Durable!Validate(o) <=> Validate(o)
  BY DEF Durable!NoOverride, NoOverride, Durable!Merge, Merge, Durable!Validate, Validate,
         Durable!Fields, Fields, Durable!Formats, Formats, Durable!MinPollInterval, MinPollInterval

LEMMA DurableStart == Init => Durable!Init
  BY SameData DEF Init, Durable!Init, Load

LEMMA DurableStep ==
    SettingsInv /\ [Next]_vars => [Durable!Next]_<<up, Load(file), override, inSync>>
<1> DEFINE stored == Load(file)
<1> SUFFICES ASSUME SettingsInv, [Next]_vars, inSync, inSync'
             PROVE  \/ Durable!Save \/ Durable!Publish \/ Durable!Crash \/ Durable!Boot
                    \/ UNCHANGED <<up, Load(file), override, inSync>>
  BY DEF Durable!Next
<1>1. ASSUME UNCHANGED <<up, file, override>>
      PROVE  UNCHANGED <<up, Load(file), override, inSync>>
  BY <1>1, LoadNext
<1>2. ASSUME NEW w \in Writers,
             (pc[w] = "remove" /\ file' = Absent) \/ (pc[w] = "rename" /\ file' = tmp),
             UNCHANGED <<up, override>>
      PROVE  Durable!Save
  <2>1. Inside(w) /\ pc[w] # "commit"
    BY <1>2 DEF Inside
  <2>2. /\ up /\ Merged(w) /\ patch[w] \in Patches /\ Validate(patch[w])
        /\ \A v \in Writers \ {w} : ~Inside(v)
    BY <2>1, MergedFacts
  <2>3. override = Load(file)
    BY <2>1, <2>2 DEF SettingsInv, Inside
  <2>4. Load(file') = merged[w]
    BY <1>2, SavedFacts
  <2>5. PICK base \in {override, NoOverride} : merged[w] = Merge(base, patch[w])
    BY <2>2 DEF Merged
  <2> QED
    BY <1>2, <2>2, <2>3, <2>4, <2>5, LoadNext, SameData DEF Durable!Save
<1>3. ASSUME NEW w \in Writers, Commit(w) PROVE Durable!Publish
  <2>1. pc[w] = "commit" /\ override' = merged[w] /\ UNCHANGED <<up, file>>
    BY <1>3 DEF Commit, disk
  <2>2. up /\ Load(file) = merged[w]
    BY <2>1 DEF SettingsInv, Update, Inside
  <2>3. Load(file)' = Load(file)
    BY <2>1, LoadNext
  <2> QED
    BY <2>1, <2>2, <2>3 DEF Durable!Publish
<1>4. CASE Crash
  <2>1. up /\ up' = FALSE /\ override' = NoOverride /\ file' = file
    BY <1>4 DEF Crash, disk
  <2>2. Load(file)' = Load(file)
    BY <2>1, LoadNext
  <2> QED
    BY <2>1, <2>2, SameData DEF Durable!Crash
<1>5. CASE Boot
  <2>1. ~up /\ up' = TRUE /\ override' = Load(file) /\ file' = file
    BY <1>5 DEF Boot, disk
  <2>2. Load(file)' = Load(file)
    BY <2>1, LoadNext
  <2> QED
    BY <2>1, <2>2 DEF Durable!Boot
<1>6. CASE EditFile
  BY <1>6 DEF EditFile
<1>7. CASE UNCHANGED vars
  BY <1>1, <1>7 DEF vars, disk
<1>8. ASSUME NEW w \in Writers, NEW p \in Patches, NEW r \in BOOLEAN,
             UpdateInvalid(w, p) \/ UpdateValid(w, p, r)
      PROVE  UNCHANGED <<up, file, override>>
  BY <1>8 DEF UpdateInvalid, UpdateValid, vars, disk
<1>9. ASSUME NEW w \in Writers, UpdateLock(w) \/ MkdirAll(w) \/ WriteTmp(w) \/ PersistFailed(w)
      PROVE  UNCHANGED <<up, file, override>>
  BY <1>9 DEF UpdateLock, MkdirAll, WriteTmp, PersistFailed, Proceed, disk
<1>10. ASSUME NEW w \in Writers, Remove(w) \/ Rename(w), ~PersistFailed(w)
       PROVE  Durable!Save
  BY <1>2, <1>10 DEF Remove, Rename, Proceed
<1> QED
  BY <1>1, <1>3, <1>4, <1>5, <1>6, <1>7, <1>8, <1>9, <1>10 DEF Next, Step

-----------------------------------------------------------------------------
(* The theorems *)

\* Unless the file was edited by hand or could not be loaded, a crash at any point is
\* followed by a boot with the acknowledged override or the one just put on disk,
\* and what is loaded can be applied (settings.go:208-281), for any PUT handlers,
\* patches, values and edits.
THEOREM AlwaysRecoverable == Spec => []Recoverable
<1>1. Init => SettingsInv
  BY SettingsStart
<1>2. SettingsInv /\ [Next]_vars => SettingsInv'
  BY SettingsStep
<1>3. SettingsInv => Recoverable
  BY InvRecoverable
<1> QED
  BY <1>1, <1>2, <1>3, PTL DEF Spec

\* No update is lost: the override of a running server changes by whole Updates, each
\* on top of the one before (settings.go:213-251).
THEOREM UpdatesAreKept == Spec => NoLostUpdate
<1>1. Init => SettingsInv
  BY SettingsStart
<1>2. SettingsInv /\ [Next]_vars => SettingsInv' /\ [PatchStep]_vars
  BY SettingsStep, StepNoLostUpdate
<1> QED
  BY <1>1, <1>2, PTL DEF Spec, NoLostUpdate

\* Settings implements the durable register: every step of Update, of persist and of a
\* crash is a step of it or none (settings.go:205-208).
THEOREM SettingsAreDurable == Spec => ImplementsDurable
<1>1. Init => SettingsInv /\ Durable!Init
  BY SettingsStart, DurableStart
<1>2. SettingsInv /\ [Next]_vars
        => SettingsInv' /\ [Durable!Next]_<<up, Load(file), override, inSync>>
  BY SettingsStep, DurableStep
<1> QED
  BY <1>1, <1>2, PTL DEF Spec, ImplementsDurable, Durable!Spec
=============================================================================
