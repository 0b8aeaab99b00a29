SPECIFICATION Spec
CONSTANTS
    w1 = w1
    w2 = w2
    hook = hook
    Nil = Nil
    NotADuration = NotADuration
    None = None
    Absent = Absent
    Corrupt = Corrupt
    RatioOne = 10
    HttpURLs <- MCHttpURLs
    FieldValues <- MCFieldValues
    defaults <- MCdefaults
    Writers <- MCWriters
    Patches <- MCPatches
    Edits <- MCEdits
    MaxEdits = 1
    ReadErrors = TRUE
SYMMETRY MCSymmetry
INVARIANTS
    Recoverable
PROPERTIES
    NoLostUpdate
    ImplementsDurable
