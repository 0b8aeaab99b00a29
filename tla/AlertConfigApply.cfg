SPECIFICATION Spec
CONSTANTS
    w1 = w1
    w2 = w2
    hook = hook
    hook2 = hook2
    Nil = Nil
    NotADuration = NotADuration
    RatioOne = 10
    HttpURLs <- MCHttpURLs
    FieldValues <- MCFieldValues
    defaults <- MCdefaults
    Writers <- MCWriters
    Readers <- MCWriters
    Patches <- MCPatches
SYMMETRY MCSymmetry
INVARIANTS
    UncontendedPutTakesEffect
    OverlapLeavesNothingOlder
