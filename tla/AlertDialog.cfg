SPECIFICATION PageSpec
CONSTANTS
    hook = hook
    hook2 = hook2
    Nil = Nil
    NotADuration = NotADuration
    NoView = NoView
    NoHistory = NoHistory
    MaxFired = 3
    Tests <- MCTwoTests
    NoForm = NoForm
    RatioOne = 10
    RatioStep = 2
    HttpURLs <- MCHttpURLs
    FieldValues <- MCFieldValues
    defaults <- MCdefaults
    Typed <- MCTyped
    URLs <- MCURLs
    OtherPatches <- MCOtherPatches
    Saves <- MCOneSave
ACTION_CONSTRAINT Apart
INVARIANTS
    TestIsListed
PROPERTIES
    WebhookUntouched
    TypedSurvives
