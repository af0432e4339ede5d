SPECIFICATION FairSpec
CONSTANTS
    None = None
    c1 = c1
    c2 = c2
    Calls = {c1, c2}
    Timed = {c1}
    WithReply = {c2}
    Unencodable = {c2}
    AnswerKinds = {"value", "error", "garbled"}
    Ticking = TRUE
    WireCap = 1
    MaxSeq = 1
INVARIANTS
    EndedByOne
    NoCallStranded
    AnswerIsOwn
PROPERTIES
    FinishedIsFinal
    EveryCallReturns
    CloseEndsGoroutines
    ImplementsContract
