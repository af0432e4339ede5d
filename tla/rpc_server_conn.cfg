SPECIFICATION FairSpec
CONSTANTS
    None = None
    r1 = r1
    r2 = r2
    Requests = {r1, r2}
    Hanging = {r1}
    ResultCap = 1
INVARIANTS
    NoSendOnClosed
    TimelyAnswersAreWhole
PROPERTIES
    EveryRequestAnswered
    SilenceIsNoticed
