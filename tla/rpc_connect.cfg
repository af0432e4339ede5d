SPECIFICATION ConnectSpec
CONSTANTS
    None = None
    r1 = r1
    r2 = r2
    r3 = r3
    Requests = {r1, r2, r3}
    Hanging = {r1, r2, r3}
    ResultCap = 1
    Beating = TRUE
    Deadlines = {TRUE, FALSE}
PROPERTIES
    ConstructorReturns
    WorkerEnds
    ClosedConnUnwinds
    AbandonedConnIsClosed
