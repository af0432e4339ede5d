SPECIFICATION DialSpec
CONSTANTS
    Beating = TRUE
    Deadlines = {TRUE, FALSE}
INVARIANTS
    TimeoutReleasesConn
