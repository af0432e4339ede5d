SPECIFICATION FairSpec
CONSTANTS
    None = None
    p1 = p1
    p2 = p2
    w = w
    serv = serv
    web = web
    Services = {p1, w}
    Names = {serv, web}
    NameOf <- PairNameOf
    Wants <- PairWants
    Listening = {w}
    Beating = {p1}
    Mortal = {p1, w}
    Stall = FALSE
    MaxId = 2
INVARIANTS
    NeverPanics
    MembersAreWatched
PROPERTIES
    DeadAreRemoved
