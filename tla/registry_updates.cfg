SPECIFICATION Spec
CONSTANTS
    None = None
    p1 = p1
    p2 = p2
    w = w
    serv = serv
    web = web
    Services = {p1, p2, w}
    Names = {serv, web}
    NameOf <- MCNameOf
    Wants <- MCWants
    Listening = {w}
    Beating = {}
    Mortal = {p1}
    Stall = TRUE
    MaxId = 3
INVARIANTS
    IndexesAgree
    EveryChangeIsSent
