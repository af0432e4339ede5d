SPECIFICATION FairSpec
CONSTANTS
    None = None
    Callers = {c1, c2}
    User = user
    Slots = {1, 2}
    Name = serv
    Pushes = {u1, u2}
    Addrs = {a1}
    Lists = {{}, {a1}}
    Cap = 1
INVARIANTS
    ChannelIsSafe
    OneClientPerAddress
    CloseClosesAll
PROPERTIES
    CallsReturn
    UpdatesAreApplied
    CloseEndsGoroutines
