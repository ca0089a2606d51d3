SPECIFICATION FairSpec
CONSTANTS
    MaxCmds = 2
    Conns = {c1, c2}
    Polls = {p1}
    Callers = {r1}
    Keys = {k1}
    ClaimLimit = 1
    MaxFaults = 1
    None = None
PROPERTIES Delivered
