SPECIFICATION Spec
CONSTANTS
    MaxCmds = 2
    Conns = {c1, c2}
    Polls = {p1, p2}
    Callers = {r1}
    Keys = {k1}
    ClaimLimit = 1
    MaxFaults = 2
    None = None
SYMMETRY SocketSymmetry
INVARIANTS TypeOK AtMostOnce OneHolder
PROPERTIES OutcomeStands RunsInOrder ImplementsContract
