SPECIFICATION FairSpec
CONSTANTS
    Replicas = {r1, r2}
    Users = {u1, u2}
    Tasks = {t1}
    Deployers = {d1}
    MaxCmds = 3
    MaxFaults = 0
    Events = {}
    Overtake = FALSE
    None = None
INVARIANTS StopSticks
PROPERTIES Settles
