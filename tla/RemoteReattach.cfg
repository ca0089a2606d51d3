SPECIFICATION FairSpec
CONSTANTS
    Replicas = {r1}
    Users = {}
    Tasks = {t1}
    Deployers = {}
    MaxCmds = 2
    MaxFaults = 1
    Events = {"ping"}
    Overtake = FALSE
    None = None
PROPERTIES Reattached
