SPECIFICATION Spec
CONSTANTS
    Replicas = {r1}
    Users = {u1}
    Tasks = {t1}
    Deployers = {}
    MaxCmds = 2
    MaxFaults = 0
    Events = {"link", "tunnel", "agent", "server", "ping", "sweep"}
    Overtake = FALSE
    None = None
PROPERTIES SweepSparesLive
