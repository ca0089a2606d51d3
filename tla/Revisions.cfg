SPECIFICATION FairSpec
CONSTANTS
    MaxCommit = 2
    Cmds = {c1, c2}
    Tracked = TRUE
    MaxRequests = 3
    MaxTrouble = 2
    MaxEvents = 4
    Itineraries <- Deploys
    Starts = {"absent", "built"}
    None = None
INVARIANTS TypeOK LabelsHold StartsCurrent NodeRunsWhatIsAsked
PROPERTIES CatchesUp
