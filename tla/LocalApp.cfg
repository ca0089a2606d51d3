SPECIFICATION FairSpec
CONSTANTS
    MaxId = 4
    RangeEnd = 4
    MaxPort = 6
    MaxRequests = 2
    MaxFaults = 1
    MaxEvents = 2
    Starts <- MCStarts
    AutoStart = TRUE
    MaxRestarts = 1
    Kinds <- AllKinds
    None = None
    Nobody = Nobody
INVARIANT TypeOK
INVARIANT HostAgrees
INVARIANT NoOrphan
INVARIANT PortsDistinct
INVARIANT SiteAgrees
PROPERTY MaintenanceStays
PROPERTY ZeroDowntime
PROPERTY PageLeaves
PROPERTY Converges
