SPECIFICATION FairSpec
CONSTANTS
    MaxRequests = 2
    MaxRoleId = 4
    MaxUserId = 3
    MaxRowId = 5
    Names = {ann, bob}
    Root = root
    Permissions = {"nodes.add", "nodes.manage", "apps.manage"}
    Grantable = {{}, {"nodes.manage"}}
    None = None
    MaxNodeId = 3
    NodeLimit = 2
    MaxInviteId = 5
    Hostnames = {h1, h2, h3}
    MaxSockets = 2
    MaxEvents = 3
INVARIANT TypeOK
INVARIANT AdmittedHadPermission
INVARIANT OneNodePerInvite
INVARIANT NodesWithinLimit
INVARIANT ReplicasHaveNode
PROPERTY RoleKept
PROPERTY DisabledGoesOffline
PROPERTY ConnectedIsOnline
