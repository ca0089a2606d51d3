----------------------------- MODULE MCLocalApp -----------------------------
EXTENDS LocalApp, TLC
AllKinds == {"start", "stop", "restart", "restart_instance", "delete_instance",
             "scale", "delete", "zd", "maintenance", "update", "refresh"}
MCStarts ==
    [replicas : {2}, status : {"running", "stopped"}, policy : {"no"}]
    \cup [replicas : {1}, status : {"running"}, policy : {"always"}]
=============================================================================
