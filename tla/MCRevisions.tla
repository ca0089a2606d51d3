---------------------------- MODULE MCRevisions ----------------------------
EXTENDS Revisions, TLC
\* A deploy over both machines and one that replaces replicas of the node only.
Deploys == {<<"build", "refresh", "slot", "tell">>, <<"refresh", "tell">>}
=============================================================================
