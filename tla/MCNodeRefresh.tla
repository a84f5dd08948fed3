---------------------------- MODULE MCNodeRefresh ----------------------------
EXTENDS NodeRefresh

CONSTANTS r1, p1

OneRequest == {r1}
PlainOne   == [r \in OneRequest |-> "plain"]
OrderOne   == [r \in OneRequest |-> "order"]
OneProject == [r \in OneRequest |-> p1]
=============================================================================
