----------------------------- MODULE MCNodePool -----------------------------
EXTENDS NodePool

CONSTANTS r1, r2, r3, p1, p2, p3

OneRequest    == {r1}
TwoRequests   == {r1, r2}
ThreeRequests == {r1, r2, r3}

AllUnit    == [r \in ThreeRequests |-> "unit"]
UnitOrder  == [r \in TwoRequests |-> IF r = r1 THEN "unit" ELSE "order"]
PlainPlain == [r \in TwoRequests |-> "plain"]
PlainUnit  == [r \in TwoRequests |-> IF r = r1 THEN "plain" ELSE "unit"]
PlainOne   == [r \in OneRequest |-> "plain"]
OwnProject == [r \in TwoRequests |-> IF r = r1 THEN p1 ELSE p2]
OwnProjects == [r \in ThreeRequests |-> IF r = r1 THEN p1 ELSE IF r = r2 THEN p2 ELSE p3]
SameProject == [r \in TwoRequests |-> p1]
OneProject == [r \in OneRequest |-> p1]
=============================================================================
