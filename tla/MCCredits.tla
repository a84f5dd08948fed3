------------------------------ MODULE MCCredits ------------------------------
EXTENDS Credits

CONSTANTS b1, b2, a1, a2, a3, s1, x1, app

TwoBuys   == {b1, b2}
ThreeActs == {a1, a2, a3}
OneScan   == {s1}

\* All are about one application and one product, and about subscriptions
\* except the third activation.
TheProduct == [f \in TwoBuys \cup ThreeActs \cup OneScan |-> x1]
TheType    == [f \in TwoBuys \cup ThreeActs |-> IF f = a3 THEN "scan" ELSE "sub"]
TheApp     == [f \in ThreeActs \cup OneScan |-> app]

\* One and a half credits, and half a credit less.
TheQty     == [f \in TwoBuys |-> IF f = b1 THEN 3 ELSE -1]
==============================================================================
