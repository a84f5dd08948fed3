---------------------------- MODULE MCOrgMembers ----------------------------
EXTENDS OrgMembers

CONSTANTS r1, r2, a1, a2, a3

OneCreator  == [r \in {r1, r2} |-> IF r = r1 THEN Kinds ELSE Kinds \ {"create"}]
TwoCreators == [r \in {r1, r2} |-> Kinds]
=============================================================================
