\* Removals and new keys reach the members while connections fail.
SPECIFICATION FairSpec
CONSTANTS
    c = c  a = a  b = b  j = j
    Device = {c, a, b}
    Creator = c
    None = None
    MaxEpoch = 2
    Scenario <- LiveScenarios
PROPERTIES
    NewsReachesMembers
