\* What every roster and key keeps true, from four starting points.
SPECIFICATION Spec
CONSTANTS
    c = c  a = a  b = b  j = j
    Device = {c, a, b}
    Creator = c
    None = None
    MaxEpoch = 2
    Scenario <- SafetyScenarios
INVARIANTS
    TypeOK
    RostersSound
    KeysFollowCreator
PROPERTIES
    NothingForgotten
