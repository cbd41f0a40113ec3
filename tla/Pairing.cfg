\* One session, two clicks at a time on each side.
SPECIFICATION FairSpec
CONSTANTS
    s1 = s1  d1 = d1  k1 = k1  k2 = k2
    Session = {s1}
    Joiner = {d1}
    Of <- Alone
    Click = {k1, k2}
    MaxOpen = 1
    None = None
INVARIANTS
    TypeOK
    JoiningIsAgreed
PROPERTIES
    PairingEnds
