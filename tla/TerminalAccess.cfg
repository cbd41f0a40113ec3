CONSTANTS
    Peer = {p}
    Window = {w1, w2}
    Request = {r1}
    Setting <- Settings
    MaxKey = 1
SPECIFICATION FairSpec
INVARIANTS TypeOK ClosedAtOnce
PROPERTY StreamsEnd
