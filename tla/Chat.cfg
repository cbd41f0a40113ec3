\* Posts, flushes, rotations and stops in any order; groups; reading.
SPECIFICATION Spec
CONSTANTS
    a = a  b = b  c = c  trio = trio  pair = pair  all = all
    Device = {a, b, c}
    Host = a
    Creator = a
    NMessages = 4
    Sender <- MCSender
    Conv <- MCConv
    Everyone = all
    Parties <- MCParties
    Chosen <- MCChosen
    Founder <- MCFounder
    NoConv = NoConv
    NoWire = NoWire
    MaxKey = 2
    MaxStops = 1
    Flusher = {f}
    Scene <- Scenes
INVARIANTS
    TypeOK
    OutboxSound
    ReadWasShown
PROPERTIES
    ImplementsMessaging
