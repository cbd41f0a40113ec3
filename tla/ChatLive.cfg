\* What is queued leaves the outbox, with links that drop and a Core that stops.
SPECIFICATION FairSpec
CONSTANTS
    a = a  b = b  c = c  trio = trio  pair = pair  all = all
    Device = {a, b}
    Host = a
    Creator = a
    NMessages = 1
    Sender <- FirstSender
    Conv <- FirstConv
    Everyone = all
    Parties <- MCParties
    Chosen <- MCChosen
    Founder <- MCFounder
    NoConv = NoConv
    NoWire = NoWire
    MaxKey = 1
    MaxStops = 1
    Flusher = {f}
    Scene <- LiveScenes
PROPERTIES
    QueuedLeaves
