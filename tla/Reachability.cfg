\* Three members: restarts, pauses, cuts and announcements; two events at most.  The network
\* around two of them, and around three of which two are on one computer.
SPECIFICATION HoodSpec
CONSTANTS
    a = a  b = b  c = c  home = home  cafe = cafe  i1 = i1  i2 = i2  i3 = i3
    Order <- Three
    Creator = c
    GoneTTL = 2
    Impatient = 3
    Nobody = Nobody
    MaxEvents = 2
    Scene <- Scenes
    Computer <- Computers
    Port <- Ports
    DefaultPort = 1
    Address = {i1, i2, i3}
    Net <- Nets
INVARIANTS
    HoodTypeOK
PROPERTIES
    HoldsOn
    Meets
    HealthIsHonest
    DashboardCatchesUp
