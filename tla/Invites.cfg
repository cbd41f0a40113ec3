\* Two requests to one Core and a third to the next, for one code, beside a rotation and a join.
SPECIFICATION InviteFairSpec
CONSTANTS
    first = first  next = next  k1 = k1  r1 = r1  r2 = r2  r3 = r3  j1 = j1  d1 = d1  d2 = d2  x = x
    Process = {first, next}
    Updating = {k1, r1, r2, r3}
    Rotating = {k1}
    Redeeming = {r1, r2, r3}
    Joining = {j1}
    Home <- Homes
    Asker = {d1, d2}
    By <- Asking
    Code = {x}
    Asks <- OneCode
    None = None
INVARIANTS
    InvitesSound
PROPERTIES
    ImplementsAtomicCircle
    UpdatesFinish
CHECK_DEADLOCK FALSE
