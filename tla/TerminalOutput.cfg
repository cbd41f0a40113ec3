\* One session, its owner, two viewers, two requests at a time; a window.
SPECIFICATION SessionSpec
CONSTANTS
    o = o  v = v  w = w  t1 = t1  t2 = t2  win = win
    Device = {o, v, w}
    Owner = o
    Thread = {t1, t2}
    None = None
    Setting <- BothSettings
    MaxLease = 4
    Window = {win}
    QueueMax = 2
    MaxSeq = 2
    Play <- Scenes
SYMMETRY Alike
CHECK_DEADLOCK FALSE
INVARIANTS
    SessionTypeOK
    LeasesSound
    StaleControllersRejected
    NoSilentGap
