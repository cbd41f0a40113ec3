CONSTANTS
  c1 = c1 c2 = c2 r1 = r1 r2 = r2
  CoreProcess = {c1, c2}
  Request = {r1, r2}
  None = None
  Core = Core
  Tool = tool
  MaxStops = 4
  Scene <- Scenes
SPECIFICATION HostsSpec
INVARIANTS HostsTypeOK FailedIsGone SwitchesAreObeyed
PROPERTIES RestartsRecover
CHECK_DEADLOCK FALSE
