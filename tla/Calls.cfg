CONSTANTS
  Device <- Devices
  Caller <- Callers
SPECIFICATION CallSpec
INVARIANTS CallTypeOK CallAgrees LeaversAreDropped
\* The call may be over for everyone.
CHECK_DEADLOCK FALSE
