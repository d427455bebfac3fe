\* A daemon that the user manager does not stop.
SPECIFICATION Spec
CONSTANTS
  Devices <- OneDevice
  MaxUnbinds = 0
  Users = {u1}
  MaxRuns = 1
INVARIANT DaemonsStopped
CHECK_DEADLOCK FALSE
