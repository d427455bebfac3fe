\* Two runs of the script, either killed anywhere, while the bus changes and razerd reads it.
SPECIFICATION Spec
CONSTANTS
  Devices <- ThreeDevices
  MaxUnbinds = 1
  Users = {u1}
  MaxRuns = 2
INVARIANTS TypeOK NothingLeftOrphaned EndsOnGeneric SteadyReadingIsExact
PROPERTIES BystandersUntouched
\* The script ends, and devices, unbinds and runs are bounded.
CHECK_DEADLOCK FALSE
