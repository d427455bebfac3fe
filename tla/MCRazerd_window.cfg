\* The keyboard re-enumerates between the walk and the open.
SPECIFICATION Spec
CONSTANTS
  Ports = {p1}
  Minors = {0, 1, 2}
  Devices <- Keyboards
  MaxDisconnects = 1
  Commands <- OneSet
  WATCH_SECONDS = 1
INVARIANT ControlInterface
