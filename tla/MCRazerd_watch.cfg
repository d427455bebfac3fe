\* A disconnect between the last look and the final count.
SPECIFICATION Spec
CONSTANTS
  Ports = {p1}
  Minors = {0, 1, 2}
  Devices <- Keyboards
  MaxDisconnects = 1
  Commands <- OneSet
  WATCH_SECONDS = 1
INVARIANT NoResetIsHonest
