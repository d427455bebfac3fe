\* set-device-mode, and list, against a keyboard that re-enumerates.
SPECIFICATION FairSpec
CONSTANTS
  Ports = {p1, p2}
  Minors = {0, 1, 2}
  Devices <- Keyboards
  MaxDisconnects = 2
  Commands <- SetsAndList
  WATCH_SECONDS = 2
INVARIANTS TypeOK ReachesTheDeviceMeant ControlInterfaceUnlessReplugged WritesAreDeliberate NoResetIsSeen BlameIsBacked
PROPERTIES CommandEnds
