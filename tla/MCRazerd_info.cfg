\* list and info while devices come and go.
SPECIFICATION Spec
CONSTANTS
  Ports = {p1, p2}
  Minors = {0, 1, 2}
  Devices <- AllKinds
  MaxDisconnects = 1
  Commands <- Reads
  WATCH_SECONDS = 1
INVARIANTS WalkIsExact ReachesTheDeviceMeant InfoAccounts
PROPERTIES NothingAfterIdle InfoGetsOn
