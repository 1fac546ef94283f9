SPECIFICATION FairSpec
CONSTANTS
  MaxEdits = 2
  MaxReloads = 2
  MaxDeaths = 2
  Broken = {2}
INVARIANTS TypeOK PipeHeld NoSecondWorker NoStaleReload
PROPERTIES NoOrphan StopHeard ReloadHeard Supervises
CHECK_DEADLOCK FALSE
