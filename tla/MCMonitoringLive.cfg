SPECIFICATION Spec
CONSTANTS
  router = router
  switch = switch
  Devices = {router}
  MaxId = 3
  MaxRestarts = 1
  MaxMisses = 0
CHECK_DEADLOCK FALSE
PROPERTIES
  OfflineAnnouncedOnce
  SeverityChangesAreRaised
  SpikesAreReportedAtOnce
  StatusFollowsDevice
