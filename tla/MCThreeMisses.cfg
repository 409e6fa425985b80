SPECIFICATION Spec
CONSTANTS
  router = router
  switch = switch
  Devices = {router}
  MaxId = 2
  MaxRestarts = 0
  MaxMisses = 3
CHECK_DEADLOCK FALSE
PROPERTY
  OfflineAfterThreeMisses
