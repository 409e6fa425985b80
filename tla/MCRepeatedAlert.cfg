SPECIFICATION Spec
CONSTANTS
  router = router
  switch = switch
  Devices = {router}
  MaxId = 2
  MaxRestarts = 0
  MaxMisses = 0
CHECK_DEADLOCK FALSE
PROPERTY
  RepeatsAreSuppressed
